---------------------------- MODULE TransportProofs ----------------------------
(***************************************************************************)
(* Proofs about Transport, for every number of goroutines, messages and    *)
(* failures: no message's callback is lost or doubled, every record has    *)
(* its header, Close closes, and both producers keep what rp.Producer      *)
(* promises.                                                               *)
(***************************************************************************)
EXTENDS Transport, SequenceTheorems, FiniteSetTheorems, TLAPS

-----------------------------------------------------------------------------
(* Sequences of messages *)

LEMMA AppendToSet ==
    ASSUME NEW S, NEW s \in Seq(S), NEW e \in S
    PROVE  ToSet(Append(s, e)) = ToSet(s) \union {e}
<1>1. /\ Len(s) \in Nat /\ DOMAIN s = 1..Len(s)
      /\ DOMAIN Append(s, e) = 1..(Len(s) + 1)
      /\ \A i \in 1..Len(s) : Append(s, e)[i] = s[i]
      /\ Append(s, e)[Len(s) + 1] = e
  BY AppendProperties, LenProperties
<1>2. ASSUME NEW x \in ToSet(Append(s, e)) PROVE x \in ToSet(s) \union {e}
  BY <1>1 DEF ToSet
<1>3. ToSet(s) \subseteq ToSet(Append(s, e))
  <2> SUFFICES ASSUME NEW i \in 1..Len(s) PROVE s[i] \in ToSet(Append(s, e))
    BY <1>1 DEF ToSet
  <2>1. i \in 1..(Len(s) + 1)
    BY <1>1
  <2> QED BY <1>1, <2>1 DEF ToSet
<1>4. e \in ToSet(Append(s, e))
  BY <1>1 DEF ToSet
<1> QED BY <1>2, <1>3, <1>4

LEMMA HeadTailToSet ==
    ASSUME NEW S, NEW s \in Seq(S), s # <<>>, IsInjective(s)
    PROVE  /\ ToSet(Tail(s)) = ToSet(s) \ {Head(s)} /\ Head(s) \in ToSet(s)
           /\ IsInjective(Tail(s))
<1>1. /\ Len(s) \in Nat \ {0} /\ DOMAIN s = 1..Len(s) /\ Head(s) = s[1]
      /\ DOMAIN Tail(s) = 1..(Len(s) - 1)
      /\ \A i \in 1..(Len(s) - 1) : Tail(s)[i] = s[i + 1]
  BY HeadTailProperties, LenProperties, EmptySeq
<1>2. Head(s) \in ToSet(s)
  BY <1>1 DEF ToSet
<1>3. ASSUME NEW x \in ToSet(Tail(s)) PROVE x \in ToSet(s) \ {Head(s)}
  <2>1. PICK i \in 1..(Len(s) - 1) : x = s[i + 1]
    BY <1>1 DEF ToSet
  <2>2. i + 1 \in DOMAIN s /\ 1 \in DOMAIN s /\ i + 1 # 1
    BY <1>1
  <2> QED BY <1>1, <2>1, <2>2 DEF ToSet, IsInjective
<1>4. ASSUME NEW x \in ToSet(s) \ {Head(s)} PROVE x \in ToSet(Tail(s))
  <2>1. PICK i \in 1..Len(s) : x = s[i]
    BY <1>1 DEF ToSet
  <2>2. i - 1 \in 1..(Len(s) - 1) /\ (i - 1) + 1 = i
    BY <1>1, <2>1
  <2>3. Tail(s)[i - 1] = x
    BY <1>1, <2>1, <2>2
  <2> QED BY <1>1, <2>2, <2>3 DEF ToSet
<1>5. IsInjective(Tail(s))
  <2> SUFFICES ASSUME NEW i \in 1..(Len(s) - 1), NEW j \in 1..(Len(s) - 1),
                      Tail(s)[i] = Tail(s)[j]
               PROVE  i = j
    BY <1>1 DEF IsInjective
  <2>1. s[i + 1] = s[j + 1] /\ i + 1 \in DOMAIN s /\ j + 1 \in DOMAIN s
    BY <1>1
  <2> QED BY <1>1, <2>1 DEF IsInjective
<1> QED BY <1>2, <1>3, <1>4, <1>5

LEMMA AppendInjectiveSeq ==
    ASSUME NEW S, NEW s \in Seq(S), NEW e \in S, IsInjective(s), e \notin ToSet(s)
    PROVE  IsInjective(Append(s, e))
<1>1. /\ Len(s) \in Nat /\ DOMAIN s = 1..Len(s)
      /\ DOMAIN Append(s, e) = 1..(Len(s) + 1)
      /\ \A i \in 1..Len(s) : Append(s, e)[i] = s[i]
      /\ Append(s, e)[Len(s) + 1] = e
  BY AppendProperties, LenProperties
<1>2. \A i \in 1..Len(s) : s[i] # e
  BY <1>1 DEF ToSet
<1> SUFFICES ASSUME NEW i \in 1..(Len(s) + 1), NEW j \in 1..(Len(s) + 1),
                    Append(s, e)[i] = Append(s, e)[j]
             PROVE  i = j
  BY <1>1 DEF IsInjective
<1>3. CASE i \in 1..Len(s) /\ j \in 1..Len(s)
  BY <1>1, <1>3 DEF IsInjective
<1>4. CASE i = Len(s) + 1 \/ j = Len(s) + 1
  BY <1>1, <1>2, <1>4
<1> QED BY <1>1, <1>3, <1>4

\* Any order of a finite set of messages put behind a sequence of others.
LEMMA ConcatOrder ==
    ASSUME NEW n \in Nat, NEW s \in Seq(1..n), IsInjective(s),
           NEW B \in SUBSET (1..n), B \intersect ToSet(s) = {},
           NEW order, order \in SetToSeqs(B)
    PROVE  /\ s \o order \in Seq(1..n) /\ IsInjective(s \o order)
           /\ ToSet(s \o order) = ToSet(s) \union B
<1>1. IsFiniteSet(B) /\ Cardinality(B) \in Nat
  <2>1. IsFiniteSet(1..n)
    BY FS_Interval
  <2> QED BY <2>1, FS_Subset, FS_CardinalityType
<1>0. PICK k \in Nat : k = Cardinality(B)
  BY <1>1
<1>2. /\ order \in [1..k -> B]
      /\ \A i, j \in 1..k : i # j => order[i] # order[j]
  BY <1>0 DEF SetToSeqs
<1>3. order \in Seq(1..n) /\ Len(order) = k
  <2>1. order \in [1..k -> 1..n]
    BY <1>2
  <2>2. order \in Seq(1..n)
    BY <2>1, SeqDef
  <2>3. DOMAIN order = 1..k /\ DOMAIN order = 1..Len(order) /\ Len(order) \in Nat
    BY <2>1, <2>2, LenProperties
  <2>4. k \in 1..Len(order) \/ k = 0
    BY <2>3
  <2>5. Len(order) \in 1..k \/ Len(order) = 0
    BY <2>3
  <2> QED BY <2>2, <2>3, <2>4, <2>5
<1>4. ToSet(order) = B
  <2>1. order \in Injection(1..k, B)
    BY <1>2 DEF Injection, IsInjective
  <2>2. IsFiniteSet(1..k) /\ Cardinality(1..k) = k
    BY <1>0, FS_Interval
  <2>3. order \in Surjection(1..k, B)
    BY <1>0, <1>1, <2>1, <2>2, FS_Injection
  <2>4. DOMAIN order = 1..k /\ \A i \in 1..k : order[i] \in B
    BY <1>2
  <2>5. \A b \in B : \E i \in 1..k : order[i] = b
    BY <2>3 DEF Surjection
  <2> QED BY <2>4, <2>5 DEF ToSet
<1>5. /\ s \o order \in Seq(1..n) /\ Len(s) \in Nat /\ DOMAIN s = 1..Len(s)
      /\ DOMAIN (s \o order) = 1..(Len(s) + k)
      /\ \A i \in 1..(Len(s) + k) :
            (s \o order)[i] = IF i <= Len(s) THEN s[i] ELSE order[i - Len(s)]
  <2>1. /\ s \o order \in Seq(1..n) /\ Len(s) \in Nat /\ DOMAIN s = 1..Len(s)
        /\ Len(s \o order) = Len(s) + k
        /\ \A i \in 1..(Len(s) + k) :
              (s \o order)[i] = IF i <= Len(s) THEN s[i] ELSE order[i - Len(s)]
    <3>1. /\ s \o order \in Seq(1..n) /\ Len(s \o order) = Len(s) + Len(order)
          /\ \A i \in 1..(Len(s) + Len(order)) :
                (s \o order)[i] = IF i <= Len(s) THEN s[i] ELSE order[i - Len(s)]
      BY <1>3, ConcatProperties, Zenon
    <3>2. Len(s) \in Nat /\ DOMAIN s = 1..Len(s)
      BY LenProperties
    <3> QED BY <1>3, <3>1, <3>2, Zenon
  <2> QED BY <2>1, LenProperties
<1>6. ToSet(s \o order) = ToSet(s) \union B
  <2>1. ASSUME NEW i \in 1..Len(s) PROVE s[i] \in ToSet(s \o order)
    <3>1. i \in 1..(Len(s) + k) /\ (s \o order)[i] = s[i]
      BY <1>1, <1>5
    <3> QED BY <1>5, <3>1 DEF ToSet
  <2>2. ASSUME NEW i \in 1..k PROVE order[i] \in ToSet(s \o order)
    <3>1. Len(s) + i \in 1..(Len(s) + k) /\ (s \o order)[Len(s) + i] = order[i]
      BY <1>1, <1>5
    <3> QED BY <1>5, <3>1 DEF ToSet
  <2>3. ASSUME NEW i \in 1..(Len(s) + k) PROVE (s \o order)[i] \in ToSet(s) \union B
    <3>1. CASE i <= Len(s)
      <4>1. i \in 1..Len(s) /\ (s \o order)[i] = s[i]
        BY <1>1, <1>5, <3>1
      <4> QED BY <1>5, <4>1 DEF ToSet
    <3>2. CASE i > Len(s)
      BY <1>1, <1>2, <1>5, <3>2
    <3> QED BY <1>5, <3>1, <3>2
  <2>4. ToSet(s \o order) = {(s \o order)[i] : i \in 1..(Len(s) + k)}
    BY <1>5 DEF ToSet
  <2>5. ToSet(s) = {s[i] : i \in 1..Len(s)} /\ B = {order[i] : i \in 1..k}
    BY <1>2, <1>4, <1>5 DEF ToSet
  <2>6. ToSet(s) \union B \subseteq ToSet(s \o order)
    BY <2>1, <2>2, <2>5
  <2>7. ToSet(s \o order) \subseteq ToSet(s) \union B
    BY <2>3, <2>4
  <2> QED BY <2>6, <2>7
<1>7. IsInjective(s \o order)
  <2> SUFFICES ASSUME NEW i \in 1..(Len(s) + k), NEW j \in 1..(Len(s) + k), i # j
               PROVE  (s \o order)[i] # (s \o order)[j]
    BY <1>5 DEF IsInjective
  <2>1. CASE i <= Len(s) /\ j <= Len(s)
    <3>1. i \in DOMAIN s /\ j \in DOMAIN s
      BY <1>1, <1>5, <2>1
    <3>2. s[i] # s[j]
      BY <3>1 DEF IsInjective
    <3> QED BY <1>5, <2>1, <3>2
  <2>2. CASE i > Len(s) /\ j > Len(s)
    <3>1. i - Len(s) \in 1..k /\ j - Len(s) \in 1..k /\ i - Len(s) # j - Len(s)
      BY <1>1, <1>5, <2>2
    <3> QED BY <1>2, <1>5, <2>2, <3>1
  <2>3. ASSUME NEW x \in 1..Len(s), NEW y \in 1..k PROVE s[x] # order[y]
    <3>1. order[y] \in B /\ s[x] \in ToSet(s)
      BY <1>2, <1>5 DEF ToSet
    <3> QED BY <3>1
  <2>4. CASE i <= Len(s) /\ j > Len(s)
    <3>1. i \in 1..Len(s) /\ j - Len(s) \in 1..k
      BY <1>1, <1>5, <2>4
    <3> QED BY <1>5, <2>3, <2>4, <3>1
  <2>5. CASE i > Len(s) /\ j <= Len(s)
    <3>1. j \in 1..Len(s) /\ i - Len(s) \in 1..k
      BY <1>1, <1>5, <2>5
    <3> QED BY <1>5, <2>3, <2>5, <3>1
  <2> QED BY <1>1, <1>5, <2>1, <2>2, <2>4, <2>5
<1> QED BY <1>5, <1>6, <1>7

-----------------------------------------------------------------------------
(* Types *)

USE BoundsAssumption, IDsAssumption DEF BoundsAssumption, IDsAssumption

Running == {"callbacks", "callback", "stuck"}
NotCreating == {c \in Callers : pc[c] # "creating"}

\* What the types need of the counters and of what a goroutine is doing: a client
\* is left open at most once a failure, a consumer is created at most once by each
\* goroutine that found none, a goroutine holds callbacks only while it runs them.
Counted ==
    /\ strays <= fails
    /\ made = "resolving" => attempt < Attempts
    /\ created <= Cardinality(NotCreating)
    /\ consumer = None => created = 0
    /\ \A c \in Callers :
         /\ pc[c] \in {"callback", "stuck", "sync"} => own[c] # 0
         /\ pc[c] = "callbacks" => taken[c] # <<>>
         /\ pc[c] \notin Running => taken[c] = <<>>

TypeInv == TypeOK /\ Counted

LEMMA InitType == Init => TypeInv
<1> SUFFICES ASSUME Init PROVE TypeInv
  OBVIOUS
<1>1. <<>> \in Seq(1..0)
  BY EmptySeq
<1>2. Cardinality(Consumers) \in Nat /\ Cardinality(NotCreating) \in Nat
  <2>1. IsFiniteSet(NotCreating)
    BY CallersAssumption, FS_Subset DEF CallersAssumption, NotCreating
  <2>2. Cardinality(Callers) \in Nat
    BY CallersAssumption, FS_CardinalityType DEF CallersAssumption
  <2>3. IsFiniteSet(Consumers)
    BY <2>2, FS_Interval DEF Consumers
  <2> QED BY <2>1, <2>3, FS_CardinalityType
<1>3. taken \in [Callers -> Seq(1..count)] /\ finishing \in Seq(1..count)
      /\ pending \in Seq(1..count)
  BY <1>1 DEF Init
<1>4. due \in [Callers -> SUBSET (1..count)] /\ own \in [Callers -> 0..count]
  BY DEF Init, None
<1>5. /\ resolver \in BOOLEAN /\ made \in {"resolving", "dialing", "ready"}
  BY DEF Init
<1>6. kind \in {"none", "basic", "memory", "holding"}
  BY KindsAssumption DEF KindsAssumption, Init
<1>7. TypeOK
  <2>1. /\ kind \in {"none", "basic", "memory", "holding"}
        /\ made \in {"resolving", "dialing", "pinging", "ready", "failed"}
        /\ attempt \in 0..Attempts /\ schemaID \in 0..IDModulus-1 /\ answered \subseteq Answers
    BY <1>5, <1>6 DEF Init
  <2>5. /\ resolver \in BOOLEAN /\ sync \in BOOLEAN /\ connected \in BOOLEAN
        /\ hold \in BOOLEAN /\ raced \in BOOLEAN /\ panicked \in BOOLEAN
    BY <1>5 DEF Init
  <2>2. /\ count \in 0..MaxMsgs
        /\ framed \subseteq 1..count /\ returned \subseteq 1..count
        /\ settled \subseteq 1..count /\ buffer \subseteq 1..count
        /\ flushed \subseteq 1..count /\ running \in 0..count
    BY DEF Init, None
  <2>3. /\ consumer \in {None, TypedNil} \union Consumers
        /\ opened \subseteq 1..created /\ created \in 0..Cardinality(Consumers)
        /\ strays \in 0..MaxFails /\ fails \in 0..MaxFails
        /\ mutex \in Callers \union {None}
    BY <1>2 DEF Init
  <2>4. pc \in [Callers -> {"idle", "sync", "flush", "callback", "callbacks",
                           "stuck", "creating", "created", "subscribed", "closing"}]
    BY DEF Init
  <2> QED BY <1>3, <1>4, <2>1, <2>2, <2>3, <2>4, <2>5 DEF TypeOK
<1>8. Counted
  BY <1>2 DEF Init, Counted, Running
<1> QED BY <1>7, <1>8 DEF TypeInv

\* A new message is within the range of the types after it, and so is the rest.
LEMMA NewType ==
    ASSUME TypeOK, New
    PROVE  /\ count' \in 0..MaxMsgs /\ count' = count + 1 /\ count' \in 1..count'
           /\ 1..count \subseteq 1..count' /\ 0..count \subseteq 0..count'
           /\ Seq(1..count) \subseteq Seq(1..count')
           /\ finishing \in Seq(1..count') /\ pending \in Seq(1..count')
           /\ own \in [Callers -> 0..count'] /\ taken \in [Callers -> Seq(1..count')]
           /\ due \in [Callers -> SUBSET (1..count')]
<1>1. count' \in 0..MaxMsgs /\ count' = count + 1 /\ count' \in 1..count'
      /\ 1..count \subseteq 1..count' /\ 0..count \subseteq 0..count'
  BY DEF New, TypeOK
<1>2. Seq(1..count) \subseteq Seq(1..count')
  BY <1>1, SeqMonotonic
<1>3. SUBSET (1..count) \subseteq SUBSET (1..count')
  BY <1>1
<1> QED BY <1>1, <1>2, <1>3 DEF TypeOK

LEMMA ProducerType ==
    ASSUME TypeInv,
           \/ Refused \/ (\E a \in Answers : Resolved(a)) \/ ResolveFails
           \/ Dial \/ PingReturns \/ Retry
    PROVE  TypeInv'
<1> USE DEF config, messages, client, memory, calls, consuming
<1>1. UNCHANGED <<config, messages, client, memory, calls, consuming, panicked>>
  BY DEF Refused, Resolved, ResolveFails, Dial, PingReturns, Retry
<1>2. /\ made' \in {"resolving", "dialing", "pinging", "ready", "failed"}
      /\ attempt' \in 0..Attempts /\ schemaID' \in 0..IDModulus-1
      /\ strays' \in 0..MaxFails /\ fails' \in 0..MaxFails /\ strays' <= fails'
      /\ made' = "resolving" => attempt' < Attempts
  <2> USE DEF Fail, TypeInv, TypeOK, Counted
  <2>1. CASE Refused
    BY <2>1 DEF Refused
  <2>2. CASE \E a \in Answers : Resolved(a)
    BY <2>2 DEF Resolved
  <2>3. CASE ResolveFails
    BY <2>3 DEF ResolveFails
  <2>4. CASE Dial
    BY <2>4 DEF Dial
  <2>5. CASE PingReturns
    BY <2>5 DEF PingReturns
  <2>6. CASE Retry
    BY <2>6 DEF Retry
  <2> QED BY <2>1, <2>2, <2>3, <2>4, <2>5, <2>6
<1>5. connected' \in BOOLEAN /\ answered' \subseteq Answers
  BY DEF Refused, Resolved, ResolveFails, Dial, PingReturns, Retry, TypeInv, TypeOK
<1>3. TypeOK'
  BY <1>1, <1>2, <1>5 DEF TypeInv, TypeOK
<1>4. Counted'
  BY <1>1, <1>2 DEF TypeInv, Counted, NotCreating
<1> QED BY <1>3, <1>4 DEF TypeInv

\* Publishing, whoever does it: what a new message may do to the places.
LEMMA PublishType ==
    ASSUME TypeInv, New,
           UNCHANGED <<config, producer, hold, taken, due, flushed, consuming, strays,
                       panicked, fails>>,
           framed' \in {framed, framed \union {count'}},
           returned' \in {returned, returned \union {count'}},
           settled' \in {settled, settled \union {count'}},
           buffer' \in {buffer, buffer \union {count'}},
           finishing' \in {finishing, Append(finishing, count')},
           pending' \in {pending, Append(pending, count')},
           UNCHANGED running, mutex' \in Callers \union {None},
           \/ UNCHANGED <<pc, own>>
           \/ \E c \in Callers :
                 /\ pc[c] \in {"idle", "callbacks"}
                 /\ \/ pc' = [pc EXCEPT ![c] = "callback"]
                    \/ pc[c] = "idle" /\ pc' = [pc EXCEPT ![c] = "sync"]
                 /\ own' = [own EXCEPT ![c] = count']
    PROVE  TypeInv'
<1> USE DEF config, producer, consuming
<1>1. /\ pc' \in [Callers -> {"idle", "sync", "flush", "callback", "callbacks",
                              "stuck", "creating", "created", "subscribed", "closing"}]
      /\ own' \in [Callers -> 0..count']
  <2>1. own \in [Callers -> 0..count'] /\ count' \in 0..count'
    BY NewType DEF TypeInv
  <2> QED BY <2>1 DEF TypeInv, TypeOK
<1>2. finishing' \in Seq(1..count') /\ pending' \in Seq(1..count')
      /\ taken' \in [Callers -> Seq(1..count')] /\ due' \in [Callers -> SUBSET (1..count')]
  <2>1. /\ finishing \in Seq(1..count') /\ pending \in Seq(1..count')
        /\ taken \in [Callers -> Seq(1..count')] /\ due \in [Callers -> SUBSET (1..count')]
        /\ count' \in 1..count'
    BY NewType DEF TypeInv
  <2>2. Append(finishing, count') \in Seq(1..count') /\ Append(pending, count') \in Seq(1..count')
    BY <2>1, AppendProperties
  <2> QED BY <2>1, <2>2
<1>3. /\ framed' \subseteq 1..count' /\ returned' \subseteq 1..count'
      /\ settled' \subseteq 1..count' /\ buffer' \subseteq 1..count'
      /\ flushed' \subseteq 1..count' /\ running' \in 0..count' /\ count' \in 0..MaxMsgs
  BY NewType DEF TypeInv, TypeOK
<1>4. TypeOK'
  <2>1. /\ kind' \in {"none", "basic", "memory", "holding"}
        /\ resolver' \in BOOLEAN /\ sync' \in BOOLEAN
        /\ made' \in {"resolving", "dialing", "pinging", "ready", "failed"}
        /\ attempt' \in 0..Attempts /\ schemaID' \in 0..IDModulus-1
        /\ connected' \in BOOLEAN /\ hold' \in BOOLEAN /\ answered' \subseteq Answers
    BY DEF TypeInv, TypeOK
  <2>2. /\ consumer' \in {None, TypedNil} \union Consumers
        /\ opened' \subseteq 1..created' /\ created' \in 0..Cardinality(Consumers)'
        /\ strays' \in 0..MaxFails /\ fails' \in 0..MaxFails
        /\ raced' \in BOOLEAN /\ panicked' \in BOOLEAN
    BY DEF TypeInv, TypeOK
  <2> QED BY <1>1, <1>2, <1>3, <2>1, <2>2 DEF TypeOK
<1>5. \A c \in Callers : pc'[c] = "creating" <=> pc[c] = "creating"
  BY DEF TypeInv, TypeOK
<1>6. NotCreating' = NotCreating
  BY <1>5 DEF NotCreating
<1>7. \A c \in Callers :
         /\ pc'[c] \in {"callback", "stuck", "sync"} => own'[c] # 0
         /\ pc'[c] = "callbacks" => taken'[c] # <<>>
         /\ pc'[c] \notin Running => taken'[c] = <<>>
  <2>1. count' # 0
    BY NewType DEF TypeInv, TypeOK
  <2> QED BY <2>1 DEF TypeInv, TypeOK, Counted, Running
<1>8. Counted'
  BY <1>6, <1>7 DEF TypeInv, Counted
<1> QED BY <1>4, <1>8 DEF TypeInv

LEMMA PublishesType ==
    ASSUME TypeInv,
           \/ PromisePublishes
           \/ \E c \in Callers : \/ BasicPublishAsync(c) \/ BasicPublish(c)
                                 \/ MemoryPublish(c) \/ MemoryPublishAsync(c)
    PROVE  TypeInv'
<1> USE DEF config, producer, messages, client, memory, calls, consuming
<1>1. CASE PromisePublishes
  BY <1>1, PublishType DEF PromisePublishes, Frame, Produce, TypeInv, TypeOK
<1>2. ASSUME NEW c \in Callers, BasicPublishAsync(c) PROVE TypeInv'
  BY <1>2, PublishType DEF BasicPublishAsync, Frame, Produce, TypeInv, TypeOK
<1>3. ASSUME NEW c \in Callers, BasicPublish(c) PROVE TypeInv'
  BY <1>3, PublishType DEF BasicPublish, Frame, Produce, Goes, Idle, TypeInv, TypeOK
<1>4. ASSUME NEW c \in Callers, MemoryPublish(c) PROVE TypeInv'
  BY <1>4, PublishType DEF MemoryPublish, TypeInv, TypeOK
<1>5. ASSUME NEW c \in Callers, MemoryPublishAsync(c) PROVE TypeInv'
  BY <1>5, PublishType DEF MemoryPublishAsync, Goes, Idle, TypeInv, TypeOK
<1> QED BY <1>1, <1>2, <1>3, <1>4, <1>5

\* What settles a message, and what a kgo client does on the way.
LEMMA SettleType ==
    ASSUME TypeInv,
           \/ (\E m \in Msgs : RecordDone(m)) \/ PromiseRuns \/ PromiseReturns
           \/ \E c \in Callers : SyncReturns(c) \/ CallbackReturns(c) \/ HeldCallbackReturns(c)
    PROVE  TypeInv'
<1> USE DEF config, producer, messages, client, memory, calls, consuming
<1>1. ASSUME NEW m \in Msgs, RecordDone(m) PROVE TypeInv'
  <2>1. finishing' \in Seq(1..count)
    BY <1>1, AppendProperties DEF RecordDone, TypeInv, TypeOK
  <2> QED BY <1>1, <2>1 DEF RecordDone, TypeInv, TypeOK, Counted, NotCreating
<1>2. CASE PromiseRuns
  <2>1. finishing' \in Seq(1..count) /\ running' \in 1..count
    BY <1>2, HeadTailProperties DEF PromiseRuns, TypeInv, TypeOK
  <2>3. running' \in 0..count /\ count' = count
    BY <1>2, <2>1 DEF PromiseRuns
  <2>4. UNCHANGED <<config, producer, count, framed, consuming, strays, panicked, fails>>
    BY <1>2 DEF PromiseRuns
  <2>5. /\ answered' \subseteq Answers /\ connected' \in BOOLEAN /\ resolver' \in BOOLEAN
        /\ sync' \in BOOLEAN /\ raced' \in BOOLEAN /\ panicked' \in BOOLEAN
    BY <2>4 DEF TypeInv, TypeOK
  <2>2. TypeOK'
    BY <1>2, <2>1, <2>3, <2>4, <2>5 DEF PromiseRuns, TypeInv, TypeOK
  <2> QED BY <1>2, <2>2 DEF PromiseRuns, TypeInv, Counted, NotCreating
<1>3. CASE PromiseReturns
  <2>1. running' \in 0..count /\ settled' \subseteq 1..count
    BY <1>3 DEF PromiseReturns, TypeInv, TypeOK, None
  <2> QED BY <1>3, <2>1 DEF PromiseReturns, TypeInv, TypeOK, Counted, NotCreating
<1>4. ASSUME NEW c \in Callers, SyncReturns(c) PROVE TypeInv'
  <2>1. own' \in [Callers -> 0..count] /\ returned' \subseteq 1..count
    <3>1. own[c] \in 1..count
      BY <1>4 DEF SyncReturns, TypeInv, TypeOK, Counted
    <3>2. own' = [own EXCEPT ![c] = 0] /\ own \in [Callers -> 0..count] /\ 0 \in 0..count
      BY <1>4 DEF SyncReturns, TypeInv, TypeOK, None
    <3>3. own' \in [Callers -> 0..count]
      BY <3>2
    <3> QED BY <1>4, <3>1, <3>3 DEF SyncReturns, TypeInv, TypeOK
  <2>2. /\ pc' \in [Callers -> {"idle", "sync", "flush", "callback", "callbacks",
                              "stuck", "creating", "created", "subscribed", "closing"}]
        /\ \A d \in Callers : pc'[d] = "creating" <=> pc[d] = "creating"
    BY <1>4 DEF SyncReturns, Goes, TypeInv, TypeOK
  <2>3. TypeOK'
    BY <1>4, <2>1, <2>2 DEF SyncReturns, TypeInv, TypeOK
  <2>4. NotCreating' = NotCreating
    BY <2>2 DEF NotCreating
  <2>5. Counted'
    BY <1>4, <2>4 DEF SyncReturns, Goes, TypeInv, TypeOK, Counted, Running
  <2> QED BY <2>3, <2>5 DEF TypeInv
<1>5. ASSUME NEW c \in Callers, CallbackReturns(c) PROVE TypeInv'
  <2>1. /\ own' \in [Callers -> 0..count] /\ returned' \subseteq 1..count
        /\ settled' \subseteq 1..count
    <3>1. own[c] \in 1..count
      BY <1>5 DEF CallbackReturns, TypeInv, TypeOK, Counted
    <3>2. own' = [own EXCEPT ![c] = 0] /\ own \in [Callers -> 0..count] /\ 0 \in 0..count
      BY <1>5 DEF CallbackReturns, TypeInv, TypeOK, None
    <3>3. own' \in [Callers -> 0..count]
      BY <3>2
    <3> QED BY <1>5, <3>1, <3>3 DEF CallbackReturns, TypeInv, TypeOK
  <2>2. /\ pc' \in [Callers -> {"idle", "sync", "flush", "callback", "callbacks",
                              "stuck", "creating", "created", "subscribed", "closing"}]
        /\ \A d \in Callers : pc'[d] = "creating" <=> pc[d] = "creating"
    BY <1>5 DEF CallbackReturns, Goes, TypeInv, TypeOK
  <2>6. UNCHANGED <<config, producer, count, framed, consuming, strays, panicked, fails>>
    BY <1>5 DEF CallbackReturns
  <2>7. /\ answered' \subseteq Answers /\ connected' \in BOOLEAN /\ resolver' \in BOOLEAN
        /\ sync' \in BOOLEAN /\ raced' \in BOOLEAN /\ panicked' \in BOOLEAN
    BY <2>6 DEF TypeInv, TypeOK
  <2>3. TypeOK'
    BY <1>5, <2>1, <2>2, <2>6, <2>7 DEF CallbackReturns, TypeInv, TypeOK
  <2>4. NotCreating' = NotCreating
    BY <2>2 DEF NotCreating
  <2>5. Counted'
    BY <1>5, <2>4 DEF CallbackReturns, Goes, TypeInv, TypeOK, Counted, Running
  <2> QED BY <2>3, <2>5 DEF TypeInv
<1>6. ASSUME NEW c \in Callers, HeldCallbackReturns(c) PROVE TypeInv'
  <2>1. /\ taken[c] \in Seq(1..count) /\ taken[c] # <<>>
        /\ pc[c] = "callbacks"
    BY <1>6 DEF HeldCallbackReturns, TypeInv, TypeOK, Counted
  <2>2. /\ Head(taken[c]) \in 1..count /\ Tail(taken[c]) \in Seq(1..count)
        /\ Len(Tail(taken[c])) = Len(taken[c]) - 1 /\ Len(taken[c]) \in Nat
    BY <2>1, HeadTailProperties, LenProperties
  <2>3. IF Len(taken[c]) = 1 THEN Tail(taken[c]) = <<>> ELSE Tail(taken[c]) # <<>>
    <3>1. Tail(taken[c]) # <<>> => Len(Tail(taken[c])) \in Nat \ {0}
      BY <2>2, EmptySeq
    <3>2. Tail(taken[c]) = <<>> => Len(Tail(taken[c])) = 0
      BY EmptySeq
    <3> QED BY <2>2, <3>1, <3>2
  <2>4. /\ taken' \in [Callers -> Seq(1..count)] /\ settled' \subseteq 1..count
        /\ pc' \in [Callers -> {"idle", "sync", "flush", "callback", "callbacks",
                              "stuck", "creating", "created", "subscribed", "closing"}]
    BY <1>6, <2>2 DEF HeldCallbackReturns, Goes, TypeInv, TypeOK
  <2>5. \A d \in Callers : pc'[d] = "creating" <=> pc[d] = "creating"
    BY <1>6, <2>1 DEF HeldCallbackReturns, Goes, TypeInv, TypeOK
  <2>6. TypeOK'
    BY <1>6, <2>4 DEF HeldCallbackReturns, TypeInv, TypeOK
  <2>7. NotCreating' = NotCreating
    BY <2>5 DEF NotCreating
  <2>8. Counted'
    BY <1>6, <2>1, <2>3, <2>7 DEF HeldCallbackReturns, Goes, TypeInv, TypeOK, Counted, Running
  <2> QED BY <2>6, <2>8 DEF TypeInv
<1> QED BY <1>1, <1>2, <1>3, <1>4, <1>5, <1>6

\* Holding callbacks, and Flush.
LEMMA FlushType ==
    ASSUME TypeInv,
           \E c \in Callers : \/ CallbackPublishes(c) \/ HoldCallbacks(c) \/ FlushCallbacks(c)
                              \/ FlushMemory(c) \/ FlushBegins(c) \/ FlushEnds(c)
    PROVE  TypeInv'
<1> USE DEF config, producer, messages, client, memory, calls, consuming
<1>1. PICK c \in Callers : \/ CallbackPublishes(c) \/ HoldCallbacks(c) \/ FlushCallbacks(c)
                           \/ FlushMemory(c) \/ FlushBegins(c) \/ FlushEnds(c)
  OBVIOUS
<1>2. /\ pc' \in [Callers -> {"idle", "sync", "flush", "callback", "callbacks",
                              "stuck", "creating", "created", "subscribed", "closing"}]
      /\ \A d \in Callers : pc'[d] = "creating" <=> pc[d] = "creating"
  <2> DEFINE NextPlaces == {"idle", "flush", "callbacks", "stuck", "callback"}
  <2>1. pc \in [Callers -> {"idle", "sync", "flush", "callback", "callbacks",
                           "stuck", "creating", "created", "subscribed", "closing"}]
    BY DEF TypeInv, TypeOK
  <2>2. pc' = pc \/ (pc[c] # "creating" /\ \E p \in NextPlaces : pc' = [pc EXCEPT ![c] = p])
    <3>1. CASE CallbackPublishes(c)
      BY <3>1 DEF CallbackPublishes, Goes
    <3>2. CASE HoldCallbacks(c)
      BY <3>2 DEF HoldCallbacks, Goes, Idle
    <3>3. CASE FlushCallbacks(c)
      BY <3>3 DEF FlushCallbacks, Goes, Idle
    <3>4. CASE FlushMemory(c)
      BY <3>4 DEF FlushMemory, Goes, Idle
    <3>5. CASE FlushBegins(c) \/ FlushEnds(c)
      BY <3>5 DEF FlushBegins, FlushEnds, Goes, Idle
    <3> QED BY <1>1, <3>1, <3>2, <3>3, <3>4, <3>5
  <2>3. CASE pc' = pc
    BY <2>1, <2>3
  <2>4. ASSUME pc[c] # "creating", NEW p \in NextPlaces, pc' = [pc EXCEPT ![c] = p]
        PROVE  /\ pc' \in [Callers -> {"idle", "sync", "flush", "callback", "callbacks",
                                       "stuck", "creating", "created", "subscribed", "closing"}]
               /\ \A d \in Callers : pc'[d] = "creating" <=> pc[d] = "creating"
    BY <2>1, <2>4
  <2> QED BY <2>2, <2>3, <2>4
<1>3. hold' \in BOOLEAN
  BY <1>1 DEF CallbackPublishes, HoldCallbacks, FlushCallbacks, FlushMemory, FlushBegins,
              FlushEnds, TypeInv, TypeOK
<1>4. /\ due' \in [Callers -> SUBSET (1..count)] /\ flushed' \subseteq 1..count
      /\ taken' \in [Callers -> Seq(1..count)] /\ pending' \in Seq(1..count)
  <2>1. <<>> \in Seq(1..count)
    BY EmptySeq
  <2>2. CASE FlushCallbacks(c)
    BY <2>1, <2>2 DEF FlushCallbacks, TypeInv, TypeOK
  <2>3. CASE FlushMemory(c) \/ FlushBegins(c) \/ FlushEnds(c)
    BY <2>3 DEF FlushMemory, FlushBegins, FlushEnds, TypeInv, TypeOK
  <2>4. CASE CallbackPublishes(c) \/ HoldCallbacks(c)
    BY <2>4 DEF CallbackPublishes, HoldCallbacks, TypeInv, TypeOK
  <2> QED BY <1>1, <2>2, <2>3, <2>4
<1>5. UNCHANGED <<config, producer, messages, client, mutex, own, consuming, strays,
                  panicked, fails>>
  BY <1>1 DEF CallbackPublishes, HoldCallbacks, FlushCallbacks, FlushMemory, FlushBegins,
              FlushEnds
<1>6. TypeOK'
  <2>1. /\ resolver' \in BOOLEAN /\ sync' \in BOOLEAN /\ connected' \in BOOLEAN
        /\ raced' \in BOOLEAN /\ panicked' \in BOOLEAN
    BY <1>5 DEF TypeInv, TypeOK
  <2> QED BY <1>2, <1>3, <1>4, <1>5, <2>1 DEF TypeInv, TypeOK
<1>7. \A d \in Callers :
         /\ pc'[d] \in {"callback", "stuck", "sync"} => own'[d] # 0
         /\ pc'[d] = "callbacks" => taken'[d] # <<>>
         /\ pc'[d] \notin Running => taken'[d] = <<>>
  BY <1>1, <1>5 DEF CallbackPublishes, HoldCallbacks, FlushCallbacks, FlushMemory,
              FlushBegins, FlushEnds, Goes, Idle, TypeInv, TypeOK, Counted, Running
<1>8. NotCreating' = NotCreating
  BY <1>2 DEF NotCreating
<1>9. Counted'
  BY <1>5, <1>7, <1>8 DEF TypeInv, Counted
<1> QED BY <1>6, <1>9 DEF TypeInv

LEMMA CreatingFinite ==
    /\ IsFiniteSet(NotCreating) /\ Cardinality(NotCreating) \in Nat
    /\ Cardinality(Callers) \in Nat
    /\ Cardinality(NotCreating) <= Cardinality(Callers)
    /\ Cardinality(Consumers) = Cardinality(Callers) + MaxFails
<1>1. IsFiniteSet(Callers) /\ NotCreating \subseteq Callers
  BY CallersAssumption DEF CallersAssumption, NotCreating
<1>2. Cardinality(Callers) \in Nat
  BY <1>1, FS_CardinalityType
<1>3. IsFiniteSet(NotCreating) /\ Cardinality(NotCreating) <= Cardinality(Callers)
  BY <1>1, FS_Subset
<1>4. Cardinality(NotCreating) \in Nat
  BY <1>3, FS_CardinalityType
<1>5. Cardinality(Callers) + MaxFails \in Nat
  BY <1>2
<1>6. PICK n \in Nat : n = Cardinality(Callers) + MaxFails
  BY <1>5
<1>7. Cardinality(1..n) = n
  BY <1>6, FS_Interval
<1> QED BY <1>2, <1>3, <1>4, <1>6, <1>7 DEF Consumers

\* Subscribe, Close and Ping.
LEMMA ConsumerType ==
    ASSUME TypeInv,
           \E c \in Callers : \/ Subscribe(c) \/ NewConsumer(c) \/ NewConsumerFails(c)
                              \/ Start(c) \/ SubscribeEnds(c) \/ CloseConsumer(c)
                              \/ CloseProducer(c) \/ NilDereference(c)
    PROVE  TypeInv'
<1> USE DEF config, producer, messages, client, memory, calls, consuming
<1>1. PICK c \in Callers : \/ Subscribe(c) \/ NewConsumer(c) \/ NewConsumerFails(c)
                           \/ Start(c) \/ SubscribeEnds(c) \/ CloseConsumer(c)
                           \/ CloseProducer(c) \/ NilDereference(c)
  OBVIOUS
<1>2. /\ pc' \in [Callers -> {"idle", "sync", "flush", "callback", "callbacks",
                              "stuck", "creating", "created", "subscribed", "closing"}]
      /\ \A d \in Callers : /\ pc'[d] \in {"callback", "stuck", "sync", "callbacks"} <=>
                                 pc[d] \in {"callback", "stuck", "sync", "callbacks"}
                            /\ pc'[d] = "callbacks" <=> pc[d] = "callbacks"
                            /\ pc'[d] \in Running <=> pc[d] \in Running
  <2> USE DEF Goes, Idle, TypeInv, TypeOK, Running
  <2>1. CASE Subscribe(c) \/ CloseConsumer(c) \/ CloseProducer(c)
    BY <2>1 DEF Subscribe, CloseConsumer, CloseProducer
  <2>2. CASE NewConsumer(c) \/ NewConsumerFails(c) \/ SubscribeEnds(c)
    BY <2>2 DEF NewConsumer, NewConsumerFails, SubscribeEnds
  <2>3. CASE Start(c)
    BY <2>3 DEF Start
  <2>4. CASE NilDereference(c)
    BY <2>4 DEF NilDereference
  <2> QED BY <1>1, <2>1, <2>2, <2>3, <2>4
<1>3. raced' \in BOOLEAN /\ panicked' \in BOOLEAN /\ connected' \in BOOLEAN
  <2> USE DEF TypeInv, TypeOK, Busy
  <2>1. CASE Subscribe(c) \/ CloseConsumer(c)
    BY <2>1 DEF Subscribe, CloseConsumer
  <2>2. CASE NewConsumer(c) \/ NewConsumerFails(c) \/ Start(c)
    BY <2>2 DEF NewConsumer, NewConsumerFails, Start
  <2>3. CASE SubscribeEnds(c) \/ CloseProducer(c) \/ NilDereference(c)
    BY <2>3 DEF SubscribeEnds, CloseProducer, NilDereference
  <2> QED BY <1>1, <2>1, <2>2, <2>3
<1>4. finishing' \in Seq(1..count) /\ buffer' \subseteq 1..count
  <2>1. CASE CloseProducer(c)
    <3>1. PICK order \in SetToSeqs(buffer) : finishing' = finishing \o order
      BY <2>1 DEF CloseProducer
    <3>2. IsFiniteSet(buffer)
      <4>1. IsFiniteSet(1..count) /\ buffer \subseteq 1..count
        BY FS_Interval DEF TypeInv, TypeOK
      <4> QED BY <4>1, FS_Subset
    <3>3. Cardinality(buffer) \in Nat
      BY <3>2, FS_CardinalityType
    <3>4. order \in [1..Cardinality(buffer) -> 1..count]
      BY DEF SetToSeqs, TypeInv, TypeOK
    <3>5. order \in Seq(1..count)
      BY <3>3, <3>4, SeqDef
    <3>6. finishing' \in Seq(1..count)
      BY <3>1, <3>5, ConcatProperties DEF TypeInv, TypeOK
    <3> QED BY <2>1, <3>6 DEF CloseProducer
  <2>2. CASE UNCHANGED <<buffer, finishing>>
    BY <2>2 DEF TypeInv, TypeOK
  <2> QED BY <1>1, <2>1, <2>2 DEF Subscribe, NewConsumer, NewConsumerFails, Start,
             SubscribeEnds, CloseConsumer, NilDereference
<1>5. /\ UNCHANGED <<config, made, attempt, schemaID, answered, messages, running,
                     memory, own, taken, due, flushed>>
      /\ strays' \in 0..MaxFails /\ fails' \in 0..MaxFails /\ strays' <= fails'
  <2> USE DEF TypeInv, TypeOK, Counted, Fail
  <2>1. CASE Subscribe(c) \/ CloseConsumer(c)
    BY <2>1 DEF Subscribe, CloseConsumer
  <2>2. CASE NewConsumer(c) \/ Start(c) \/ CloseProducer(c) \/ NilDereference(c)
    BY <2>2 DEF NewConsumer, Start, CloseProducer, NilDereference
  <2>3. CASE NewConsumerFails(c)
    BY <2>3 DEF NewConsumerFails
  <2>4. CASE SubscribeEnds(c)
    BY <2>4 DEF SubscribeEnds
  <2> QED BY <1>1, <2>1, <2>2, <2>3, <2>4
<1>6. /\ created' <= Cardinality(NotCreating)' /\ created' \in Nat
      /\ consumer' = None => created' = 0
  <2>0. created \in Nat /\ created <= Cardinality(NotCreating)
        /\ (consumer = None => created = 0)
    BY DEF TypeInv, TypeOK, Counted
  <2>1. CASE Subscribe(c)
    <3>1. UNCHANGED <<consumer, created>> /\ created = 0
      BY <2>0, <2>1 DEF Subscribe
    <3>2. Cardinality(NotCreating)' \in Nat
      <4>1. IsFiniteSet(NotCreating')
        BY CallersAssumption, FS_Subset DEF CallersAssumption, NotCreating
      <4> QED BY <4>1, FS_CardinalityType
    <3> QED BY <3>1, <3>2
  <2>2. CASE NewConsumer(c) \/ NewConsumerFails(c)
    <3>1. NotCreating' = NotCreating \union {c} /\ c \notin NotCreating
      BY <2>2 DEF NewConsumer, NewConsumerFails, Goes, NotCreating, TypeInv, TypeOK
    <3>2. Cardinality(NotCreating)' = Cardinality(NotCreating) + 1
      BY <3>1, CreatingFinite, FS_AddElement
    <3>3. created' \in {created, created + 1} /\ consumer' # None
      BY <2>0, <2>2 DEF NewConsumer, NewConsumerFails, None, TypedNil
    <3> QED BY <2>0, <3>2, <3>3, CreatingFinite
  <2>3. CASE \/ Start(c) \/ SubscribeEnds(c) \/ CloseConsumer(c) \/ CloseProducer(c)
             \/ NilDereference(c)
    <3>1. UNCHANGED <<consumer, created>>
      BY <2>3 DEF Start, SubscribeEnds, CloseConsumer, CloseProducer, NilDereference
    <3>2. \A d \in Callers : pc'[d] = "creating" <=> pc[d] = "creating"
      BY <2>3 DEF Start, SubscribeEnds, CloseConsumer, CloseProducer, NilDereference,
                  Goes, Idle, TypeInv, TypeOK
    <3>3. NotCreating' = NotCreating
      BY <3>2 DEF NotCreating
    <3> QED BY <2>0, <3>1, <3>3
  <2> QED BY <1>1, <2>1, <2>2, <2>3
<1>7. created' \in 0..Cardinality(Consumers)
  <2>1. Cardinality(NotCreating)' <= Cardinality(Callers)
        /\ Cardinality(NotCreating)' \in Nat
    <3>1. IsFiniteSet(NotCreating') /\ Cardinality(NotCreating') <= Cardinality(Callers)
      BY CallersAssumption, FS_Subset DEF CallersAssumption, NotCreating
    <3> QED BY <3>1, FS_CardinalityType
  <2> QED BY <1>6, <2>1, CreatingFinite
<1>8. opened' \subseteq 1..created' /\ consumer' \in {None, TypedNil} \union Consumers
  <2>1. CASE NewConsumer(c)
    <3>1. /\ created' = created + 1 /\ consumer' = created' /\ opened' = opened \union {created'}
          /\ created \in Nat /\ opened \subseteq 1..created
      BY <2>1 DEF NewConsumer, TypeInv, TypeOK
    <3>2. created' \in Consumers
      BY <1>7, <3>1, CreatingFinite DEF Consumers
    <3> QED BY <3>1, <3>2
  <2>2. CASE /\ created' = created /\ opened' \subseteq opened
             /\ consumer' \in {consumer, TypedNil}
    BY <2>2 DEF TypeInv, TypeOK
  <2> QED BY <1>1, <2>1, <2>2 DEF Subscribe, NewConsumerFails, Start, SubscribeEnds,
             CloseConsumer, CloseProducer, NilDereference
<1>9. TypeOK'
  <2>1. resolver' \in BOOLEAN /\ sync' \in BOOLEAN /\ hold' \in BOOLEAN
    BY <1>5 DEF TypeInv, TypeOK
  <2> QED BY <1>2, <1>3, <1>4, <1>5, <1>7, <1>8, <2>1 DEF TypeInv, TypeOK
<1>10. Counted'
  BY <1>2, <1>5, <1>6 DEF TypeInv, Counted
<1> QED BY <1>9, <1>10 DEF TypeInv

LEMMA NextType == TypeInv /\ [Next]_vars => TypeInv'
<1> SUFFICES ASSUME TypeInv, [Next]_vars PROVE TypeInv'
  OBVIOUS
<1>1. CASE UNCHANGED vars
  <2>1. TypeOK'
    BY <1>1 DEF vars, config, producer, messages, client, memory, calls, consuming,
                TypeInv, TypeOK
  <2>2. Counted'
    BY <1>1 DEF vars, config, producer, messages, client, memory, calls, consuming,
                TypeInv, Counted, NotCreating
  <2> QED BY <2>1, <2>2 DEF TypeInv
<1>2. CASE Next
  BY <1>2, ProducerType, PublishesType, SettleType, FlushType, ConsumerType DEF Next
<1> QED BY <1>1, <1>2

\* Every variable stays within its range: messages are counted before they are
\* anywhere, and there are no more consumers and stray clients than calls made and
\* failed.
THEOREM TypeCorrect == Spec => []TypeOK
<1>1. TypeInv => TypeOK
  BY DEF TypeInv
<1> QED BY <1>1, InitType, NextType, PTL DEF Spec

-----------------------------------------------------------------------------
(* Every record has its header *)

\* With a resolver there is the registry's answer before there is a client, without
\* one there is none; there is a client before there is a message, and only a
\* BasicProducer has a resolver.
Framing ==
    /\ kind # "basic" => ~resolver
    /\ ~resolver => schemaID = 0
    /\ resolver /\ made \in {"dialing", "pinging", "ready"} =>
          \E a \in answered : schemaID = a % IDModulus
    /\ made = "resolving" => resolver
    /\ count > 0 => made = "ready"
    /\ framed = IF schemaID = 0 THEN {} ELSE 1..count

LEMMA FramingStep == TypeInv /\ Framing /\ [Next]_vars => Framing'
<1> SUFFICES ASSUME TypeInv, Framing, [Next]_vars PROVE Framing'
  OBVIOUS
<1> USE DEF config, producer, messages, client, memory, calls, consuming, Framing
<1>t. count \in Nat /\ running \in 0..count
  BY DEF TypeInv, TypeOK
<1>1. CASE UNCHANGED <<kind, resolver, made, schemaID, answered, count, framed>>
  BY <1>1
<1>f. made # "ready" => count = 0 /\ framed = {} /\ 1..count = {}
  BY <1>t
<1>2. CASE Refused \/ ResolveFails \/ Dial \/ PingReturns \/ Retry
  <2>1. CASE Refused
    BY <1>f, <2>1 DEF Refused
  <2>2. CASE ResolveFails
    BY <1>f, <2>2 DEF ResolveFails
  <2>3. CASE Dial
    BY <1>f, <2>3 DEF Dial
  <2>4. CASE PingReturns
    BY <1>f, <2>4 DEF PingReturns
  <2>5. CASE Retry
    BY <1>f, <2>5 DEF Retry
  <2> QED BY <1>2, <2>1, <2>2, <2>3, <2>4, <2>5
<1>3. ASSUME NEW a \in Answers, Resolved(a) PROVE Framing'
  BY <1>3, <1>f DEF Resolved
<1>4. CASE /\ made = "ready" /\ New /\ Frame(count')
           /\ UNCHANGED <<kind, resolver, made, schemaID, answered>>
  <2>1. count' = count + 1 /\ 1..count' = (1..count) \union {count'}
    BY <1>4, <1>t DEF New
  <2> QED BY <1>4, <2>1 DEF Frame
<1>5. CASE /\ ~resolver /\ made = "ready"
           /\ UNCHANGED <<kind, resolver, made, schemaID, answered, framed>>
  BY <1>5
<1>6. CASE PromisePublishes
  <2>1. made = "ready"
    BY <1>6, <1>t DEF PromisePublishes, None
  <2> QED BY <1>4, <1>6, <2>1 DEF PromisePublishes
<1>7. ASSUME NEW c \in Callers, BasicPublishAsync(c) \/ BasicPublish(c) PROVE Framing'
  BY <1>4, <1>7 DEF BasicPublishAsync, BasicPublish, Idle
<1>8. ASSUME NEW c \in Callers, MemoryPublish(c) \/ MemoryPublishAsync(c) PROVE Framing'
  <2>1. ~resolver /\ UNCHANGED <<kind, resolver, made, schemaID, answered, framed>>
    BY <1>8 DEF MemoryPublish, MemoryPublishAsync, InMemory
  <2>2. made = "ready"
    <3>1. CASE Idle(c)
      BY <3>1 DEF Idle
    <3>2. CASE pc[c] = "callbacks"
      <4>1. taken[c] \in Seq(1..count) /\ taken[c] # <<>>
        BY <3>2 DEF TypeInv, TypeOK, Counted
      <4>2. Head(taken[c]) \in 1..count
        BY <4>1, HeadTailProperties
      <4> QED BY <1>t, <4>2
    <3> QED BY <1>8, <3>1, <3>2 DEF MemoryPublish, MemoryPublishAsync
  <2> QED BY <1>5, <2>1, <2>2
<1>9. CASE (\E m \in Msgs : RecordDone(m)) \/ PromiseRuns \/ PromiseReturns
  BY <1>1, <1>9 DEF RecordDone, PromiseRuns, PromiseReturns
<1>10. ASSUME NEW c \in Callers,
              \/ SyncReturns(c) \/ CallbackReturns(c) \/ CallbackPublishes(c)
              \/ HoldCallbacks(c) \/ FlushCallbacks(c) \/ HeldCallbackReturns(c)
              \/ FlushMemory(c) \/ FlushBegins(c) \/ FlushEnds(c)
       PROVE  Framing'
  BY <1>1, <1>10 DEF SyncReturns, CallbackReturns, CallbackPublishes, HoldCallbacks,
     FlushCallbacks, HeldCallbackReturns, FlushMemory, FlushBegins, FlushEnds
<1>11. ASSUME NEW c \in Callers,
              \/ Subscribe(c) \/ NewConsumer(c) \/ NewConsumerFails(c) \/ Start(c)
              \/ SubscribeEnds(c) \/ CloseConsumer(c) \/ CloseProducer(c)
              \/ NilDereference(c)
       PROVE  Framing'
  BY <1>1, <1>11 DEF Subscribe, NewConsumer, NewConsumerFails, Start, SubscribeEnds,
     CloseConsumer, CloseProducer, NilDereference
<1>12. CASE UNCHANGED vars
  BY <1>1, <1>12 DEF vars
<1> QED BY <1>2, <1>3, <1>6, <1>7, <1>8, <1>9, <1>10, <1>11, <1>12 DEF Next

LEMMA FramingHolds == Spec => []Framing
<1>1. Init => Framing
  <2> SUFFICES ASSUME Init PROVE Framing
    OBVIOUS
  <2>1. kind # "basic" => ~resolver
    BY DEF Init
  <2>2. /\ resolver => made = "resolving"
        /\ made = "resolving" => resolver
    BY <2>1 DEF Init
  <2>3. schemaID = 0 /\ count = 0 /\ framed = {}
    BY DEF Init
  <2> QED BY <2>1, <2>2, <2>3 DEF Framing
<1> QED BY <1>1, FramingStep, InitType, NextType, PTL DEF Spec

\* With a resolver every record is sent under the registry's answer, however often
\* NewProducer failed before and from callbacks too, and all or none have a header.
THEOREM HeadersAsAnswered == Spec => []FramedAsAnswered
<1>1. Framing => FramedAsAnswered
  BY DEF Framing, FramedAsAnswered
<1> QED BY <1>1, FramingHolds, PTL

\* "prepends the 6-byte header ... to every published message value" instead of
\* "silently publishing without wire-format headers" (producer.go:50-53).
AlwaysFramed == resolver => framed = 1..count

\* What producer.go:50-53 promises holds with a registry none of whose answers comes
\* to zero in four bytes.
THEOREM HeadersUnlessZero ==
    Spec => []((\A a \in Answers : a % IDModulus # 0) => AlwaysFramed)
<1>1. TypeInv /\ Framing => ((\A a \in Answers : a % IDModulus # 0) => AlwaysFramed)
  <2> SUFFICES ASSUME TypeInv, Framing, \A a \in Answers : a % IDModulus # 0, resolver
               PROVE  framed = 1..count
    BY DEF AlwaysFramed
  <2>1. CASE count > 0
    BY <2>1 DEF Framing, TypeInv, TypeOK
  <2>2. CASE ~(count > 0)
    <3>1. count = 0 /\ 1..count = {}
      BY <2>2 DEF TypeInv, TypeOK
    <3> QED BY <3>1 DEF Framing
  <2> QED BY <2>1, <2>2
<1> QED BY <1>1, FramingHolds, InitType, NextType, PTL DEF Spec

-----------------------------------------------------------------------------
(* One consumer, and Close *)

\* As long as no calls have overlapped the only open consumer is the one the
\* transport knows, only one goroutine is creating it, and nobody is between the
\* two halves of Close while there is one or one is being made.
Shut ==
    ~raced =>
        /\ opened \subseteq {consumer}
        /\ \A c, d \in Callers :
             /\ pc[c] = "creating" => consumer = None /\ (pc[d] = "creating" => c = d)
             /\ pc[c] = "closing" => opened = {} /\ pc[d] \notin {"creating", "created"}

Consuming == {"creating", "created", "closing"}

\* Only these steps are about the consumer.
LEMMA ConsumerCases ==
    ASSUME TypeInv, [Next]_vars
    PROVE  \/ /\ UNCHANGED consuming
              /\ \A c \in Callers :
                    (pc[c] \in Consuming \/ pc'[c] \in Consuming) => pc'[c] = pc[c]
           \/ \E c \in Callers : \/ Subscribe(c) \/ NewConsumer(c) \/ NewConsumerFails(c)
                                 \/ Start(c) \/ CloseConsumer(c) \/ CloseProducer(c)
<1> USE DEF config, producer, messages, client, memory, calls, consuming, Goes, Consuming
<1>t. pc \in [Callers -> {"idle", "sync", "flush", "callback", "callbacks",
                          "stuck", "creating", "created", "subscribed", "closing"}]
  BY DEF TypeInv, TypeOK
<1>1. CASE \/ Refused \/ (\E a \in Answers : Resolved(a)) \/ ResolveFails \/ Dial
           \/ PingReturns \/ Retry
  BY <1>1 DEF Refused, Resolved, ResolveFails, Dial, PingReturns, Retry
<1>2. CASE (\E m \in Msgs : RecordDone(m)) \/ PromiseRuns \/ PromisePublishes \/ PromiseReturns
  BY <1>2 DEF RecordDone, PromiseRuns, PromisePublishes, PromiseReturns
<1>3. ASSUME NEW c \in Callers,
             \/ BasicPublishAsync(c) \/ BasicPublish(c) \/ SyncReturns(c)
             \/ MemoryPublish(c) \/ MemoryPublishAsync(c) \/ CallbackReturns(c)
      PROVE  /\ UNCHANGED consuming
             /\ \A d \in Callers :
                   (pc[d] \in Consuming \/ pc'[d] \in Consuming) => pc'[d] = pc[d]
  BY <1>t, <1>3 DEF BasicPublishAsync, BasicPublish, SyncReturns, MemoryPublish,
     MemoryPublishAsync, CallbackReturns, Idle
<1>4. ASSUME NEW c \in Callers,
             \/ CallbackPublishes(c) \/ HoldCallbacks(c) \/ FlushCallbacks(c)
             \/ HeldCallbackReturns(c) \/ FlushMemory(c) \/ FlushBegins(c) \/ FlushEnds(c)
      PROVE  /\ UNCHANGED consuming
             /\ \A d \in Callers :
                   (pc[d] \in Consuming \/ pc'[d] \in Consuming) => pc'[d] = pc[d]
  BY <1>t, <1>4 DEF CallbackPublishes, HoldCallbacks, FlushCallbacks,
     HeldCallbackReturns, FlushMemory, FlushBegins, FlushEnds, Idle
<1>5. ASSUME NEW c \in Callers, SubscribeEnds(c) \/ NilDereference(c)
      PROVE  /\ UNCHANGED consuming
             /\ \A d \in Callers :
                   (pc[d] \in Consuming \/ pc'[d] \in Consuming) => pc'[d] = pc[d]
  BY <1>t, <1>5 DEF SubscribeEnds, NilDereference
<1>6. CASE UNCHANGED vars
  BY <1>6 DEF vars
<1> QED BY <1>1, <1>2, <1>3, <1>4, <1>5, <1>6 DEF Next

LEMMA ShutStep == TypeInv /\ Shut /\ [Next]_vars => Shut'
<1> SUFFICES ASSUME TypeInv, Shut, [Next]_vars, ~raced' PROVE Shut'
  BY DEF Shut
<1> USE DEF Shut, consuming, calls, Goes
<1>t. /\ opened \subseteq 1..created /\ created \in Nat /\ None = 0
      /\ pc \in [Callers -> {"idle", "sync", "flush", "callback", "callbacks",
                          "stuck", "creating", "created", "subscribed", "closing"}]
  BY DEF TypeInv, TypeOK, None
<1>1. CASE /\ UNCHANGED consuming
           /\ \A c \in Callers :
                 (pc[c] \in Consuming \/ pc'[c] \in Consuming) => pc'[c] = pc[c]
  BY <1>1 DEF Consuming
<1>2. ASSUME NEW c \in Callers, Subscribe(c) PROVE Shut'
  <2>1. /\ ~raced /\ \A d \in Callers : pc[d] \notin {"creating", "closing"}
        /\ consumer = None /\ UNCHANGED <<consumer, opened>>
        /\ pc' = [pc EXCEPT ![c] = "creating"]
    BY <1>2 DEF Subscribe, Busy
  <2> QED BY <1>t, <2>1
<1>3. ASSUME NEW c \in Callers, NewConsumer(c) PROVE Shut'
  <2>1. /\ ~raced /\ pc[c] = "creating" /\ consumer' = created'
        /\ opened' = opened \union {created'} /\ pc' = [pc EXCEPT ![c] = "created"]
    BY <1>3 DEF NewConsumer
  <2>2. opened = {} /\ \A d \in Callers : d # c => pc[d] # "creating"
    BY <1>t, <2>1
  <2>3. \A d \in Callers : pc[d] # "closing"
    BY <2>1
  <2> QED BY <1>t, <2>1, <2>2, <2>3
<1>4. ASSUME NEW c \in Callers, NewConsumerFails(c) PROVE Shut'
  <2>1. /\ ~raced /\ pc[c] = "creating" /\ opened' = opened
        /\ pc' = [pc EXCEPT ![c] = "idle"]
    BY <1>4 DEF NewConsumerFails
  <2>2. opened = {} /\ \A d \in Callers : d # c => pc[d] # "creating"
    BY <1>t, <2>1
  <2> QED BY <1>t, <2>1, <2>2
<1>5. ASSUME NEW c \in Callers, Start(c) PROVE Shut'
  <2>1. /\ ~raced /\ UNCHANGED <<consumer, opened>>
        /\ \A d \in Callers : pc'[d] \in {pc[d], "subscribed", "idle"}
    BY <1>5, <1>t DEF Start
  <2> QED BY <2>1
<1>6. ASSUME NEW c \in Callers, CloseConsumer(c) PROVE Shut'
  <2>1. /\ ~raced /\ \A d \in Callers : pc[d] \notin {"creating", "created"}
        /\ UNCHANGED consumer /\ opened' = opened \ {consumer}
        /\ pc' = [pc EXCEPT ![c] = "closing"]
    BY <1>6 DEF CloseConsumer, Busy
  <2>2. opened' = {}
    BY <2>1
  <2> QED BY <1>t, <2>1, <2>2
<1>7. ASSUME NEW c \in Callers, CloseProducer(c) PROVE Shut'
  <2>1. /\ ~raced /\ UNCHANGED <<consumer, opened>>
        /\ \A d \in Callers : pc'[d] \in {pc[d], "idle"}
    BY <1>7, <1>t DEF CloseProducer
  <2> QED BY <2>1
<1> QED BY <1>1, <1>2, <1>3, <1>4, <1>5, <1>6, <1>7, ConsumerCases

\* Unless calls overlapped a transport never has two consumers.
THEOREM AtMostOneConsumer == Spec => []OneConsumer
<1>1. Init => Shut
  BY DEF Init, Shut
<1>2. Shut => OneConsumer
  <2> SUFFICES ASSUME Shut, ~raced PROVE Cardinality(opened) <= 1
    BY DEF OneConsumer
  <2>1. opened = {} \/ opened = {consumer}
    BY DEF Shut
  <2>2. Cardinality({}) = 0 /\ Cardinality({consumer}) = 1
    BY FS_EmptySet, FS_Singleton
  <2> QED BY <2>1, <2>2
<1> QED BY <1>1, <1>2, ShutStep, InitType, NextType, PTL DEF Spec

\* ... and when Close has returned neither its consumer nor its producer is open.
THEOREM ClosedIsClosed == Spec => CloseStops
<1>1. ASSUME TypeInv, Shut, [Next]_vars, NEW c \in Callers,
             pc[c] = "closing", pc'[c] = "idle", ~raced'
      PROVE  opened' = {} /\ ~connected'
  <2>t. pc \in [Callers -> {"idle", "sync", "flush", "callback", "callbacks",
                          "stuck", "creating", "created", "subscribed", "closing"}]
    BY <1>1 DEF TypeInv, TypeOK
  <2>1. PICK d \in Callers : \/ Subscribe(d) \/ NewConsumer(d) \/ NewConsumerFails(d)
                             \/ Start(d) \/ CloseConsumer(d) \/ CloseProducer(d)
    BY <1>1, ConsumerCases DEF Consuming
  <2>2. CloseProducer(d)
    BY <1>1, <2>1, <2>t DEF Subscribe, NewConsumer, NewConsumerFails, Start, CloseConsumer,
       Idle, Goes
  <2>3. ~connected' /\ UNCHANGED consuming
    BY <2>2 DEF CloseProducer
  <2> QED BY <1>1, <2>3 DEF Shut, consuming
<1>2. TypeInv /\ Shut /\ [Next]_vars =>
        [\A c \in Callers : pc[c] = "closing" /\ pc'[c] = "idle" /\ ~raced' =>
            opened' = {} /\ ~connected']_vars
  BY <1>1
<1>3. Init => Shut
  BY DEF Init, Shut
<1> QED BY <1>2, <1>3, ShutStep, InitType, NextType, PTL DEF Spec, CloseStops

-----------------------------------------------------------------------------
(* Every message is in one place *)

\* A goroutine has m: its callback is running under the mutex, or is one of those
\* it has taken from the list.
Has(c, m) == \/ pc[c] \in {"callback", "stuck"} /\ own[c] = m
             \/ m \in ToSet(taken[c])

Nobody(m) == \A c \in Callers : ~Has(c, m)

InOnePlace(m) ==
    IF m \in settled
    THEN m \notin buffer /\ m \notin ToSet(finishing) /\ m # running
            /\ m \notin ToSet(pending) /\ Nobody(m)
    ELSE \/ m \in buffer /\ m \notin ToSet(finishing) /\ m # running
               /\ m \notin ToSet(pending) /\ Nobody(m)
         \/ m \notin buffer /\ m \in ToSet(finishing) /\ m # running
               /\ m \notin ToSet(pending) /\ Nobody(m)
         \/ m \notin buffer /\ m \notin ToSet(finishing) /\ m = running
               /\ m \notin ToSet(pending) /\ Nobody(m)
         \/ m \notin buffer /\ m \notin ToSet(finishing) /\ m # running
               /\ m \in ToSet(pending) /\ Nobody(m)
         \/ m \notin buffer /\ m \notin ToSet(finishing) /\ m # running
               /\ m \notin ToSet(pending)
               /\ \E c \in Callers : Has(c, m) /\ \A d \in Callers : Has(d, m) => d = c

\* No queue has a message twice, and the callback that a goroutine runs under the
\* mutex is not one of those it has taken.
Distinct ==
    /\ IsInjective(finishing) /\ IsInjective(pending)
    /\ \A c \in Callers :
         /\ IsInjective(taken[c])
         /\ pc[c] \in {"callback", "stuck"} => own[c] \notin ToSet(taken[c])

Placed == Distinct /\ \A m \in 1..count : InOnePlace(m)

LEMMA ToSetWithin == ASSUME NEW S, NEW s \in Seq(S) PROVE ToSet(s) \subseteq S
BY LenProperties DEF ToSet

\* A message that is not published yet is nowhere.
LEMMA NotYet ==
    ASSUME TypeInv
    PROVE  LET m == count + 1
           IN  /\ m \notin buffer /\ m \notin ToSet(finishing) /\ m # running
               /\ m \notin ToSet(pending) /\ m \notin settled /\ Nobody(m)
<1>1. /\ count \in Nat /\ buffer \subseteq 1..count /\ settled \subseteq 1..count
      /\ running \in 0..count
      /\ finishing \in Seq(1..count) /\ pending \in Seq(1..count)
      /\ taken \in [Callers -> Seq(1..count)] /\ own \in [Callers -> 0..count]
  BY DEF TypeInv, TypeOK
<1>2. count + 1 \notin 1..count /\ count + 1 \notin 0..count
  BY <1>1
<1>3. ToSet(finishing) \subseteq 1..count /\ ToSet(pending) \subseteq 1..count
  BY <1>1, ToSetWithin
<1>4. \A c \in Callers : ToSet(taken[c]) \subseteq 1..count /\ own[c] # count + 1
  BY <1>1, <1>2, ToSetWithin
<1> QED BY <1>1, <1>2, <1>3, <1>4 DEF Nobody, Has

\* Nothing that is about a message happens.
LEMMA PlacedFrame ==
    ASSUME Placed, UNCHANGED <<count, settled, buffer, finishing, running, pending>>,
           \A c \in Callers :
              /\ taken'[c] = taken[c]
              /\ pc'[c] \in {"callback", "stuck"} <=> pc[c] \in {"callback", "stuck"}
              /\ pc[c] \in {"callback", "stuck"} => own'[c] = own[c]
    PROVE  Placed'
<1>1. \A c \in Callers, m \in 1..count : Has(c, m)' <=> Has(c, m)
  BY DEF Has
<1>2. \A m \in 1..count : InOnePlace(m)'
  BY <1>1 DEF Placed, InOnePlace, Nobody
<1>3. Distinct'
  BY DEF Placed, Distinct
<1> QED BY <1>2, <1>3 DEF Placed

\* A new message is put in one place, or settled at once.
LEMMA PlacedNew ==
    ASSUME TypeInv, Placed, New, UNCHANGED <<running, taken>>,
           \A c \in Callers :
              /\ pc[c] \in {"callback", "stuck"} =>
                    pc'[c] \in {"callback", "stuck"} /\ own'[c] = own[c]
              /\ pc'[c] \in {"callback", "stuck"} =>
                    pc[c] \in {"callback", "stuck"} \/ own'[c] = count',
           \/ /\ UNCHANGED settled
              /\ \/ buffer' = buffer \union {count'} /\ UNCHANGED <<finishing, pending>>
                 \/ finishing' = Append(finishing, count') /\ UNCHANGED <<buffer, pending>>
                 \/ pending' = Append(pending, count') /\ UNCHANGED <<buffer, finishing>>
              /\ \A c \in Callers :
                   pc'[c] \in {"callback", "stuck"} => pc[c] \in {"callback", "stuck"}
           \/ /\ UNCHANGED <<settled, buffer, finishing, pending>>
              /\ \E c \in Callers :
                   /\ pc'[c] = "callback" /\ pc[c] \notin {"callback", "stuck"}
                   /\ \A d \in Callers : d # c =>
                        (pc'[d] \in {"callback", "stuck"} => pc[d] \in {"callback", "stuck"})
           \/ /\ UNCHANGED <<buffer, finishing, pending>>
              /\ settled' = settled \union {count'}
              /\ \A c \in Callers :
                   pc'[c] \in {"callback", "stuck"} => pc[c] \in {"callback", "stuck"}
    PROVE  Placed'
<1>t. /\ count \in Nat /\ count' = count + 1 /\ count' \notin 1..count
      /\ 1..count' = (1..count) \union {count'}
      /\ finishing \in Seq(1..count') /\ pending \in Seq(1..count')
      /\ count' \in 1..count'
      /\ own \in [Callers -> 0..count] /\ taken \in [Callers -> Seq(1..count)]
  BY NewType DEF TypeInv, TypeOK
<1>n. /\ count' \notin buffer /\ count' \notin ToSet(finishing) /\ count' # running
      /\ count' \notin ToSet(pending) /\ count' \notin settled
      /\ \A c \in Callers : ~Has(c, count')
  BY NotYet, <1>t DEF Nobody
<1>1. /\ ToSet(Append(finishing, count')) = ToSet(finishing) \union {count'}
      /\ ToSet(Append(pending, count')) = ToSet(pending) \union {count'}
      /\ IsInjective(Append(finishing, count')) /\ IsInjective(Append(pending, count'))
  BY <1>t, <1>n, AppendToSet, AppendInjectiveSeq DEF Placed, Distinct
<1>2. Distinct'
  <2>1. \A c \in Callers : count' \notin ToSet(taken[c])
    BY <1>n DEF Has
  <2> QED BY <1>1, <2>1 DEF Placed, Distinct
<1>3. \A m \in 1..count, c \in Callers : Has(c, m)' <=> Has(c, m)
  BY <1>t DEF Has
<1>4. ASSUME NEW m \in 1..count PROVE InOnePlace(m)'
  <2>1. /\ m # count' /\ InOnePlace(m)
        /\ \A c \in Callers : Has(c, m)' <=> Has(c, m)
    BY <1>t, <1>3 DEF Placed
  <2>2. (m \in settled' <=> m \in settled) /\ (m \in buffer' <=> m \in buffer)
    BY <2>1
  <2>3. m \in ToSet(finishing') <=> m \in ToSet(finishing)
    <3>1. ToSet(finishing') \in {ToSet(finishing), ToSet(finishing) \union {count'}}
      BY <1>1
    <3> QED BY <2>1, <3>1
  <2>4. m \in ToSet(pending') <=> m \in ToSet(pending)
    <3>1. ToSet(pending') \in {ToSet(pending), ToSet(pending) \union {count'}}
      BY <1>1
    <3> QED BY <2>1, <3>1
  <2> QED BY <2>1, <2>2, <2>3, <2>4 DEF InOnePlace, Nobody
<1>5. ASSUME NEW m, m = count' PROVE InOnePlace(m)'
  <2>1. \A c \in Callers : Has(c, m)' <=>
          (pc'[c] \in {"callback", "stuck"} /\ pc[c] \notin {"callback", "stuck"})
    BY <1>n, <1>5 DEF Has
  <2>2. m \notin buffer /\ m \notin ToSet(finishing) /\ m # running'
        /\ m \notin ToSet(pending) /\ m \notin settled
    BY <1>n, <1>5
  <2>3. /\ ToSet(Append(finishing, m)) = ToSet(finishing) \union {m}
        /\ ToSet(Append(pending, m)) = ToSet(pending) \union {m}
    BY <1>1, <1>5
  <2>4. ASSUME UNCHANGED settled,
               \/ buffer' = buffer \union {m} /\ UNCHANGED <<finishing, pending>>
               \/ finishing' = Append(finishing, m) /\ UNCHANGED <<buffer, pending>>
               \/ pending' = Append(pending, m) /\ UNCHANGED <<buffer, finishing>>,
               \A c \in Callers :
                   pc'[c] \in {"callback", "stuck"} => pc[c] \in {"callback", "stuck"}
        PROVE  InOnePlace(m)'
    BY <2>1, <2>2, <2>3, <2>4 DEF InOnePlace, Nobody
  <2>5. ASSUME UNCHANGED <<settled, buffer, finishing, pending>>, NEW c \in Callers,
               pc'[c] = "callback" /\ pc[c] \notin {"callback", "stuck"},
               \A d \in Callers : d # c =>
                   (pc'[d] \in {"callback", "stuck"} => pc[d] \in {"callback", "stuck"})
        PROVE  InOnePlace(m)'
    BY <2>1, <2>2, <2>5 DEF InOnePlace, Nobody
  <2>6. ASSUME UNCHANGED <<buffer, finishing, pending>>, settled' = settled \union {m},
               \A c \in Callers :
                   pc'[c] \in {"callback", "stuck"} => pc[c] \in {"callback", "stuck"}
        PROVE  InOnePlace(m)'
    BY <2>1, <2>2, <2>6 DEF InOnePlace, Nobody
  <2>7. CASE /\ UNCHANGED settled
             /\ \/ buffer' = buffer \union {count'} /\ UNCHANGED <<finishing, pending>>
                \/ finishing' = Append(finishing, count') /\ UNCHANGED <<buffer, pending>>
                \/ pending' = Append(pending, count') /\ UNCHANGED <<buffer, finishing>>
             /\ \A c \in Callers :
                   pc'[c] \in {"callback", "stuck"} => pc[c] \in {"callback", "stuck"}
    <3>1. \/ buffer' = buffer \union {m} /\ UNCHANGED <<finishing, pending>>
          \/ finishing' = Append(finishing, m) /\ UNCHANGED <<buffer, pending>>
          \/ pending' = Append(pending, m) /\ UNCHANGED <<buffer, finishing>>
      BY <1>5, <2>7
    <3> QED BY <2>4, <2>7, <3>1
  <2>8. CASE /\ UNCHANGED <<settled, buffer, finishing, pending>>
             /\ \E c \in Callers :
                   /\ pc'[c] = "callback" /\ pc[c] \notin {"callback", "stuck"}
                   /\ \A d \in Callers : d # c =>
                        (pc'[d] \in {"callback", "stuck"} => pc[d] \in {"callback", "stuck"})
    BY <1>5, <2>5, <2>8, Zenon
  <2>9. CASE /\ UNCHANGED <<buffer, finishing, pending>>
             /\ settled' = settled \union {count'}
             /\ \A c \in Callers :
                   pc'[c] \in {"callback", "stuck"} => pc[c] \in {"callback", "stuck"}
    BY <1>5, <2>6, <2>9, Zenon
  <2> QED BY <2>7, <2>8, <2>9
<1>6. ASSUME NEW m \in 1..count' PROVE InOnePlace(m)'
  BY <1>t, <1>4, <1>5
<1> QED BY <1>2, <1>6 DEF Placed

\* Publishing puts the new message in one place.
LEMMA PlacedPublish ==
    ASSUME TypeInv, Placed,
           \/ PromisePublishes
           \/ \E c \in Callers : \/ BasicPublishAsync(c) \/ BasicPublish(c)
                                 \/ MemoryPublish(c) \/ MemoryPublishAsync(c)
    PROVE  Placed'
<1> USE DEF config, producer, messages, client, memory, calls, consuming, Goes, Idle
<1>t. pc \in [Callers -> {"idle", "sync", "flush", "callback", "callbacks",
                          "stuck", "creating", "created", "subscribed", "closing"}]
      /\ own \in [Callers -> 0..count]
  BY DEF TypeInv, TypeOK
<1>1. CASE PromisePublishes
  BY <1>1, PlacedNew DEF PromisePublishes, Produce
<1>2. ASSUME NEW c \in Callers, BasicPublishAsync(c) PROVE Placed'
  BY <1>2, PlacedNew DEF BasicPublishAsync, Produce
<1>3. ASSUME NEW c \in Callers, BasicPublish(c) PROVE Placed'
  <2>1. \A d \in Callers :
           /\ pc'[d] \in {"callback", "stuck"} <=> pc[d] \in {"callback", "stuck"}
           /\ pc[d] \in {"callback", "stuck"} => own'[d] = own[d]
    BY <1>t, <1>3 DEF BasicPublish
  <2>2. /\ New /\ UNCHANGED <<running, taken, settled, pending>>
        /\ \/ buffer' = buffer \union {count'} /\ UNCHANGED finishing
           \/ finishing' = Append(finishing, count') /\ UNCHANGED buffer
    BY <1>3 DEF BasicPublish, Produce
  <2> QED BY <2>1, <2>2, PlacedNew
<1>4. ASSUME NEW c \in Callers, MemoryPublish(c) PROVE Placed'
  BY <1>4, PlacedNew DEF MemoryPublish
<1>5. ASSUME NEW c \in Callers, MemoryPublishAsync(c) PROVE Placed'
  <2>1. New /\ UNCHANGED <<running, taken, settled, buffer, finishing>>
    BY <1>5 DEF MemoryPublishAsync
  <2>2. CASE hold
    <3>1. pending' = Append(pending, count') /\ UNCHANGED <<pc, own>>
      BY <1>5, <2>2 DEF MemoryPublishAsync
    <3> QED BY <2>1, <3>1, PlacedNew
  <2>3. CASE ~hold
    <3>1. /\ pc' = [pc EXCEPT ![c] = "callback"] /\ own' = [own EXCEPT ![c] = count']
          /\ pc[c] \notin {"callback", "stuck"} /\ UNCHANGED pending
      BY <1>5, <2>3 DEF MemoryPublishAsync
    <3>2. /\ pc'[c] = "callback" /\ own'[c] = count'
          /\ \A d \in Callers : d # c => pc'[d] = pc[d] /\ own'[d] = own[d]
      BY <1>t, <3>1
    <3>3. \A d \in Callers :
              /\ pc[d] \in {"callback", "stuck"} =>
                    pc'[d] \in {"callback", "stuck"} /\ own'[d] = own[d]
              /\ pc'[d] \in {"callback", "stuck"} =>
                    pc[d] \in {"callback", "stuck"} \/ own'[d] = count'
      BY <3>1, <3>2
    <3>4. /\ pc'[c] = "callback" /\ pc[c] \notin {"callback", "stuck"}
          /\ \A d \in Callers : d # c =>
                (pc'[d] \in {"callback", "stuck"} => pc[d] \in {"callback", "stuck"})
      BY <3>1, <3>2
    <3> QED BY <2>1, <3>1, <3>3, <3>4, PlacedNew
  <2> QED BY <2>2, <2>3
<1> QED BY <1>1, <1>2, <1>3, <1>4, <1>5

\* A message moves on, or is settled.
LEMMA PlacedMove ==
    ASSUME TypeInv, Placed,
           \/ (\E m \in Msgs : RecordDone(m)) \/ PromiseRuns \/ PromiseReturns
           \/ \E c \in Callers : \/ CallbackReturns(c) \/ FlushCallbacks(c)
                                 \/ HeldCallbackReturns(c) \/ CloseProducer(c)
    PROVE  Placed'
<1> USE DEF config, producer, messages, client, memory, calls, consuming, Goes, Idle
<1>t. /\ pc \in [Callers -> {"idle", "sync", "flush", "callback", "callbacks",
                             "stuck", "creating", "created", "subscribed", "closing"}]
      /\ count \in Nat /\ finishing \in Seq(1..count) /\ pending \in Seq(1..count)
      /\ taken \in [Callers -> Seq(1..count)] /\ buffer \subseteq 1..count
      /\ own \in [Callers -> 0..count]
  BY DEF TypeInv, TypeOK
<1>d. Distinct /\ \A m \in 1..count : InOnePlace(m)
  BY DEF Placed
<1>e. ToSet(<<>>) = {} /\ IsInjective(<<>>)
  BY DEF ToSet, IsInjective
<1>1. ASSUME NEW k \in Msgs, RecordDone(k) PROVE Placed'
  <2>1. /\ k \in buffer /\ buffer' = buffer \ {k} /\ finishing' = Append(finishing, k)
        /\ UNCHANGED <<count, settled, running, pending, pc, own, taken>>
    BY <1>1 DEF RecordDone
  <2>2. k \in 1..count /\ k \notin ToSet(finishing)
    BY <1>t, <1>d, <2>1 DEF InOnePlace
  <2>3. ToSet(finishing') = ToSet(finishing) \union {k} /\ IsInjective(finishing')
    BY <1>t, <1>d, <2>1, <2>2, AppendToSet, AppendInjectiveSeq DEF Distinct
  <2>4. \A m \in 1..count : Nobody(m)' <=> Nobody(m)
    BY <2>1 DEF Nobody, Has
  <2>5. \A m \in 1..count, c \in Callers : Has(c, m)' <=> Has(c, m)
    BY <2>1 DEF Has
  <2>6. \A m \in 1..count : InOnePlace(m)'
    BY <1>d, <2>1, <2>3, <2>4, <2>5 DEF InOnePlace
  <2> QED BY <1>d, <2>1, <2>3, <2>6 DEF Placed, Distinct
<1>2. CASE PromiseRuns
  <2>1. /\ finishing # <<>> /\ running = None
        /\ running' = Head(finishing) /\ finishing' = Tail(finishing)
        /\ UNCHANGED <<count, settled, buffer, pending, pc, own, taken>>
    BY <1>2 DEF PromiseRuns
  <2>2. /\ ToSet(finishing') = ToSet(finishing) \ {running'} /\ running' \in ToSet(finishing)
        /\ IsInjective(finishing')
    BY <1>t, <1>d, <2>1, HeadTailToSet DEF Distinct
  <2>3. \A m \in 1..count : m # running
    BY <2>1 DEF None
  <2>4. \A m \in 1..count : Nobody(m)' <=> Nobody(m)
    BY <2>1 DEF Nobody, Has
  <2>5. \A m \in 1..count, c \in Callers : Has(c, m)' <=> Has(c, m)
    BY <2>1 DEF Has
  <2>6. \A m \in 1..count : InOnePlace(m)'
    BY <1>d, <2>1, <2>2, <2>3, <2>4, <2>5 DEF InOnePlace
  <2> QED BY <1>d, <2>1, <2>2, <2>6 DEF Placed, Distinct
<1>3. CASE PromiseReturns
  <2>1. /\ settled' = settled \union {running} /\ running' = None
        /\ UNCHANGED <<count, finishing, buffer, pending, pc, own, taken>>
    BY <1>3 DEF PromiseReturns
  <2>3. \A m \in 1..count : m # running'
    BY <2>1 DEF None
  <2>4. \A m \in 1..count : Nobody(m)' <=> Nobody(m)
    BY <2>1 DEF Nobody, Has
  <2>5. \A m \in 1..count, c \in Callers : Has(c, m)' <=> Has(c, m)
    BY <2>1 DEF Has
  <2>6. \A m \in 1..count : InOnePlace(m)'
    BY <1>d, <2>1, <2>3, <2>4, <2>5 DEF InOnePlace
  <2> QED BY <1>d, <2>1, <2>6 DEF Placed, Distinct
<1>4. ASSUME NEW c \in Callers, CallbackReturns(c) PROVE Placed'
  <2>1. /\ pc[c] = "callback" /\ settled' = settled \union {own[c]}
        /\ own' = [own EXCEPT ![c] = None]
        /\ UNCHANGED <<count, finishing, buffer, pending, running, taken>>
        /\ pc'[c] \in {"idle", "callbacks"} /\ \A d \in Callers : d # c => pc'[d] = pc[d]
    BY <1>t, <1>4 DEF CallbackReturns
  <2>2. Has(c, own[c]) /\ own[c] \notin ToSet(taken[c])
    BY <1>d, <2>1 DEF Has, Distinct
  <2>3. \A d \in Callers : d # c => \A m \in 1..count : Has(d, m)' <=> Has(d, m)
    BY <1>t, <2>1 DEF Has
  <2>4. \A m \in 1..count : Has(c, m)' <=> Has(c, m) /\ m # own[c]
    BY <2>1, <2>2 DEF Has
  <2>5. ASSUME NEW m \in 1..count PROVE InOnePlace(m)'
    <3>1. CASE m = own[c]
      <4>1. m \in settled' /\ Has(c, m) /\ InOnePlace(m) /\ ~Has(c, m)'
        BY <1>d, <2>1, <2>2, <2>4, <3>1
      <4>2. /\ m \notin buffer /\ m \notin ToSet(finishing) /\ m # running
            /\ m \notin ToSet(pending) /\ \A d \in Callers : Has(d, m) => d = c
        BY <4>1 DEF InOnePlace, Nobody
      <4>3. Nobody(m)'
        BY <2>3, <4>1, <4>2 DEF Nobody
      <4> QED BY <2>1, <4>1, <4>2, <4>3 DEF InOnePlace
    <3>2. CASE m # own[c]
      <4>1. \A d \in Callers : Has(d, m)' <=> Has(d, m)
        BY <2>3, <2>4, <3>2
      <4>2. InOnePlace(m) /\ (m \in settled' <=> m \in settled)
        BY <1>d, <2>1, <3>2
      <4> QED BY <2>1, <4>1, <4>2 DEF InOnePlace, Nobody
    <3> QED BY <3>1, <3>2
  <2>6. Distinct'
    BY <1>t, <1>d, <2>1 DEF Distinct
  <2> QED BY <2>1, <2>5, <2>6 DEF Placed
<1>5. ASSUME NEW c \in Callers, FlushCallbacks(c) PROVE Placed'
  <2>1. /\ pc[c] = "idle" /\ pending' = <<>> /\ taken' = [taken EXCEPT ![c] = pending]
        /\ UNCHANGED <<count, settled, finishing, buffer, running, own>>
        /\ pc'[c] = "callbacks" /\ \A d \in Callers : d # c => pc'[d] = pc[d]
    BY <1>t, <1>5 DEF FlushCallbacks
  <2>2. taken[c] = <<>>
    BY <2>1 DEF TypeInv, Counted, Running
  <2>3. \A d \in Callers : d # c => \A m \in 1..count : Has(d, m)' <=> Has(d, m)
    BY <1>t, <2>1 DEF Has
  <2>4. \A m \in 1..count : (Has(c, m)' <=> m \in ToSet(pending)) /\ ~Has(c, m)
    BY <1>t, <1>e, <2>1, <2>2 DEF Has
  <2>5. ASSUME NEW m \in 1..count PROVE InOnePlace(m)'
    <3>1. m \notin ToSet(pending') /\ InOnePlace(m)
      BY <1>d, <1>e, <2>1
    <3>2. CASE m \in ToSet(pending)
      <4>1. /\ m \notin settled /\ m \notin buffer /\ m \notin ToSet(finishing)
            /\ m # running /\ Nobody(m)
        BY <3>1, <3>2 DEF InOnePlace
      <4>2. Has(c, m)' /\ \A d \in Callers : Has(d, m)' => d = c
        BY <2>3, <2>4, <3>2, <4>1 DEF Nobody
      <4> QED BY <2>1, <3>1, <4>1, <4>2 DEF InOnePlace
    <3>3. CASE m \notin ToSet(pending)
      <4>1. \A d \in Callers : Has(d, m)' <=> Has(d, m)
        BY <2>3, <2>4, <3>3
      <4> QED BY <2>1, <3>1, <3>3, <4>1 DEF InOnePlace, Nobody
    <3> QED BY <3>2, <3>3
  <2>6. Distinct'
    BY <1>t, <1>d, <1>e, <2>1 DEF Distinct
  <2> QED BY <2>1, <2>5, <2>6 DEF Placed
<1>6. ASSUME NEW c \in Callers, HeldCallbackReturns(c) PROVE Placed'
  <2>1. /\ pc[c] = "callbacks" /\ settled' = settled \union {Head(taken[c])}
        /\ taken' = [taken EXCEPT ![c] = Tail(taken[c])]
        /\ UNCHANGED <<count, finishing, buffer, pending, running, own>>
        /\ pc'[c] \in {"idle", "callbacks"} /\ \A d \in Callers : d # c => pc'[d] = pc[d]
    BY <1>t, <1>6 DEF HeldCallbackReturns
  <2>2. taken[c] # <<>> /\ taken[c] \in Seq(1..count) /\ IsInjective(taken[c])
    BY <1>t, <1>d, <2>1 DEF TypeInv, Counted, Distinct
  <2>3. PICK k : k = Head(taken[c])
    OBVIOUS
  <2>4. /\ ToSet(Tail(taken[c])) = ToSet(taken[c]) \ {k} /\ k \in ToSet(taken[c])
        /\ IsInjective(Tail(taken[c]))
    BY <2>2, <2>3, HeadTailToSet
  <2>5. \A d \in Callers : d # c => \A m \in 1..count : Has(d, m)' <=> Has(d, m)
    BY <1>t, <2>1 DEF Has
  <2>6. \A m \in 1..count : Has(c, m)' <=> Has(c, m) /\ m # k
    <3>1. taken'[c] = Tail(taken[c])
      BY <1>t, <2>1
    <3> QED BY <2>1, <2>4, <3>1 DEF Has
  <2>7. ASSUME NEW m \in 1..count PROVE InOnePlace(m)'
    <3>1. CASE m = k
      <4>1. m \in settled' /\ Has(c, m) /\ InOnePlace(m) /\ ~Has(c, m)'
        BY <1>d, <2>1, <2>3, <2>4, <2>6, <3>1 DEF Has
      <4>2. /\ m \notin buffer /\ m \notin ToSet(finishing) /\ m # running
            /\ m \notin ToSet(pending) /\ \A d \in Callers : Has(d, m) => d = c
        BY <4>1 DEF InOnePlace, Nobody
      <4>3. Nobody(m)'
        BY <2>5, <4>1, <4>2 DEF Nobody
      <4> QED BY <2>1, <4>1, <4>2, <4>3 DEF InOnePlace
    <3>2. CASE m # k
      <4>1. \A d \in Callers : Has(d, m)' <=> Has(d, m)
        BY <2>5, <2>6, <3>2
      <4>2. InOnePlace(m) /\ (m \in settled' <=> m \in settled)
        BY <1>d, <2>1, <2>3, <3>2
      <4> QED BY <2>1, <4>1, <4>2 DEF InOnePlace, Nobody
    <3> QED BY <3>1, <3>2
  <2>8. Distinct'
    BY <1>t, <1>d, <2>1, <2>4 DEF Distinct
  <2> QED BY <2>1, <2>7, <2>8 DEF Placed
<1>7. ASSUME NEW c \in Callers, CloseProducer(c) PROVE Placed'
  <2>1. /\ buffer' = {} /\ UNCHANGED <<count, settled, pending, running, own, taken>>
        /\ pc' = [pc EXCEPT ![c] = "idle"] /\ pc[c] = "closing"
    BY <1>7 DEF CloseProducer
  <2>2. PICK order \in SetToSeqs(buffer) : finishing' = finishing \o order
    BY <1>7 DEF CloseProducer
  <2>3. buffer \intersect ToSet(finishing) = {}
    BY <1>t, <1>d DEF InOnePlace
  <2>4. IsInjective(finishing') /\ ToSet(finishing') = ToSet(finishing) \union buffer
    <3>1. IsInjective(finishing) /\ buffer \in SUBSET (1..count)
      BY <1>t, <1>d DEF Distinct
    <3>2. /\ IsInjective(finishing \o order)
          /\ ToSet(finishing \o order) = ToSet(finishing) \union buffer
      <4>1. count \in Nat /\ finishing \in Seq(1..count) /\ order \in SetToSeqs(buffer)
        BY <1>t, <2>2
      <4> QED BY <2>3, <3>1, <4>1, ConcatOrder
    <3> QED BY <2>2, <3>2
  <2>5. \A m \in 1..count, d \in Callers : Has(d, m)' <=> Has(d, m)
    BY <1>t, <2>1 DEF Has
  <2>6. \A m \in 1..count : InOnePlace(m)'
    BY <1>d, <2>1, <2>4, <2>5 DEF InOnePlace, Nobody
  <2>7. Distinct'
    BY <1>t, <1>d, <2>1, <2>4 DEF Distinct
  <2> QED BY <2>1, <2>6, <2>7 DEF Placed
<1> QED BY <1>1, <1>2, <1>3, <1>4, <1>5, <1>6, <1>7

LEMMA PlacedStep == TypeInv /\ Placed /\ [Next]_vars => Placed'
<1> SUFFICES ASSUME TypeInv, Placed, [Next]_vars PROVE Placed'
  OBVIOUS
<1> USE DEF config, producer, messages, client, memory, calls, consuming, Goes, Idle
<1>t. /\ pc \in [Callers -> {"idle", "sync", "flush", "callback", "callbacks",
                             "stuck", "creating", "created", "subscribed", "closing"}]
      /\ own \in [Callers -> 0..count]
  BY DEF TypeInv, TypeOK
<1>1. CASE \/ Refused \/ (\E a \in Answers : Resolved(a)) \/ ResolveFails
           \/ Dial \/ PingReturns \/ Retry
  BY <1>1, PlacedFrame DEF Refused, Resolved, ResolveFails, Dial, PingReturns, Retry
<1>2. ASSUME NEW c \in Callers,
             \/ SyncReturns(c) \/ CallbackPublishes(c) \/ HoldCallbacks(c)
             \/ FlushMemory(c) \/ FlushBegins(c) \/ FlushEnds(c)
      PROVE  Placed'
  <2>1. /\ UNCHANGED <<count, settled, buffer, finishing, running, pending, taken>>
        /\ \A d \in Callers :
              /\ pc'[d] \in {"callback", "stuck"} <=> pc[d] \in {"callback", "stuck"}
              /\ pc[d] \in {"callback", "stuck"} => own'[d] = own[d]
    BY <1>t, <1>2 DEF SyncReturns, CallbackPublishes, HoldCallbacks, FlushMemory,
       FlushBegins, FlushEnds
  <2> QED BY <2>1, PlacedFrame
<1>3. ASSUME NEW c \in Callers,
             \/ Subscribe(c) \/ NewConsumer(c) \/ NewConsumerFails(c) \/ Start(c)
             \/ SubscribeEnds(c) \/ CloseConsumer(c) \/ NilDereference(c)
      PROVE  Placed'
  <2>1. /\ UNCHANGED <<count, settled, buffer, finishing, running, pending, taken, own>>
        /\ \A d \in Callers :
              pc'[d] \in {"callback", "stuck"} <=> pc[d] \in {"callback", "stuck"}
    BY <1>t, <1>3 DEF Subscribe, NewConsumer, NewConsumerFails, Start, SubscribeEnds,
       CloseConsumer, NilDereference
  <2> QED BY <2>1, PlacedFrame
<1>4. CASE UNCHANGED vars
  BY <1>4, PlacedFrame DEF vars
<1> QED BY <1>1, <1>2, <1>3, <1>4, PlacedPublish, PlacedMove DEF Next

LEMMA PlacesOf ==
    ASSUME NEW m
    PROVE  /\ Places(m) \subseteq {"buffer", "finishing", "running", "pending"} \union Callers
           /\ "buffer" \in Places(m) <=> m \in buffer
           /\ "finishing" \in Places(m) <=> m \in ToSet(finishing)
           /\ "running" \in Places(m) <=> m = running
           /\ "pending" \in Places(m) <=> m \in ToSet(pending)
           /\ \A c \in Callers : c \in Places(m) <=> Has(c, m)
BY CallersAssumption DEF CallersAssumption, Places, Has

\* No callback is lost or doubled between HoldCallbacks, FlushCallbacks of several
\* goroutines, publishing callbacks and Close: an unsettled message is in exactly one
\* place, a settled one in none.
THEOREM EveryMessageAccounted == Spec => []Accounted
<1>1. Init => Placed
  BY DEF Init, Placed, Distinct, IsInjective
<1>2. Placed => Accounted
  <2> SUFFICES ASSUME Placed, NEW m \in 1..count
               PROVE  Cardinality(Places(m)) = IF m \in settled THEN 0 ELSE 1
    BY DEF Accounted
  <2>1. InOnePlace(m)
    BY DEF Placed
  <2>2. CASE m \in settled
    <3>1. Places(m) = {}
      BY <2>1, <2>2, PlacesOf DEF InOnePlace, Nobody
    <3> QED BY <2>2, <3>1, FS_EmptySet
  <2>3. CASE m \notin settled
    <3>1. \E q : Places(m) = {q}
      <4>1. CASE m \in buffer
        <5>1. Places(m) = {"buffer"}
          BY <2>1, <2>3, <4>1, PlacesOf DEF InOnePlace, Nobody
        <5> QED BY <5>1
      <4>2. CASE m \in ToSet(finishing)
        <5>1. Places(m) = {"finishing"}
          BY <2>1, <2>3, <4>2, PlacesOf DEF InOnePlace, Nobody
        <5> QED BY <5>1
      <4>3. CASE m = running
        <5>1. Places(m) = {"running"}
          BY <2>1, <2>3, <4>3, PlacesOf DEF InOnePlace, Nobody
        <5> QED BY <5>1
      <4>4. CASE m \in ToSet(pending)
        <5>1. Places(m) = {"pending"}
          BY <2>1, <2>3, <4>4, PlacesOf DEF InOnePlace, Nobody
        <5> QED BY <5>1
      <4>5. ASSUME NEW c \in Callers, Has(c, m), \A d \in Callers : Has(d, m) => d = c,
                   m \notin buffer, m \notin ToSet(finishing), m # running,
                   m \notin ToSet(pending)
            PROVE  \E q : Places(m) = {q}
        <5>1. Places(m) = {c}
          BY <4>5, PlacesOf
        <5> QED BY <5>1
      <4> QED BY <2>1, <2>3, <4>1, <4>2, <4>3, <4>4, <4>5 DEF InOnePlace
    <3> QED BY <2>3, <3>1, FS_Singleton
  <2> QED BY <2>2, <2>3
<1> QED BY <1>1, <1>2, PlacedStep, InitType, NextType, PTL DEF Spec

-----------------------------------------------------------------------------
(* Both producers are an rp.Producer *)

\* What each kind leaves alone: only a BasicProducer has records on their way, only
\* a MemoryProducer runs callbacks itself, and without HoldCallbacks a message whose
\* call has returned is settled.  Flush waits only with a BasicProducer.
Kinded ==
    /\ kind # "basic" => buffer = {} /\ finishing = <<>> /\ running = None
    /\ kind = "basic" =>
          pending = <<>> /\ \A c \in Callers : taken[c] = <<>> /\ pc[c] \notin Running
    /\ kind = "memory" => ~hold /\ returned \subseteq settled
    /\ \A c \in Callers :
         /\ pc[c] = "flush" => kind = "basic"
         /\ pc[c] # "flush" => due[c] = {}

\* Kinded over the steps of which it says nothing.
LEMMA KindedFrame ==
    ASSUME Kinded, UNCHANGED <<kind, buffer, finishing, running, pending, hold, taken,
                               returned, settled, due>>,
           \A c \in Callers : /\ pc'[c] \in Running => pc[c] \in Running
                              /\ pc'[c] = "flush" <=> pc[c] = "flush"
    PROVE  Kinded'
BY DEF Kinded

LEMMA KindedStep == TypeInv /\ Kinded /\ [Next]_vars => Kinded'
<1> SUFFICES ASSUME TypeInv, Kinded, [Next]_vars PROVE Kinded'
  OBVIOUS
<1> USE DEF config, producer, messages, client, memory, calls, consuming, Goes, Idle
<1>t. /\ pc \in [Callers -> {"idle", "sync", "flush", "callback", "callbacks",
                             "stuck", "creating", "created", "subscribed", "closing"}]
      /\ due \in [Callers -> SUBSET (1..count)] /\ taken \in [Callers -> Seq(1..count)]
  BY DEF TypeInv, TypeOK
<1>1. CASE \/ Refused \/ (\E a \in Answers : Resolved(a)) \/ ResolveFails
           \/ Dial \/ PingReturns \/ Retry
  BY <1>1, KindedFrame DEF Refused, Resolved, ResolveFails, Dial, PingReturns, Retry
<1>2. ASSUME NEW m \in Msgs, RecordDone(m) PROVE Kinded'
  BY <1>2 DEF RecordDone, Kinded
<1>3. CASE PromiseRuns \/ PromisePublishes \/ PromiseReturns
  <2>1. kind = "basic"
    BY <1>3 DEF PromiseRuns, PromisePublishes, PromiseReturns, Kinded
  <2> QED BY <1>3, <2>1 DEF PromiseRuns, PromisePublishes, PromiseReturns, Kinded
<1>4. ASSUME NEW c \in Callers, BasicPublishAsync(c) PROVE Kinded'
  BY <1>4 DEF BasicPublishAsync, Kinded
<1>5. ASSUME NEW c \in Callers, BasicPublish(c) PROVE Kinded'
  BY <1>t, <1>5 DEF BasicPublish, Kinded, Running
<1>6. ASSUME NEW c \in Callers, SyncReturns(c) PROVE Kinded'
  BY <1>t, <1>6 DEF SyncReturns, Kinded, Running
<1>7. ASSUME NEW c \in Callers, MemoryPublish(c) PROVE Kinded'
  BY <1>7 DEF MemoryPublish, InMemory, Kinded
<1>8. ASSUME NEW c \in Callers, MemoryPublishAsync(c) PROVE Kinded'
  <2>1. kind \in {"memory", "holding"} /\ (kind = "memory" => ~hold)
    BY <1>8 DEF MemoryPublishAsync, InMemory, Kinded
  <2> QED BY <1>t, <1>8, <2>1 DEF MemoryPublishAsync, Kinded, Running
<1>9. ASSUME NEW c \in Callers, CallbackReturns(c) \/ CallbackPublishes(c) PROVE Kinded'
  <2>1. kind # "basic" /\ pc[c] # "flush"
    BY <1>9 DEF CallbackReturns, CallbackPublishes, Kinded, Running
  <2> QED BY <1>t, <1>9, <2>1 DEF CallbackReturns, CallbackPublishes, Kinded, Running
<1>10. ASSUME NEW c \in Callers, HoldCallbacks(c) \/ FlushCallbacks(c) PROVE Kinded'
  BY <1>t, <1>10 DEF HoldCallbacks, FlushCallbacks, Kinded, Running
<1>11. ASSUME NEW c \in Callers, HeldCallbackReturns(c) PROVE Kinded'
  <2>1. kind # "basic"
    BY <1>11 DEF HeldCallbackReturns, Kinded, Running
  <2> QED BY <1>t, <1>11, <2>1 DEF HeldCallbackReturns, Kinded, Running
<1>12. ASSUME NEW c \in Callers, FlushMemory(c) PROVE Kinded'
  BY <1>12 DEF FlushMemory, Kinded
<1>13. ASSUME NEW c \in Callers, FlushBegins(c) \/ FlushEnds(c) PROVE Kinded'
  BY <1>t, <1>13 DEF FlushBegins, FlushEnds, Kinded, Running
<1>14. ASSUME NEW c \in Callers,
              \/ Subscribe(c) \/ NewConsumer(c) \/ NewConsumerFails(c) \/ Start(c)
              \/ SubscribeEnds(c) \/ CloseConsumer(c) \/ NilDereference(c)
       PROVE  Kinded'
  <2>1. /\ UNCHANGED <<kind, buffer, finishing, running, pending, hold, taken, returned,
                       settled, due>>
        /\ \A d \in Callers : /\ pc'[d] \in Running => pc[d] \in Running
                              /\ pc'[d] = "flush" <=> pc[d] = "flush"
    BY <1>t, <1>14 DEF Subscribe, NewConsumer, NewConsumerFails, Start, SubscribeEnds,
       CloseConsumer, NilDereference, Running
  <2> QED BY <2>1, KindedFrame
<1>15. ASSUME NEW c \in Callers, CloseProducer(c) PROVE Kinded'
  <2>1. kind # "basic" => finishing' = <<>>
    <3> SUFFICES ASSUME kind # "basic" PROVE finishing' = <<>>
      OBVIOUS
    <3>1. buffer = {} /\ finishing = <<>>
      BY DEF Kinded
    <3>2. PICK order \in SetToSeqs(buffer) : finishing' = finishing \o order
      BY <1>15 DEF CloseProducer
    <3>3. order \in [1..0 -> {}]
      BY <3>1, <3>2, FS_EmptySet DEF SetToSeqs
    <3>4. order = <<>>
      BY <3>3
    <3> QED BY <3>1, <3>2, <3>4, ConcatEmptySeq, EmptySeq
  <2>2. /\ UNCHANGED <<kind, running, pending, hold, taken, returned, settled, due>>
        /\ buffer' = {}
        /\ \A d \in Callers : /\ pc'[d] \in Running => pc[d] \in Running
                              /\ pc'[d] = "flush" <=> pc[d] = "flush"
    BY <1>t, <1>15 DEF CloseProducer, Running
  <2> QED BY <2>1, <2>2 DEF Kinded
<1>16. CASE UNCHANGED vars
  BY <1>16, KindedFrame DEF vars
<1> QED BY <1>1, <1>2, <1>3, <1>4, <1>5, <1>6, <1>7, <1>8, <1>9, <1>10, <1>11, <1>12,
           <1>13, <1>14, <1>15, <1>16 DEF Next

\* When kgo has nothing left, everything published is settled.
LEMMA FlushedIsSettled ==
    ASSUME Placed, Kinded, kind = "basic", Flushed PROVE 1..count \subseteq settled
<1> SUFFICES ASSUME NEW m \in 1..count, m \notin settled PROVE FALSE
  OBVIOUS
<1>1. InOnePlace(m)
  BY DEF Placed
<1>2. m \notin buffer /\ finishing = <<>> /\ m # running
  BY DEF Flushed, None
<1>3. pending = <<>> /\ \A c \in Callers : taken[c] = <<>> /\ pc[c] \notin Running
  BY DEF Kinded
<1>4. ToSet(<<>>) = {}
  BY DEF ToSet
<1> QED BY <1>1, <1>2, <1>3, <1>4 DEF InOnePlace, Nobody, Has, Running

\* The abstract due and flushed of Contract.
DueOf == IF kind = "holding" THEN [c \in Callers |-> {}] ELSE due
FlushedOf == IF kind = "holding" THEN {} ELSE flushed

\* A step that neither publishes nor settles nor waits is a stutter.
LEMMA ContractStutters ==
    ASSUME UNCHANGED <<kind, count, returned, settled>>,
           kind = "holding" \/ UNCHANGED <<due, flushed>>
    PROVE  UNCHANGED Contract!vars
<1>1. DueOf' = DueOf /\ FlushedOf' = FlushedOf
  BY DEF DueOf, FlushedOf
<1>2. (1..count)' = 1..count
  OBVIOUS
<1> QED BY <1>1, <1>2 DEF Contract!vars, DueOf, FlushedOf

LEMMA ContractPublishes ==
    ASSUME TypeInv, New, UNCHANGED <<kind, due, flushed>>,
           returned' \in {returned, returned \union {count'}},
           settled' \in {settled, settled \union {count'}}
    PROVE  Contract!Next
<1>1. PICK m : m = count'
  OBVIOUS
<1>2. /\ m \in Msgs /\ m \notin 1..count /\ 1..count' = (1..count) \union {m}
  BY <1>1, NewType DEF TypeInv, TypeOK, Msgs
<1>3. DueOf' = DueOf /\ FlushedOf' = FlushedOf
  BY DEF DueOf, FlushedOf
<1>4. Contract!Publish(m)
  BY <1>1, <1>2, <1>3 DEF Contract!Publish, DueOf, FlushedOf
<1> QED BY <1>2, <1>4 DEF Contract!Next

\* A message is settled, its call returns, or both.
LEMMA ContractSettles ==
    ASSUME UNCHANGED <<kind, count, due, flushed>>, TypeInv, NEW m \in 1..count,
           \/ m \notin settled /\ settled' = settled \union {m} /\ UNCHANGED returned
           \/ /\ m \notin settled /\ settled' = settled \union {m}
              /\ returned' = returned \union {m}
           \/ UNCHANGED settled /\ returned' = returned \union {m}
    PROVE  Contract!Next \/ UNCHANGED Contract!vars
<1>1. m \in Msgs /\ (1..count)' = 1..count
  BY DEF TypeInv, TypeOK, Msgs
<1>2. DueOf' = DueOf /\ FlushedOf' = FlushedOf
  BY DEF DueOf, FlushedOf
<1>3. CASE returned' = returned /\ settled' = settled
  BY <1>3, ContractStutters
<1>4. CASE returned' = returned \union {m} /\ m \notin returned
  <2>1. Contract!Return(m)
    BY <1>1, <1>2, <1>4 DEF Contract!Return, DueOf, FlushedOf
  <2> QED BY <1>1, <2>1 DEF Contract!Next
<1>5. CASE returned' = returned /\ m \notin settled /\ settled' = settled \union {m}
  <2>1. Contract!Settle(m)
    BY <1>1, <1>2, <1>5 DEF Contract!Settle, DueOf, FlushedOf
  <2> QED BY <1>1, <2>1 DEF Contract!Next
<1> QED BY <1>3, <1>4, <1>5

LEMMA ContractInit == Init => Contract!Init
BY DEF Init, Contract!Init

LEMMA ContractStep ==
    ASSUME TypeInv, Placed, Kinded, [Next]_vars
    PROVE  Contract!Next \/ UNCHANGED Contract!vars
<1> USE DEF config, producer, messages, client, memory, calls, consuming
<1>t. /\ running \in 0..count /\ count \in Nat
      /\ own \in [Callers -> 0..count] /\ taken \in [Callers -> Seq(1..count)]
      /\ due \in [Callers -> SUBSET (1..count)]
      /\ \A m \in 1..count : InOnePlace(m)
  BY DEF TypeInv, TypeOK, Placed
<1>1. CASE \/ Refused \/ (\E a \in Answers : Resolved(a)) \/ ResolveFails
           \/ Dial \/ PingReturns \/ Retry \/ (\E m \in Msgs : RecordDone(m)) \/ PromiseRuns
  BY <1>1, ContractStutters DEF Refused, Resolved, ResolveFails, Dial, PingReturns, Retry,
     RecordDone, PromiseRuns
<1>2. CASE PromisePublishes
  BY <1>2, ContractPublishes DEF PromisePublishes
<1>3. CASE PromiseReturns
  <2>1. running \in 1..count
    BY <1>t, <1>3 DEF PromiseReturns, None
  <2>2. running \notin settled
    BY <1>t, <2>1 DEF InOnePlace
  <2> QED BY <1>3, <2>1, <2>2, ContractSettles DEF PromiseReturns
<1>4. ASSUME NEW c \in Callers, \/ BasicPublishAsync(c) \/ BasicPublish(c)
                                \/ MemoryPublish(c) \/ MemoryPublishAsync(c)
      PROVE  Contract!Next
  <2>1. /\ New /\ UNCHANGED <<kind, due, flushed>>
        /\ returned' \in {returned, returned \union {count'}}
        /\ settled' \in {settled, settled \union {count'}}
    BY <1>4 DEF BasicPublishAsync, BasicPublish, MemoryPublish, MemoryPublishAsync
  <2> QED BY <2>1, ContractPublishes
<1>5. ASSUME NEW c \in Callers, SyncReturns(c)
      PROVE  Contract!Next \/ UNCHANGED Contract!vars
  <2>1. own[c] \in 1..count
    BY <1>t, <1>5 DEF SyncReturns, TypeInv, Counted
  <2> QED BY <1>5, <2>1, ContractSettles DEF SyncReturns
<1>6. ASSUME NEW c \in Callers, CallbackReturns(c)
      PROVE  Contract!Next \/ UNCHANGED Contract!vars
  <2>1. own[c] \in 1..count
    BY <1>t, <1>6 DEF CallbackReturns, TypeInv, Counted
  <2>2. own[c] \notin settled
    <3>1. Has(c, own[c])
      BY <1>6 DEF CallbackReturns, Has
    <3> QED BY <1>t, <2>1, <3>1 DEF InOnePlace, Nobody
  <2> QED BY <1>6, <2>1, <2>2, ContractSettles DEF CallbackReturns
<1>7. ASSUME NEW c \in Callers, HeldCallbackReturns(c)
      PROVE  Contract!Next \/ UNCHANGED Contract!vars
  <2>1. taken[c] \in Seq(1..count) /\ taken[c] # <<>> /\ IsInjective(taken[c])
    BY <1>t, <1>7 DEF HeldCallbackReturns, TypeInv, Counted, Placed, Distinct
  <2>2. Head(taken[c]) \in 1..count /\ Head(taken[c]) \in ToSet(taken[c])
    BY <2>1, HeadTailProperties, HeadTailToSet
  <2>3. Head(taken[c]) \notin settled
    BY <1>t, <2>2 DEF InOnePlace, Nobody, Has
  <2> QED BY <1>7, <2>2, <2>3, ContractSettles DEF HeldCallbackReturns
<1>8. ASSUME NEW c \in Callers, CallbackPublishes(c) \/ HoldCallbacks(c) \/ FlushCallbacks(c)
      PROVE  UNCHANGED Contract!vars
  BY <1>8, ContractStutters DEF CallbackPublishes, HoldCallbacks, FlushCallbacks
<1>9. ASSUME NEW c \in Callers, FlushMemory(c)
      PROVE  Contract!Next \/ UNCHANGED Contract!vars
  <2>1. CASE kind = "holding"
    BY <1>9, <2>1, ContractStutters DEF FlushMemory
  <2>2. CASE kind = "memory"
    <3>1. /\ UNCHANGED <<kind, count, returned, settled, due>>
          /\ flushed' = flushed \union returned /\ pc[c] = "idle"
      BY <1>9 DEF FlushMemory, Idle
    <3>2. returned \subseteq settled /\ due[c] = {}
      BY <2>2, <3>1 DEF Kinded
    <3>3. due = [due EXCEPT ![c] = {}]
      BY <1>t, <3>2
    <3>4. Contract!FlushEnds(c)
      BY <2>2, <3>1, <3>2, <3>3 DEF Contract!FlushEnds
    <3> QED BY <3>4 DEF Contract!Next
  <2> QED BY <1>9, <2>1, <2>2 DEF FlushMemory, InMemory
<1>10. ASSUME NEW c \in Callers, FlushBegins(c) PROVE Contract!Next
  <2>1. /\ kind = "basic" /\ UNCHANGED <<kind, count, returned, settled, flushed>>
        /\ due' = [due EXCEPT ![c] = returned]
    BY <1>10 DEF FlushBegins
  <2>2. Contract!FlushBegins(c)
    BY <2>1 DEF Contract!FlushBegins
  <2> QED BY <2>2 DEF Contract!Next
<1>11. ASSUME NEW c \in Callers, FlushEnds(c) PROVE Contract!Next
  <2>1. /\ UNCHANGED <<kind, count, returned, settled>>
        /\ due' = [due EXCEPT ![c] = {}] /\ kind = "basic"
        /\ (Flushed /\ flushed' = flushed \union due[c]) \/ UNCHANGED flushed
    BY <1>11 DEF FlushEnds, Kinded
  <2>2. CASE Flushed /\ flushed' = flushed \union due[c]
    <3>1. due[c] \subseteq settled
      BY <1>t, <2>1, <2>2, FlushedIsSettled
    <3>2. Contract!FlushEnds(c)
      BY <2>1, <2>2, <3>1 DEF Contract!FlushEnds
    <3> QED BY <3>2 DEF Contract!Next
  <2>3. CASE UNCHANGED flushed
    <3>1. Contract!FlushGivesUp(c)
      BY <2>1, <2>3 DEF Contract!FlushGivesUp
    <3> QED BY <3>1 DEF Contract!Next
  <2> QED BY <2>1, <2>2, <2>3
<1>12. ASSUME NEW c \in Callers,
              \/ Subscribe(c) \/ NewConsumer(c) \/ NewConsumerFails(c) \/ Start(c)
              \/ SubscribeEnds(c) \/ CloseConsumer(c) \/ CloseProducer(c)
              \/ NilDereference(c)
       PROVE  UNCHANGED Contract!vars
  BY <1>12, ContractStutters DEF Subscribe, NewConsumer, NewConsumerFails, Start,
     SubscribeEnds, CloseConsumer, CloseProducer, NilDereference
<1>13. CASE UNCHANGED vars
  BY <1>13, ContractStutters DEF vars
<1> QED BY <1>1, <1>2, <1>3, <1>4, <1>5, <1>6, <1>7, <1>8, <1>9, <1>10, <1>11, <1>12,
           <1>13 DEF Next

\* Both producers keep the promises of rp.Producer, whatever callbacks do and however
\* Close cuts in: a message is settled once, and before a Flush that began after its
\* call has returned nil.
THEOREM ProducersKeepContract == Spec => ImplementsProducer
<1>1. Init => Placed
  BY DEF Init, Placed, Distinct, IsInjective
<1>2. Init => Kinded
  BY KindsAssumption DEF KindsAssumption, Init, Kinded, Running
<1>3. TypeInv /\ Placed /\ Kinded /\ [Next]_vars => [Contract!Next]_(Contract!vars)
  BY ContractStep
<1> QED BY <1>1, <1>2, <1>3, ContractInit, PlacedStep, KindedStep, InitType, NextType, PTL
        DEF Spec, ImplementsProducer, Contract!Spec
=============================================================================
