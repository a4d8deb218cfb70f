------------------------------ MODULE Transport ------------------------------
(***************************************************************************)
(* rp.Transport (pkg/rp/transport.go) with its two kinds of producer and   *)
(* its one consumer: NewProducer with the schema resolver, Publish, Flush, *)
(* Subscribe and Close called by several goroutines, BasicProducer over a  *)
(* kgo client, and MemoryProducer with its held callbacks.                 *)
(*                                                                         *)
(* A message is a number, in the order of the calls that publish it.  The  *)
(* callbacks of the program either return or publish another message.      *)
(*                                                                         *)
(* External, as producer.go uses it: kgo runs the promises one after the   *)
(* other, and counts a record as buffered until its promise has returned;  *)
(* Close fails what is buffered, and a later Produce at once.              *)
(***************************************************************************)
EXTENDS Integers, Sequences, FiniteSets, SequencesExt

CONSTANTS
    Callers,        \* goroutines of the program
    Kinds,          \* of producer: "none", "basic", "memory", "holding" (a
                    \* MemoryProducer whose program uses HoldCallbacks)
    Attempts,       \* httpSchemaRegistryRetries
    Answers,        \* IDs in the registry's answers; 0: an answer without one
    IDModulus,      \* 2^32: a header's ID has four bytes
    MaxMsgs,        \* bound: messages
    MaxFails        \* bound: failed constructors and Subscribes that ended

None == 0
TypedNil == -1   \* an interface that holds a nil *BasicConsumer
Msgs == 1..MaxMsgs
Consumers == 1..(Cardinality(Callers) + MaxFails)

ASSUME BoundsAssumption == Attempts \in Nat \ {0} /\ MaxMsgs \in Nat /\ MaxFails \in Nat
ASSUME IDsAssumption == Answers \subseteq Int /\ IDModulus \in Nat \ {0}
ASSUME KindsAssumption == Kinds \subseteq {"none", "basic", "memory", "holding"}
\* A goroutine is none of the other places a message can be in (Places below).
ASSUME CallersAssumption ==
    /\ IsFiniteSet(Callers)
    /\ Callers \intersect {None, "buffer", "finishing", "running", "pending"} = {}

VARIABLES
    kind,       \* which producer the program builds
    resolver,   \* ProducerConfig.SchemaResolver is set
    sync,       \* WithPublishSyncEnabled
    made,       \* NewProducer: what it is doing
    attempt,    \* Resolve: attempts made
    schemaID,   \* BasicProducer.schemaID; zero: write no header
    connected,  \* the producer's kgo client is open
    answered,   \* history: the answer this NewProducer got from the registry, if any
    count,      \* messages published so far: 1..count
    framed,     \* messages with a wire-format header
    returned,   \* messages whose Publish or PublishAsync has returned
    settled,    \* messages whose callback or synchronous Publish is done
    buffer,     \* kgo: records on their way to the broker
    finishing,  \* kgo: records whose promise is to be called, in order
    running,    \* kgo: the record whose promise is running
    mutex,      \* MemoryProducer.mutex: who holds it
    hold,       \* MemoryProducer.holdCallbacks
    pending,    \* MemoryProducer.pendingCallbacks
    pc,         \* what each goroutine is doing
    own,        \* ... the message it is publishing
    taken,      \* ... the callbacks its FlushCallbacks has yet to run
    due,        \* ... what its Flush has to wait for
    flushed,    \* what some Flush that returned nil has waited for
    consumer,   \* Transport.consumer
    opened,     \* consumers with an open kgo client
    created,    \* consumers created so far
    strays,     \* kgo clients left open by constructors that failed
    raced,      \* a Subscribe overlapped another one, or a Close
    panicked,   \* nil dereference
    fails       \* failures so far

producer == <<made, attempt, schemaID, connected, answered>>
messages == <<count, framed, returned, settled>>
client == <<buffer, finishing, running>>
memory == <<mutex, hold, pending>>
calls == <<pc, own, taken, due, flushed>>
consuming == <<consumer, opened, created, raced>>
config == <<kind, resolver, sync>>
vars == <<config, producer, messages, client, memory, calls, consuming, strays,
          panicked, fails>>

\* Every variable within its range; a message is in the state its place says.
TypeOK ==
    /\ kind \in {"none", "basic", "memory", "holding"}
    /\ resolver \in BOOLEAN /\ sync \in BOOLEAN
    /\ made \in {"resolving", "dialing", "pinging", "ready", "failed"}
    /\ attempt \in 0..Attempts /\ schemaID \in 0..IDModulus-1
    /\ connected \in BOOLEAN /\ answered \subseteq Answers
    /\ count \in 0..MaxMsgs
    /\ framed \subseteq 1..count /\ returned \subseteq 1..count
    /\ settled \subseteq 1..count /\ buffer \subseteq 1..count
    /\ finishing \in Seq(1..count) /\ pending \in Seq(1..count)
    /\ running \in 0..count
    /\ mutex \in Callers \union {None} /\ hold \in BOOLEAN
    /\ pc \in [Callers -> {"idle", "sync", "flush", "callback", "callbacks",
                           "stuck", "creating", "created", "subscribed", "closing"}]
    /\ own \in [Callers -> 0..count] /\ taken \in [Callers -> Seq(1..count)]
    /\ due \in [Callers -> SUBSET (1..count)]
    /\ flushed \subseteq 1..count
    /\ consumer \in {None, TypedNil} \union Consumers
    /\ opened \subseteq 1..created /\ created \in 0..Cardinality(Consumers)
    /\ strays \in 0..MaxFails
    /\ raced \in BOOLEAN /\ panicked \in BOOLEAN
    /\ fails \in 0..MaxFails

Init ==
    /\ kind \in Kinds
    /\ resolver \in IF kind = "basic" THEN BOOLEAN ELSE {FALSE}
    /\ sync \in BOOLEAN
    /\ made = IF kind # "basic" THEN "ready"
              ELSE IF resolver THEN "resolving" ELSE "dialing"
    /\ attempt = 0 /\ schemaID = 0 /\ connected = FALSE /\ answered = {}
    /\ count = 0 /\ framed = {} /\ returned = {} /\ settled = {}
    /\ buffer = {} /\ finishing = <<>> /\ running = None
    /\ mutex = None /\ hold = FALSE /\ pending = <<>>
    /\ pc = [c \in Callers |-> "idle"] /\ own = [c \in Callers |-> None]
    /\ taken = [c \in Callers |-> <<>>]
    /\ due = [c \in Callers |-> {}] /\ flushed = {}
    /\ consumer = None /\ opened = {} /\ created = 0 /\ strays = 0
    /\ raced = FALSE /\ panicked = FALSE
    /\ fails = 0

Fail == fails < MaxFails /\ fails' = fails + 1
Goes(c, where) == pc' = [pc EXCEPT ![c] = where]
Idle(c) == made = "ready" /\ pc[c] = "idle"

-----------------------------------------------------------------------------
(* NewProducer *)

\* Mutant: Resolve asks once more than it may.
RefusedOnceMore ==
    /\ made = "resolving"
    /\ attempt' = attempt + 1
    /\ IF attempt' > Attempts THEN made' = "failed" /\ Fail
                              ELSE UNCHANGED <<made, fails>>
    /\ UNCHANGED <<config, schemaID, answered, connected, messages, client, memory,
                   calls, consuming, strays, panicked>>

\* Resolve asks again after an answer that is not 200, up to Attempts times.
Refused ==
    /\ made = "resolving"
    /\ attempt' = attempt + 1
    /\ IF attempt' = Attempts THEN made' = "failed" /\ Fail
                              ELSE UNCHANGED <<made, fails>>
    /\ UNCHANGED <<config, schemaID, answered, connected, messages, client, memory,
                   calls, consuming, strays, panicked>>

\* uint32(body.ID): some answers come to zero.
Resolved(answer) ==
    /\ made = "resolving"
    /\ schemaID' = answer % IDModulus /\ answered' = {answer}
    /\ made' = "dialing"
    /\ UNCHANGED <<config, attempt, connected, messages, client, memory, calls,
                   consuming, strays, panicked, fails>>

\* Mutant: NewProducer goes on without a schema ID.
ResolveFailsSilently ==
    /\ made = "resolving" /\ Fail
    /\ made' = "dialing"
    /\ UNCHANGED <<config, attempt, schemaID, answered, connected, messages, client,
                   memory, calls, consuming, strays, panicked>>

\* A request that fails, or a body that does not decode, is not tried again.
ResolveFails ==
    /\ made = "resolving" /\ Fail
    /\ made' = "failed"
    /\ UNCHANGED <<config, attempt, schemaID, answered, connected, messages, client,
                   memory, calls, consuming, strays, panicked>>

Dial ==
    /\ made = "dialing"
    /\ \/ made' = "pinging" /\ connected' = TRUE /\ UNCHANGED fails
       \/ made' = "failed" /\ UNCHANGED connected /\ Fail
    /\ UNCHANGED <<config, attempt, schemaID, answered, messages, client, memory, calls,
                   consuming, strays, panicked>>

\* A failed ping leaves the client open, with nobody to close it.
PingReturns ==
    /\ made = "pinging"
    /\ \/ made' = "ready" /\ UNCHANGED <<connected, strays, fails>>
       \/ /\ made' = "failed" /\ Fail
          /\ connected' = FALSE /\ strays' = strays + 1
    /\ UNCHANGED <<config, attempt, schemaID, answered, messages, client, memory, calls,
                   consuming, panicked>>

\* The program tries NewProducer again.
Retry ==
    /\ made = "failed"
    /\ made' = IF resolver THEN "resolving" ELSE "dialing"
    /\ attempt' = 0 /\ schemaID' = 0 /\ answered' = {}
    /\ UNCHANGED <<config, connected, messages, client, memory, calls, consuming,
                   strays, panicked, fails>>

-----------------------------------------------------------------------------
(* BasicProducer *)

\* The header goes before the value, synchronously published or not.
Frame(m) == framed' = IF schemaID = 0 THEN framed ELSE framed \union {m}

Produce(m) ==
    /\ IF connected THEN buffer' = buffer \union {m} /\ UNCHANGED finishing
                    ELSE finishing' = Append(finishing, m) /\ UNCHANGED buffer
    /\ UNCHANGED running

New == count < MaxMsgs /\ count' = count + 1

BasicPublishAsync(c) ==
    /\ kind = "basic" /\ Idle(c) /\ ~sync /\ New
    /\ Frame(count') /\ Produce(count')
    /\ returned' = returned \union {count'}
    /\ UNCHANGED <<config, producer, settled, memory, calls, consuming, strays,
                   panicked, fails>>

BasicPublish(c) ==
    /\ kind = "basic" /\ Idle(c) /\ sync /\ New
    /\ Frame(count') /\ Produce(count')
    /\ own' = [own EXCEPT ![c] = count'] /\ Goes(c, "sync")
    /\ UNCHANGED <<config, producer, returned, settled, memory, taken, due,
                   flushed, consuming, strays, panicked, fails>>

SyncReturns(c) ==
    /\ pc[c] = "sync" /\ own[c] \in settled
    /\ returned' = returned \union {own[c]}
    /\ own' = [own EXCEPT ![c] = None] /\ Goes(c, "idle")
    /\ UNCHANGED <<config, producer, count, framed, settled, client, memory, taken,
                   due, flushed, consuming, strays, panicked, fails>>

\* The broker acknowledges a record, or kgo gives up on it.
RecordDone(m) ==
    /\ m \in buffer
    /\ buffer' = buffer \ {m} /\ finishing' = Append(finishing, m)
    /\ UNCHANGED <<config, producer, messages, running, memory, calls, consuming,
                   strays, panicked, fails>>

PromiseRuns ==
    /\ running = None /\ finishing # <<>>
    /\ running' = Head(finishing) /\ finishing' = Tail(finishing)
    /\ UNCHANGED <<config, producer, messages, buffer, memory, calls, consuming,
                   strays, panicked, fails>>

\* The callback publishes: Produce does not wait for promises.
PromisePublishes ==
    /\ running # None /\ ~sync /\ New
    /\ Frame(count') /\ Produce(count')
    /\ returned' = returned \union {count'}
    /\ UNCHANGED <<config, producer, settled, memory, calls, consuming, strays,
                   panicked, fails>>

PromiseReturns ==
    /\ running # None
    /\ settled' = settled \union {running} /\ running' = None
    /\ UNCHANGED <<config, producer, count, framed, returned, buffer, finishing,
                   memory, calls, consuming, strays, panicked, fails>>

-----------------------------------------------------------------------------
(* MemoryProducer: a goroutine that has to wait for the mutex does not move *)

InMemory == kind \in {"memory", "holding"}

MemoryPublish(c) ==
    /\ InMemory /\ Idle(c) /\ mutex = None /\ sync /\ New
    /\ settled' = settled \union {count'} /\ returned' = returned \union {count'}
    /\ UNCHANGED <<config, producer, framed, client, memory, calls, consuming,
                   strays, panicked, fails>>

\* PublishAsync by c, which is idle or in a callback it runs without the mutex:
\* the callback is kept, or runs at once, under the mutex.
MemoryPublishAsync(c) ==
    /\ InMemory /\ (Idle(c) \/ pc[c] = "callbacks")
    /\ mutex = None /\ ~sync /\ New
    /\ IF hold
       THEN /\ pending' = Append(pending, count')
            /\ returned' = returned \union {count'}
            /\ UNCHANGED <<mutex, pc, own>>
       ELSE /\ mutex' = c /\ Goes(c, "callback") /\ own' = [own EXCEPT ![c] = count']
            /\ UNCHANGED <<pending, returned>>
    /\ UNCHANGED <<config, producer, framed, settled, client, hold, taken, due,
                   flushed, consuming, strays, panicked, fails>>

CallbackReturns(c) ==
    /\ pc[c] = "callback"
    /\ settled' = settled \union {own[c]} /\ returned' = returned \union {own[c]}
    /\ mutex' = None /\ own' = [own EXCEPT ![c] = None]
    /\ Goes(c, IF taken[c] = <<>> THEN "idle" ELSE "callbacks")
    /\ UNCHANGED <<config, producer, count, framed, client, hold, pending, taken,
                   due, flushed, consuming, strays, panicked, fails>>

\* The callback publishes: it waits for the mutex that its own caller holds.
CallbackPublishes(c) ==
    /\ pc[c] = "callback"
    /\ Goes(c, "stuck")
    /\ UNCHANGED <<config, producer, messages, client, memory, own, taken, due,
                   flushed, consuming, strays, panicked, fails>>

\* What was held stays held until FlushCallbacks.
HoldCallbacks(c) ==
    /\ kind = "holding" /\ Idle(c) /\ mutex = None
    /\ hold' = ~hold
    /\ UNCHANGED <<config, producer, messages, client, mutex, pending, calls,
                   consuming, strays, panicked, fails>>

\* Mutant: the list is emptied when its callbacks have run.
FlushCallbacksKeeps(c) ==
    /\ kind = "holding" /\ Idle(c) /\ mutex = None /\ pending # <<>>
    /\ taken' = [taken EXCEPT ![c] = pending] /\ Goes(c, "callbacks")
    /\ UNCHANGED <<config, producer, messages, client, memory, own, due, flushed,
                   consuming, strays, panicked, fails>>

\* Two of them at once have disjoint lists.
FlushCallbacks(c) ==
    /\ kind = "holding" /\ Idle(c) /\ mutex = None /\ pending # <<>>
    /\ taken' = [taken EXCEPT ![c] = pending] /\ pending' = <<>>
    /\ Goes(c, "callbacks")
    /\ UNCHANGED <<config, producer, messages, client, mutex, hold, own, due,
                   flushed, consuming, strays, panicked, fails>>

HeldCallbackReturns(c) ==
    /\ pc[c] = "callbacks"
    /\ settled' = settled \union {Head(taken[c])}
    /\ taken' = [taken EXCEPT ![c] = Tail(@)]
    /\ Goes(c, IF Len(taken[c]) = 1 THEN "idle" ELSE "callbacks")
    /\ UNCHANGED <<config, producer, count, framed, returned, client, memory, own,
                   due, flushed, consuming, strays, panicked, fails>>

-----------------------------------------------------------------------------
(* Flush *)

\* Mutant: Flush waits for the broker, not for the promises.
NothingInBuffer == buffer = {}

Flushed == buffer = {} /\ finishing = <<>> /\ running = None

\* MemoryProducer.Flush does nothing, and says so with nil.
FlushMemory(c) ==
    /\ InMemory /\ Idle(c) /\ returned \ flushed # {}
    /\ flushed' = flushed \union returned
    /\ UNCHANGED <<config, producer, messages, client, memory, pc, own, taken, due,
                   consuming, strays, panicked, fails>>

FlushBegins(c) ==
    /\ kind = "basic" /\ Idle(c)
    /\ Goes(c, "flush") /\ due' = [due EXCEPT ![c] = returned]
    /\ UNCHANGED <<config, producer, messages, client, memory, own, taken, flushed,
                   consuming, strays, panicked, fails>>

FlushEnds(c) ==
    /\ pc[c] = "flush"
    /\ \/ Flushed /\ flushed' = flushed \union due[c]
       \/ UNCHANGED flushed   \* its context has ended: an error
    /\ due' = [due EXCEPT ![c] = {}] /\ Goes(c, "idle")
    /\ UNCHANGED <<config, producer, messages, client, memory, own, taken,
                   consuming, strays, panicked, fails>>

-----------------------------------------------------------------------------
(* Subscribe *)

Busy(where) == \E c \in Callers : pc[c] \in where

\* Mutant: the transport does not look whether it has a consumer.
SubscribeUnchecked(c) ==
    /\ Idle(c)
    /\ Goes(c, "creating")
    /\ raced' = (raced \/ Busy({"creating", "closing"}))
    /\ UNCHANGED <<config, producer, messages, client, memory, own, taken, due,
                   flushed, consumer, opened, created, strays, panicked,
                   fails>>

\* With a consumer, a failed one included, it is refused and changes nothing.
Subscribe(c) ==
    /\ Idle(c) /\ consumer = None
    /\ Goes(c, "creating")
    /\ raced' = (raced \/ Busy({"creating", "closing"}))
    /\ UNCHANGED <<config, producer, messages, client, memory, own, taken, due,
                   flushed, consumer, opened, created, strays, panicked,
                   fails>>

NewConsumer(c) ==
    /\ pc[c] = "creating"
    /\ created' = created + 1 /\ consumer' = created'
    /\ opened' = opened \union {created'}
    /\ Goes(c, "created")
    /\ UNCHANGED <<config, producer, messages, client, memory, own, taken, due,
                   flushed, raced, strays, panicked, fails>>

\* The nil *BasicConsumer of the error return goes into the interface field.  A
\* ping that fails leaves a client open.
NewConsumerFails(c) ==
    /\ pc[c] = "creating" /\ Fail
    /\ consumer' = TypedNil /\ Goes(c, "idle")
    /\ strays' \in {strays, strays + 1}
    /\ UNCHANGED <<config, producer, messages, client, memory, own, taken, due,
                   flushed, opened, created, raced, panicked>>

\* Subscribe reads the field again, which another Subscribe may have set since.
Start(c) ==
    /\ pc[c] = "created"
    /\ IF consumer = TypedNil
       THEN panicked' = TRUE /\ UNCHANGED pc
       ELSE /\ Goes(c, IF consumer \in opened THEN "subscribed" ELSE "idle")
            /\ UNCHANGED panicked
    /\ UNCHANGED <<config, producer, messages, client, memory, own, taken, due,
                   flushed, consuming, strays, fails>>

\* Its handler returns an error, its context ends, or its client was closed.
SubscribeEnds(c) ==
    /\ pc[c] = "subscribed"
    /\ \/ opened = {} /\ UNCHANGED fails
       \/ Fail
    /\ Goes(c, "idle")
    /\ UNCHANGED <<config, producer, messages, client, memory, own, taken, due,
                   flushed, consuming, strays, panicked>>

-----------------------------------------------------------------------------
(* Close and Ping *)

\* Mutant: a consumer that is being closed stays open.
CloseLeavesConsumer(c) ==
    /\ Idle(c) /\ consumer # TypedNil
    /\ Goes(c, "closing")
    /\ raced' = (raced \/ Busy({"creating", "created"}))
    /\ UNCHANGED <<config, producer, messages, client, memory, own, taken, due,
                   flushed, consumer, opened, created, strays, panicked,
                   fails>>

CloseConsumer(c) ==
    /\ Idle(c) /\ consumer # TypedNil
    /\ opened' = opened \ {consumer} /\ Goes(c, "closing")
    /\ raced' = (raced \/ Busy({"creating", "created"}))
    /\ UNCHANGED <<config, producer, messages, client, memory, own, taken, due,
                   flushed, consumer, created, strays, panicked, fails>>

\* kgo fails what it has buffered; MemoryProducer.Close does nothing.
CloseProducer(c) ==
    /\ pc[c] = "closing"
    /\ connected' = FALSE
    /\ \E order \in SetToSeqs(buffer) : finishing' = finishing \o order
    /\ buffer' = {} /\ Goes(c, "idle")
    /\ UNCHANGED <<config, made, attempt, schemaID, answered, messages, running,
                   memory, own, taken, due, flushed, consuming, strays, panicked, fails>>

\* Close and Ping call the nil *BasicConsumer, Publish the nil producer.
NilDereference(c) ==
    /\ Idle(c) /\ (consumer = TypedNil \/ kind = "none")
    /\ panicked' = TRUE
    /\ UNCHANGED <<config, producer, messages, client, memory, calls, consuming,
                   strays, fails>>

-----------------------------------------------------------------------------

Next ==
    /\ ~panicked
    /\ \/ Refused \/ (\E a \in Answers : Resolved(a)) \/ ResolveFails
       \/ Dial \/ PingReturns \/ Retry
       \/ \E m \in Msgs : RecordDone(m)
       \/ PromiseRuns \/ PromisePublishes \/ PromiseReturns
       \/ \E c \in Callers :
             \/ BasicPublishAsync(c) \/ BasicPublish(c) \/ SyncReturns(c)
             \/ MemoryPublish(c) \/ MemoryPublishAsync(c)
             \/ CallbackReturns(c) \/ CallbackPublishes(c)
             \/ HoldCallbacks(c) \/ FlushCallbacks(c) \/ HeldCallbackReturns(c)
             \/ FlushMemory(c) \/ FlushBegins(c) \/ FlushEnds(c)
             \/ Subscribe(c) \/ NewConsumer(c)
             \/ NewConsumerFails(c) \/ Start(c) \/ SubscribeEnds(c)
             \/ CloseConsumer(c) \/ CloseProducer(c) \/ NilDereference(c)

Spec == Init /\ [][Next]_vars

-----------------------------------------------------------------------------
(* Properties *)

\* Both producers keep the promises of rp.Producer, whatever callbacks do and
\* however Close cuts in: settled once, and before Flush returns nil.  A program
\* that holds callbacks back has no such promise of Flush.
Contract == INSTANCE Producer WITH
    published <- 1..count,
    due <- IF kind = "holding" THEN [c \in Callers |-> {}] ELSE due,
    flushed <- IF kind = "holding" THEN {} ELSE flushed

ImplementsProducer == Contract!Spec

\* The places a message that is not settled can be in.
Places(m) ==
    {q \in {"buffer", "finishing", "running", "pending"} :
        CASE q = "buffer" -> m \in buffer
          [] q = "finishing" -> m \in ToSet(finishing)
          [] q = "running" -> m = running
          [] OTHER -> m \in ToSet(pending)}
    \union {c \in Callers : pc[c] \in {"callback", "stuck"} /\ own[c] = m}
    \union {c \in Callers : m \in ToSet(taken[c])}

\* No callback is lost or doubled between HoldCallbacks, FlushCallbacks of
\* several goroutines, publishing callbacks and Close: an unsettled message is in
\* exactly one place, a settled one in none.
Accounted ==
    \A m \in 1..count :
        Cardinality(Places(m)) = IF m \in settled THEN 0 ELSE 1

\* With a resolver NewProducer gives no producer that has not the registry's answer,
\* however often and wherever it failed before, and then either every record has a
\* header or none has: a callback's, a synchronous and an asynchronous one alike.
FramedAsAnswered ==
    /\ resolver /\ count > 0 => \E a \in answered : schemaID = a % IDModulus
    /\ framed = IF schemaID = 0 THEN {} ELSE 1..count

\* Unless calls overlapped, Close leaves no consumer and no producer client
\* open, and a transport never has two consumers.
CloseStops ==
    [][\A c \in Callers :
         pc[c] = "closing" /\ pc'[c] = "idle" /\ ~raced' =>
            opened' = {} /\ ~connected']_vars
OneConsumer == ~raced => Cardinality(opened) <= 1
=============================================================================
