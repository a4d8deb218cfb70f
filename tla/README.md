# readpanda: a TLA+ verification development

readpanda is a terminal UI for Redpanda and Kafka (`internal/tui`, on the
bubbletea event loop) over a small client library (`pkg/rp`, on franz-go).
This directory models the parts of it whose correctness depends on order:
what goroutines, messages, timers, cancellations, rebalances, failing requests
and crashes do to each other. TLC checks the models on small instances; TLAPS
proves their invariants, and two refinements, for every instance.

Paths below are relative to the repository root; a file without a directory is
in `internal/tui` or `pkg/rp`, as the inventory says.

## 1. Inventory

| Component | State | Operations | What makes it hard |
|---|---|---|---|
| Live tail (`internal/tui/tail_view.go`, `pkg/rp/tail.go`) | latest session (client, context, `msgCh`, `errCh`), `paused`, `lines`; older sessions' goroutines and channels | `start`, `stop`, `pump`, `Update`, `Run` | a session is outlived by its goroutine, its waiting pumps and its messages; messages do not name their session |
| App (`app.go`) | `current`, `prev`, `cmdMode`, `admin`, `registry`, `prof`, `connected`, `lastErr` | `Update`, `handleKey`, `runCommand`, `switchView`, `applyProfileSwitch`, `Close` | a message goes to the view shown when it arrives, not to the one that asked |
| Topics, groups, brokers views | rows, `errored`, filter, (tree) | `load`, `tick`, `Update` | each keeps itself polling by a chain load -> tick -> load that any lost message ends |
| Topic detail view | `target`, three loaded parts, `err`, `tab` | `Init`, three loads, `reloadCurrentTab`, `Stop` | the loads return in any order, after any change of topic |
| Contexts, help views | none of their own | `enter`; scrolling | profile switch while loads of the old client are under way |
| Topic tree, row filter | nodes, `expanded`; `active`, `query` | insert, toggle, collapse, visible rows; key handling | a topic that is a prefix of another; refresh merges the old expand state |
| Value decoding (`format.go`, `proto_decode.go`) | compiled files by schema ID | `decodeValue`, message indexes, collection of imports | malformed headers, imports in diamonds and circles, failed lookups |
| Schema registry and resolver | schemas by ID | fetch by ID / by subject and version, `Resolve` with retries, header helpers | concurrent misses, retries, byte-exact framing |
| Group consumer (`consumer.go`) | kgo client, `partitionsReady`, `closed`; at the broker the group's offsets | `Subscribe`, `PollBatch` + `Commit`, `Poll`, `Close` | commit, rebalance lock, auto-commit, eviction, crash and lost replies interleave |
| Producer, in-memory producer | kgo client, `schemaID`; recorded messages, held callbacks | `NewProducer`, publish, async publish with callback, flush, close | constructors that fail half-way, callbacks under a mutex |
| Transport (`transport.go`) | one producer, single consumer | `Publish`, `Flush`, `Subscribe`, `Ping`, `Close` | an unlocked field that several goroutines read and write |
| Admin client | kadm client | `DescribeTopic`, lists | one answer out of five requests to a cluster that changes meanwhile |
| Profile resolution (`internal/profile`, `cmd/readpanda`) | rpk file, flags, environment | load, find, resolve, make clients | precedence; a switch makes the clients anew |
| Metrics, tracing, rendering, demo | counters; none | hooks; drawing | none that depends on order |

How they interact: the App owns the event loop. A key or message is handled by
`App.Update` on one goroutine, which returns commands; bubbletea runs every
command on its own goroutine and feeds the message it returns back to
`Update`. Views call the admin client only inside commands. The tail has, in
addition, a goroutine of its own that talks to the event loop through a
channel and a *pump* command that waits on it; its records are decoded, with
requests to the registry, inside `Update`. Nothing in `internal/tui` uses the
group consumer, the producers or the transport, which are the library's API for
other programs; they meet the UI in the wire format.

`PROJECT.json` lists the hazards at the lines where they bite, with the
properties that watch them, and maps every definition to the lines it models.

## 2. Modules

| Module | What it is |
|---|---|
| `LiveTail` | the tail with its sessions, goroutines, pumps and the view switching around it |
| `TailFeed` | abstract: per session, consecutive offsets are fetched, handled once and in order, and shown if the user is watching |
| `LiveTailFeed` | the refinement mapping from `LiveTail` to `TailFeed` |
| `AppShell` | event loop, refresh chains, detail loads, errors, profile switch |
| `GroupConsumer` | the three consumption APIs over a kgo client and a broker |
| `TopicTree` | the topic tree, its expand state, the row filter and the rows of the topics view |
| `Producer` | abstract: what a program may expect of `rp.Producer` |
| `Transport` | constructor, publishing, flushing, subscribing and closing over either producer, from several goroutines; shown to implement `Producer` |
| `WireFormat` | values as bytes: what senders put before a payload and what receivers take for a header |
| `SchemaDecoding` | decoder, protobuf decoder and registry cache under concurrent and failing requests; uses `WireFormat` |
| `Profile` | the rpk file, flags and environment, and the clients made of them |
| `AdminClient` | `DescribeTopic` over a cluster that changes between its requests |
| `Session` | start, profile switches and describes of one program run; composes `Profile` and `AdminClient` |
| `MCLiveTail`, `MCGroupConsumer`, `MCTopicTree`, `MCSchemaDecoding`, `MCSession` | the same for TLC: configurations, names, records, command lines |
| `LiveTailProofs`, `LiveTailFeedProofs`, `AppShellProofs`, `GroupConsumerProofs`, `TransportProofs`, `SchemaDecodingProofs`, `SessionProofs`, `TopicTreeProofs` | theorems |

An operator with the comment *Mutant* is a wrong version of the definition
that follows it; no specification uses it. It documents which mistake the
properties notice.

### LiveTail

A *session* is one `TailView.start` that got a consumer; `consumer` is the
number of the one the view holds, `live` the sessions whose context is not
cancelled. `pc[s]` is where the session's `Run` goroutine is, `fetched[s]` and
`sent[s]` delimit its batch, `msgCh[s]`/`errCh[s]` are its channels, `pumps[s]`
the commands waiting on them and `inflight` the tail messages on their way to
`Update`. A message carries its session in the model only so that properties
can speak of it. Keys and messages are actions of the event loop
(`KeyPause`, `KeyReload`, `LeaveFor`, `TailUpdate`, ...), `Attach`, `Fetch`,
`Send`, ... are steps of a session's goroutine, `PumpRecord`/`PumpError` of a
pump's.

Abstractions: a topic is one partition (a tail promises nothing across
partitions); `NewTailConsumer` succeeds or fails freely; what the enter
command's unsynchronised write of `target` does to a concurrent read is the
value `Torn`; record formatting is left out.

### AppShell

A load is an entry `[kind, client, topic]` counted in `loads` from the command
that starts it to the message that ends it; whether it succeeds is chosen at
delivery, which loses nothing because `Update` cannot see when the answer was
settled. `enter` on a topic needs rows, that is, a list that was loaded.
`ticks` counts `tickMsg`s, which do not say whose they are. `shown[v]` is the
client a list's rows came from and `detail[k]` the topic a part of the detail
view came from. `ListLoaded`, `DetailLoaded`, `LoadedIgnored` and `LoadFails`
are what `Update` does with the message in the view shown then. `TabShows(k)`
is what the tab filled by load `k` says (`refresh`: the error of the view goes
first), and `cleared` a history variable, that a describe has taken an error
away since `Init`. Which tab is open and filters only restrict which keys do
what and are left out.

### GroupConsumer

The program is one goroutine using one API per process, one batch at a time
(`pc`, `batch`). The client is external (`assigned`, `pos`, `head`, `known`,
`lock`), and so is the broker (`committed`, `member`). External behaviour is
modelled from the options and calls of `consumer.go`: a poll holds rebalances
off until `AllowRebalance` when `BlockRebalanceOnPoll` is set, the default
auto-commit covers the polls before the last one, the broker refuses commits of
a member it evicted. `OtherMember` is the rest of the group. `aborted` and
`resumed` record that a process dropped polled records, and that it polled
again after that; `asked` and `ours` what the program asked to commit and which
offsets stem from it.

### TopicTree

A topic name is the sequence of its segments, a node the path to it, and the
tree the set of topics it was built from: `insert` is the prefix closure
`Nodes`, a leaf a node that is a topic. `Children`, `WalkVisible` and `Matched`
are `childKeys`, `walkVisible` and `walkMatch` of `topic_tree.go`, the walks as
recursive functions on the nodes; `Kept` is the loop that drops rows. The
properties compare what they return with definitions that do not walk. A load
brings finitely many topics (`FiniteTopics`) out of any set `Names`.
`expanded` is a function on the paths the map has an entry for, because a
missing entry and a false one differ when the next load comes; `collapsed` is a
history variable, that `O` was pressed since the last load. The actions are
the loaded message and the keys of `TopicsView.Update` and `filter.Handle`;
each computes `rows` again where the code calls `refreshRows`. Names with an
empty segment (a leading dot), case and blanks are left out, and so are the
counts of a branch and the keys the App takes before the view (`q`, `:`, `?`).

### Producer and Transport

`Producer` says what `rp.go` promises for both producers: a message is settled
once (callback run, or synchronous publish done), and a `Flush` that returns
nil has waited for what was published before. `Transport` is the code. `made`
walks through `NewProducer` (resolving with up to five attempts, dialing,
pinging). The registry answers with any of `Answers`, which the history
variable `answered` keeps; `schemaID` is what is left of it in four bytes
(`IDModulus`), where zero is also what a producer without resolver has.
`pc[c]` is where each goroutine is, `buffer`, `finishing` and `running` are
kgo's records (external: promises run one by one and a record counts as
buffered until its promise has returned), `mutex`, `hold` and `pending` the
in-memory producer's. A callback either returns or publishes another message:
over kgo that goes through, under the in-memory producer's mutex the goroutine
is `stuck`. `consumer` is the interface field, with `None` and the `TypedNil`
that a failed constructor leaves; `raced` says that calls overlapped which the
unlocked field does not survive. The contract is not asked of `Flush` in a
program that holds callbacks, since it returns at once there.

### WireFormat and SchemaDecoding

Values are sequences of bytes, because every property is about where the
header ends. Three serializers are modelled: this library's (ID and one zero
byte), Confluent's protobuf (ID, count and indexes as varints) and Avro (ID
only); of these the first is `prependSchemaHeader`, the last is in
`demo/traffic`, the second is external. Receivers are `ExtractSchemaID`,
`stripSchemaHeaders` and `parseProtoMessageIndexes`, which makes a list of the
capacity it reads: a negative one, or one beyond `MaxCap`, panics. In
`SchemaDecoding` several goroutines decode records (`rec`, `info`, `sources`,
`todo`), with the registry's cache `byID` read under one lock and written
under another, so that misses overlap, and `fileCache` the compiled files. A
schema is one version of one file; a reference is the file name it is imported
by and the schema that its subject and version name, and `sources` maps names
to schemas, so that two versions under one name meet as they do in
`collectReferences`. What a schema leads to is the least set that has its
references and theirs (`Imports`), which is not how the code collects it.
Requests fail up to `MaxFaults` times, at any of them. The compiler and what
payload bytes mean are external: a file compiles if the names it imports are
found and run in no circle, and may or may not when an import is another
version than its reference names (`Skewed`).

### Profile, AdminClient and Session

In `Profile` every name, address, user and password is represented by the place
it stems from, so a mixture shows; `LoadFrom`, `ToProfile`, `ResolveProfile`,
`AdminOf` and `RegistryOf` are the code's functions, without state. In
`AdminClient` a `DescribeTopic` makes its five requests one after the other, and
between any two of them records are appended and deleted, leaders move and the
topic is deleted and made again; each request may fail. `Session` puts both
together: what the App holds (`prof`, `admin`, `registry`, `connected`), switches
that fail or succeed, a describe whose client the switch closes (`mine`), and
`ErrorMsg`, any load that fails, after which the header no longer says
connected although the client is open.

## 3. Runs

| Run | Module | Shows |
|---|---|---|
| TailFeed | LiveTailFeed | one live consumer at most, an unbroken pump chain, no record shown twice across two sessions, and the refinement of `TailFeed`: a session's records are handled once and in order |
| TailLiveness | MCLiveTail | fetched records get handled with a full channel; stopped goroutines end |
| AppRefresh | AppShell | refresh goes on, pauses are announced, clients are accounted for, the lists arrive at something, and so do the tabs of the detail view unless a describe cleared another load's error |
| Group | MCGroupConsumer | `Subscribe` and `PollBatch` lose nothing, `Poll` repeats nothing, the lock is free between calls, commits are those asked for and monotone, over two troubles of any kind |
| TopicsTree | MCTopicTree | the rows are what tree, expand state and filter call for; a refresh closes nothing, and opens nothing that was there unless `O` was pressed |
| Publishing | Transport | no callback lost or doubled, the refinement of `Producer`, every record under the header of the ID answered unless that comes to zero, and, for calls that do not overlap, one consumer at most and a `Close` that closes what the transport holds (not clients that failed constructors left, nor the typed nil) |
| Decoding | MCSchemaDecoding | what is shown is what was sent, cached files are complete and have nothing foreign, failures leave no trace, decoding returns if requests do |
| Session | MCSession | the clients are those of the profile shown, with its own credentials; the estimates of `DescribeTopic` err on the side they are said to |
| AppDetail | AppShell | *violation*, see below |
| GroupSkip | MCGroupConsumer | *violation* |
| TreeHidden | MCTopicTree | *violation* |
| DecodePanic | MCSchemaDecoding | *violation* |

Bounds.
- *Tail*: two sessions give a current and a stale one, with two pumps in one
  channel pair when the stale one's last message comes late. Capacity 1 makes
  the channel full at once, a window of one or two lines trims at once, and
  three offsets give a batch longer than the channel (one sent, one waiting, one
  to come). `MaxOpens = 1` leaves one enter command outstanding; two of them
  (`Torn`), and any number of sessions, are covered by the proofs.
- *AppRefresh*: two list views and two clients are the smallest number with a
  foreign one of each; `MaxOutstanding` limits keys, never messages, so chains
  meet whatever comes.
- *Group*: eleven pairs of configuration and API: synchronous commits with each
  API, auto-commit with both APIs that handle a batch first, no commits, and
  rebalances that do not wait. Two partitions with two records allow a partial
  batch; two troubles allow, for instance, a lost commit reply and then a crash.
- *TopicsTree*: names of one to three segments: a branch below a branch, a topic
  on the first level, and a topic on the way to two others, in every subset;
  two characters of filter match segments and the dot.
- *Publishing*: two goroutines and three messages: one to hold, one published
  by a callback, one from the other goroutine; two failures allow a constructor
  that fails twice, or a producer's and a consumer's. `IDModulus` is 16 instead
  of 2^32 and the answers 16 and 23: one comes to zero, and one loses a bit.
- *Decoding*: schemas that import each other in a diamond (one file met on two
  ways), in a circle, in two versions of one file (schema 8), and an Avro schema;
  a record of each serializer with the first and a nested message and an empty
  payload, and records with no header, no schema, a missing index, and counts
  below zero and beyond `MaxCap` (100 here). Two goroutines can miss the same ID
  and the cached file; one fault hits any one request.
- *Session*: an rpk file that is missing, broken or has four profiles (complete;
  without brokers; without registry; with half a login), flags of the cluster and
  of the registry alone and together; two switches: one that fails
  and one after it. One partition on two brokers with offsets up to 2 and one
  leader move or recreation: the answers are sums over partitions.

`CHECK_DEADLOCK FALSE` is set where the system may rest: a program that quit or
panicked, a user who does nothing, a consumer at the end of its log or waiting
in `Close`, a goroutine stuck on its own mutex, and bounds that are used up.

Fairness. In `LiveTail`, the Go scheduler runs a goroutine that can go on
(`PollCancelled`, `Send`, `SendCancelled`, the pumps) and the event loop takes
every message. Nothing is assumed of users, producers and brokers: `Fetch`,
`FetchError`, `Attach` and keys may never happen. In `AppShell`, a list's load
returns since its context has a timeout of 10 to 15 s, and a timer fires. In
`SchemaDecoding` a goroutine that decodes goes on: a request to the registry
returns, with an answer or an error, within the timeout of its HTTP client. The
other modules have no liveness properties and no fairness.

Refinements. `ImplementsFeed` and `ImplementsProducer` are checked by TLC, step
by step, against `TailFeed` and `Producer`; both are safety specifications.

### Disagreements the runs show

- **AppDetail.** A load of the topic opened before lands in the detail view of
  the current one and stays: messages do not carry their topic, and "Init
  resets per-topic state" (`topic_detail_view.go:89`) resets only what has
  already arrived.
- **GroupSkip.** "pass a cancelled context so offsets are skipped"
  (`consumer.go:424`) holds for synchronous commits. Under auto-commit the
  client commits the batch with a later poll whatever `Commit` was told.
- **TreeHidden.** A node that is a topic is a leaf for both walks. With topics
  `orders` and `orders.dlq` the second is never shown, nor found by a filter
  that matches it ("so matches are reachable", `topic_tree.go:142`).
- **DecodePanic.** `binary.Varint` yields negative and huge counts and
  `parseProtoMessageIndexes` makes a list of that capacity, which panics in the
  event loop, although "Err is set when decoding failed; Text falls back to a
  safe rendering" (`format.go:29`).

### Other observations made while modelling

No run is spent on these. Where the models cover the code they behave this way
too; the properties are stated so that they hold of what the code does do.

- The describe that succeeds clears the error of a groups load that failed
  (`topic_detail_view.go:122`), and the consumers tab says "loading consumer
  groups…" with none under way (`cleared` in `TabsAlive`); after a failed describe
  the summary line says "loading…" for ever, since `renderSummaryLine` (`:196`) does
  not look at the error.
- `O` deletes the expand entries and a new tree opens its first level, so the
  next refresh undoes it (`topic_tree.go:127`; "Preserve expand state on
  refresh.", `topics_view.go:90`; `collapsed` in `RefreshKeepsChoices`).
- Imports are fetched by subject and version ("SR references identify imports by
  (subject, version)", `schema_registry.go:85`) but kept by name
  (`proto_decode.go:117`): of two versions below one root the one met first is
  used for both importers, and if that compiles it is cached (`Unambiguous` in
  `ImportsComplete`).
- An answer of the registry without an ID, or with a multiple of 2^32, resolves
  to zero (`schema_resolver_http.go:57`), which the producer takes for no
  resolver: it sends bare records, against "returns an error ... instead of
  silently publishing without wire-format headers" (`producer.go:50`).
- `DisableCommit` ("skips offset commits", `consumer.go:56`) does not reach the
  client (`consumer.go:214`): without `DisableAutoCommit` its auto-commit goes on.
  `CommittedWasAsked` therefore speaks of `DisableAutoCommit`.
- Only `esc` stops the tail (`app.go:255`): `?`, `:groups` and the like
  (`app.go:316`) leave its client polling under another view, although
  `topic_detail_view.go:187` gives the opposite as the purpose of `Stop`.
- One fetch error ends the tail's `Run` (`tail.go:88`) and the view goes on
  saying LIVE.
- A view that is left and entered again has two chains of ticks
  (`topics_view.go:102`); `connected` is only ever set by a profile switch, so
  after one failed load the header keeps the error (`app.go:134`).
- While a filter is typed `q` quits, and `esc` in the groups view leaves the
  view with the filter on (`app.go:245`).
- `Subscribe` returns on a failed commit without `AllowRebalance`
  (`consumer.go:381`), so that a `Close` afterwards waits for ever (`leaked` in
  `LockFreeBetweenCalls`).
- Records that a process dropped, because the handler failed (`consumer.go:362`)
  or because another partition's fetch did (`consumer.go:487`), are committed over
  when it polls again (`resumed` in `AtLeastOnce`). Under auto-commit a commit may
  also go backward after that, hence the condition of `CommitMonotone`.
- Two goroutines in `Subscribe`, or one there and one in `Close`, may open two
  consumers or leave one open (`transport.go:100`; `raced` in `OneConsumer` and
  `CloseStops`).
- A failed `NewConsumer` leaves a typed nil in the transport (`transport.go:116`):
  the next `Subscribe` answers `ErrConsumerAlreadyCreated`, `Ping` and `Close`
  panic. Constructors whose ping fails leave their client open
  (`consumer.go:318`, `producer.go:167`).
- A callback of the in-memory producer that publishes waits for the mutex its
  own caller holds (`producer_memory.go:50`).
- The consumer strips six bytes of any value that begins with zero and is longer
  than that (`consumer.go:416`): a header over an empty payload stays, and an
  Avro header takes a byte of the payload with it.
- A failed lookup is not cached, so every record of an unknown schema may hold
  the event loop for the lookup's timeout; fetching the imports uses a context
  without that timeout.
- The registry's flags and environment are lost with the first profile switch
  (`main.go:131`: "flags and env vars beat the rpk profile"); `--sasl-*` and
  `--tls` without `--brokers` are not looked at; an rpk file that cannot be
  parsed is an error even with `--brokers`.
- A group whose description has an error is listed for every topic
  (`admin_topic_extras.go:29`). A failed listing of start offsets makes the
  estimate the end offsets, a failed one of end offsets makes it zero.

## 4. Proofs

Every theorem holds for every value of the constants that the named assumptions
allow; the bounds of the runs play no part in them. The inductive invariants
were checked by TLC before they were proved.

`LiveTailProofs` (from `TopicsAssumption` and `BoundsAssumption`):

- `TypeCorrect`: `Spec => []TypeOK`. `TypeOK` alone is not inductive: `Send`
  appends offset `sent[s] + 1`, in range only if a delivering goroutine still
  has a record left, and `Attach` reads the log of the session's topic, which
  must be one. `SessionOK` adds both; `TypeInv` is inductive, one lemma per
  group of actions.
- `OneLive`: `[]OneLiveSession`. Inductive by itself given the types:
  every creation of a session first removes the one the view holds from `live`.
- `PumpChain`: `[]PumpAlive`. A message handled in the detail view
  returns a pump of the current session, and a pump that ends leaves a message;
  inductive given the types.

`LiveTailFeedProofs` (from the same):

- `NoRecordTwice`: `[]ShownOnce`. Two lines of one session differ because its
  channel holds consecutive offsets that end at the one sent last (`QueueInv`)
  and a shown line is neither queued nor on its way (`LinesInv`); two sessions
  on one topic because the later one begins above all the earlier one had
  fetched (`LaterInv`), which in turn needs to know what a stopped session can
  still deliver (`LifeInv`).
- `FeedImplemented`: `Spec => ImplementsFeed`, the step simulation of `TailFeed`.
  Handling in order needs, besides `FeedInv`, that a session which never lost
  its place has one pump or one message and not both (`SinglePump`).

`AppShellProofs` (from `ListsAssumption`, `NoneAssumption`, `MaxAssumption`):

- `TypeCorrect`: `[]TypeOK`, whose last conjunct, that the detail view
  is never shown or about to be without a target, carries the argument for
  `TabsGetThere`.
- `RefreshGoesOn`, `PauseShows`: `[]RefreshAlive` and `[]PauseIsSaid`.
  `StepCases` reduces `Next` to switches of view (which start the load of the
  view they show), quiet steps (which end nothing) and five others; then
  each invariant is inductive with `TypeOK`.
- `ClientsKept`: `[]ClientsAccounted`, inductive with `TypeOK`; `TabsGetThere`:
  `[]TabsAlive`, from `TabsInv`, which says it of the ACL load also while an error
  hides the tab, since the next describe may take the error away, and of the
  groups load as long as none has.

`GroupConsumerProofs` (from `ConstantsAssumption`):

- `TypeCorrect` and `LockFree`. `LockFreeBetweenCalls` needs to know where the
  lock was let go before the call returns (`CallInv`).
- `FenceHolds`: with the rebalance blocked and no auto-commit nothing is
  committed beyond the position of the member that has the partition, and while
  it works on a batch it gets none and holds what it polled (`Fenced`). From it
  `CommitsOnlyAdvance`, the action property `CommitMonotone`.
- `OnlyAskedCommitted`: `[]CommittedWasAsked`.
- `PollAtMostOnce`: `[]AtMostOnce`. What Poll is about to hand out is
  committed, and nobody has had it (`HandedOutOnce`); that it is nobody else's
  comes from `Fenced`.
- `HandledAtLeastOnce`: `[]AtLeastOnce`. That committed records are handled is
  not inductive: auto-commit commits `head`, which a poll takes from the
  position, and an explicit commit takes the end of the batch. `NoneSkipped`
  follows the records through all of these places, as long as the process has
  dropped none.

`TransportProofs` (from `BoundsAssumption`, `IDsAssumption`, `KindsAssumption`
and `CallersAssumption`: there are finitely many goroutines, and none of them
bears the name of a queue):

- `TypeCorrect`: consumers are numbered up to the number of goroutines and of
  failures, which is enough because a goroutine creates one only if it found none
  and each failure leaves one client at most (`Counted`).
- `HeadersAsAnswered`: `[]FramedAsAnswered`, since a producer with a resolver has
  the ID answered to it before it has a client (`Framing`). From the same `HeadersUnlessZero`: what
  `producer.go:50` promises holds where no answer comes to zero.
- `AtMostOneConsumer`: `[]OneConsumer`; `ClosedIsClosed`: `CloseStops`. Both from
  `Shut`: while no calls overlapped the only open consumer is the one the field
  holds, and nobody creates one between the two halves of Close.
- `EveryMessageAccounted`: `[]Accounted`. Cardinality 1 is stated as one of five
  exclusive places (`InOnePlace`), and no queue has a message twice (`Distinct`).
- `ProducersKeepContract`: `Spec => ImplementsProducer`, one step lemma per
  action. That a Flush which succeeds has waited for what was there when it began
  needs that such messages are in the client or settled, and what each kind of
  producer leaves alone (`Kinded`).

`SchemaDecodingProofs` (from `SchemasAssumption`, `RecordsAssumption`,
`SettingsAssumption` and `CapAssumption`: an ID takes four bytes, a reference is
a name and a schema, a message is declared within the messages on its path, a
sender uses the serializer of its schema, indexes take one byte each, and a list
can hold the 63 of them a sender writes):

- The receivers undo the senders: `HeaderIsRead` and `HeaderWithZero` for the
  four bytes of the ID, `VarintOfByte`, `AllIndexes` and `IndexesAreRead` for
  the message indexes, for all IDs, paths and payloads. `ReadsExist` shows by
  induction over a bound that the fold behind the loop has a value at all.
- `TypeCorrect`, `ShownFaithfully` (`[]ShownAsSent`), `ErrorsAreOwn`
  (`[]ErrorsHaveCause`) and `ImportsExact` (`[]ImportsComplete`), from one
  invariant (`DecodeInv`): caches hold answers to what they were asked
  (`Cached`, `Compiled`), and a goroutine at work has the answer for the ID of
  its record (`Works`). A collection under way has, or has before it, every name
  the collected files import, and no schema the root does not lead to
  (`Reaching`). At its end every name is found; where no name stands for two
  schemas the names it has are the schemas referred to, a closed set, and
  `Imports` is the least such (`LeastImports`, `NothingSkewed`). A compilation
  that fails has found a circle among what the root leads to (`CircleOfImports`)
  or a name that stands for two schemas.
- `StripsOwnHeader`: `[]StripUndoesPrepend`, from `HeaderWithZero`.
- `PanicsOnRawOnly`: the panic of `DecodePanic` has no other cause than a
  record that no serializer wrote, with the header of a Protobuf schema and a
  count of indexes below zero or beyond what a list can hold; so `NeverPanics`
  holds where every record is from a serializer. By induction over
  `DecodeInv`.

`SessionProofs` (from `SwitchesAssumption`, `PlacesAssumption`: what a profile
says stems from it, and flags from the flags; `OffsetsAssumption` and
`ClusterAssumption`: finitely many partitions, and finitely many but some
brokers):

- The sums of `DescribeTopic` are folds over functions. `SumsExist`, `SumGrows` and
  `SumCovers` prove that they have a value, grow with what they sum, and cover
  a part of it.
- `TypeCorrect`; `EstimateOvercounts` (`[]NeverUndercounts`) and
  `SizesAreOfLeaders` (`[]SizesAgree`), from `AdminInv`: each answer is related to
  the log at the time of the next request, which is where the order of the
  requests enters (start offsets before end offsets).
- `ClientsFollow` (`[]ClientsAreShown`), with `AppTypes`: the clients are those of
  the profile shown, and connected is said only of an open one.
- `CredentialsStay` (`[]OwnCredentials`), from `OwnInv`: every profile the file
  yields, and every one made of flags, has the login of its own brokers.

`TopicTreeProofs` (from `NamesAssumption`: a name is a sequence of at least one
segment, and the separator is none; and `FilterAssumption`):

- A walk that calls itself on the children has a value because there is a longest
  name: `Height`, then `WalkExists` and `FoundExists` by induction over the
  distance from the deepest nodes. `ChildrenAre` (with `InOrder`) shows that the
  children can be put in order and that all of them are visited; `Flattened` and
  `KeptAre` are about the concatenation of their rows and the rows dropped.
- The rows come in the lexicographic order of the paths (`Sorted`), which the
  concatenation of the children's rows keeps because two children differ in a
  segment (`BlocksApart`). `WalkSees` joins this with which nodes are seen:
  those with open branches above them and no topic.
- `TreeInv`, the inductive invariant: the types, and that `rows` is `VisibleRows`
  of the tree, the entries and the query as they are now. Every action computes
  the rows again or leaves alone what they depend on.
- `TypeCorrect`; `RowsShowOpen` (`[]RowsAreWhatIsOpen`); `RowsFormTree`
  (`[]RowsAreTree`), because sorted rows that have the rows above them are a tree
  (`SortedIsTree`); `RefreshKeepsThem`, the action property
  `RefreshKeepsChoices`, from how a load lays the old entries on the new ones: every
  branch of the first level has an entry unless `O` was pressed since the last
  load, which is part of the invariant.
- `MatchesShownUnlessHidden`: what TreeHidden finds violated holds as long as no
  topic is below another topic's node, so that is the only way it goes wrong.

Only model-checked: the liveness properties (`FetchedIsHandled`,
`StoppedRunEnds`, `ListCatchesUp`, `DecodeReturns`), which the prover does not
handle under fairness; and that names, `Text` and `Matches` are the text and the
search of the code, which no theorem is about.

## 5. Not modelled

Rendering, formatting, metrics and tracing have no control flow a property is
about; of the demo only the Avro header it writes. The admin client's other
operations each turn the answers of one or two requests into a list or a map;
creating and deleting topics are single calls. franz-go, bubbletea, the
protobuf compiler and the brokers are external: what the code relies on is an
assumption here, not a result; kgo's blocking at its limit of buffered records
is left out. Not in `GroupConsumer`: two goroutines sharing one
`BasicConsumer`, `SeekFromEnd`, and `Ready`/`WaitForReady`, which nothing in
the repository calls. The in-memory consumer is a list in a mutex for tests.
The groups view's rows and the scroll positions of the detail view's tabs are
left out.

## 6. Plan

In order of weight, most important first; what is done is marked.

1. `LiveTail`, `TailFeed`, `LiveTailProofs` - done.
2. `GroupConsumer` - done; then `Ready` and the callbacks of the group session.
3. `AppShell`, `AppShellProofs` - done.
4. `TopicTree` - done; then the groups view's rows, the keys the App takes
   from a filter, and the `tickMsg` chains per visit.
5. `Transport` and `Producer` - done.
6. `WireFormat`, `SchemaDecoding` - done.
7. `Profile`, `AdminClient`, `Session` - done; then the other operations of the
   admin client.

Every safety invariant and action property the passing runs check is a theorem.
Theorems still worth proving: for the other disagreements, like
`MatchesShownUnlessHidden`, `PanicsOnRawOnly` and `HeadersUnlessZero`, under which
condition what the code says does hold (`DetailIsOfTarget` while the detail view
is entered once, `SkippedIsNotCommitted` without auto-commit).
