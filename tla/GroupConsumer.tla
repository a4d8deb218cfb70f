---------------------------- MODULE GroupConsumer ----------------------------
(***************************************************************************)
(* BasicConsumer (pkg/rp/consumer.go) in a consumer group: the Subscribe   *)
(* loop, PollBatch with Batch.Commit, Poll and Close, over a kgo client    *)
(* and a broker that evicts members, hands partitions to other members,    *)
(* loses commit replies and outlives crashes of the program.               *)
(*                                                                         *)
(* Data: partition p holds the records 0..LogEnd-1; every offset variable  *)
(* holds the next record, as Kafka's committed offsets do.  The program    *)
(* uses one API per run of the process, from one goroutine, and has one    *)
(* batch at a time: it commits a batch before it polls the next one.       *)
(*                                                                         *)
(* External, modelled from how consumer.go uses kgo: a poll holds off      *)
(* rebalances until AllowRebalance when BlockRebalanceOnPoll is set; with  *)
(* auto-commit on, a poll lets the records of the polls before it be       *)
(* committed in the background (MarkCommitRecords adds nothing to that);   *)
(* the broker refuses commits of a member it has evicted.                  *)
(***************************************************************************)
EXTENDS Naturals, FiniteSets

CONSTANTS
    Partitions,     \* partitions of the consumed topic
    LogEnd,         \* bound: records in each partition
    Starts,         \* a ConsumerConfig and the API a process uses, to start with
    MaxTroubles     \* bound: crashes, closes, evictions, rebalances, failed
                    \* fetches and commits, handler errors: all of them together

Apis == {"subscribe", "batch", "poll"}
Config == [disableCommit : BOOLEAN, disableAutoCommit : BOOLEAN,
           blockRebalance : BOOLEAN]

ASSUME ConstantsAssumption ==
    /\ LogEnd \in Nat
    /\ MaxTroubles \in Nat
    /\ Starts \subseteq [cfg : Config, api : Apis]

VARIABLES
    cfg,        \* ConsumerConfig
    api,        \* the API this process uses
    committed,  \* broker: the group's committed offsets
    member,     \* broker: this consumer is a member of the current generation
    assigned,   \* client: partitions it consumes
    pos,        \* client: next record it will return
    head,       \* client: what auto-commit may commit
    known,      \* client: the committed offset it knows of
    lock,       \* client: rebalances are held off since a poll
    pc,         \* the program: what it is doing
    batch,      \* records polled: lo..hi-1, handled up to next
    processed,  \* records some member of the group has handled
    repeated,   \* records handled more than once
    asked,      \* offsets the program asked to commit, with a live context
    ours,       \* partitions whose committed offset this consumer has set
    aborted,    \* why this process dropped records it had polled, if it did
    resumed,    \* ... the same, of processes that have polled again since
    leaked,     \* Subscribe returned without AllowRebalance
    troubles    \* troubles so far

broker == <<committed, member, ours>>
client == <<assigned, pos, head, known, lock>>
program == <<pc, batch, aborted, resumed, leaked>>
ghosts == <<processed, repeated, asked>>
vars == <<cfg, api, broker, client, program, ghosts, troubles>>

Offset == 0..LogEnd

\* The handler stopped, Commit got a cancelled context, a fetch or Poll's
\* commit failed.
Reasons == {"handler", "skip", "fetch", "commit"}

NoBatch == [p \in Partitions |-> [lo |-> 0, next |-> 0, hi |-> 0]]
Polled == {p \in Partitions : batch[p].lo < batch[p].hi}
Rest == {p \in Partitions : batch[p].next < batch[p].hi}

\* All offsets are within the log and the batch is what has been polled.
TypeOK ==
    /\ cfg \in Config /\ api \in Apis
    /\ committed \in [Partitions -> Offset] /\ member \in BOOLEAN
    /\ assigned \subseteq Partitions
    /\ pos \in [Partitions -> Offset] /\ head \in [Partitions -> Offset]
    /\ known \in [Partitions -> Offset]
    /\ lock \in BOOLEAN
    /\ pc \in {"idle", "handle", "commit", "hold", "return", "closing", "down"}
    /\ batch \in [Partitions -> [lo : Offset, next : Offset, hi : Offset]]
    /\ \A p \in Partitions : /\ batch[p].lo <= batch[p].next
                             /\ batch[p].next <= batch[p].hi
    /\ processed \in [Partitions -> SUBSET (0..LogEnd-1)]
    /\ repeated \in [Partitions -> SUBSET (0..LogEnd-1)]
    /\ asked \in [Partitions -> Offset]
    /\ ours \subseteq Partitions
    /\ aborted \subseteq Reasons /\ resumed \subseteq Reasons
    /\ leaked \in BOOLEAN
    /\ troubles \in 0..MaxTroubles

Init ==
    /\ \E start \in Starts : cfg = start.cfg /\ api = start.api
    /\ committed = [p \in Partitions |-> 0]
    /\ member = FALSE
    /\ assigned = {}
    /\ pos = [p \in Partitions |-> 0] /\ head = [p \in Partitions |-> 0]
    /\ known = [p \in Partitions |-> 0]
    /\ lock = FALSE
    /\ pc = "idle" /\ batch = NoBatch
    /\ processed = [p \in Partitions |-> {}]
    /\ repeated = [p \in Partitions |-> {}]
    /\ asked = [p \in Partitions |-> 0]
    /\ ours = {}
    /\ aborted = {} /\ resumed = {} /\ leaked = FALSE
    /\ troubles = 0

Trouble == troubles < MaxTroubles /\ troubles' = troubles + 1

\* Records handled in this step, as a set of offsets for each partition.
Record(recs) ==
    /\ processed' = [p \in Partitions |-> processed[p] \union recs[p]]
    /\ repeated' = [p \in Partitions |->
                      repeated[p] \union (processed[p] \intersect recs[p])]

-----------------------------------------------------------------------------
(* The broker and the client's group session (external) *)

\* The client joins or rejoins: it may lose and gain any partitions, and starts
\* the ones it gains at their committed offset.  The rebalance waits for the
\* lock.  An evicted member has lost everything it had.
Rebalance(new) ==
    /\ pc \notin {"closing", "down"}
    /\ ~lock
    /\ IF member THEN new # assigned /\ Trouble ELSE UNCHANGED troubles
    /\ LET kept == IF member THEN assigned \intersect new ELSE {}
           Reset(f) == [p \in Partitions |->
                          IF p \in new \ kept THEN committed[p] ELSE f[p]]
       IN  pos' = Reset(pos) /\ head' = Reset(head) /\ known' = Reset(known)
    /\ assigned' = new /\ member' = TRUE
    /\ UNCHANGED <<cfg, api, committed, ours, lock, program, ghosts>>

\* The broker gives up on the member, which does not know yet.
Evict ==
    /\ member /\ Trouble
    /\ member' = FALSE
    /\ UNCHANGED <<cfg, api, committed, ours, client, program, ghosts>>

\* Another member handles and commits a record of a partition it has got.
OtherMember(p) ==
    /\ ~member \/ p \notin assigned
    /\ committed[p] < LogEnd
    /\ committed' = [committed EXCEPT ![p] = @ + 1]
    /\ ours' = ours \ {p}
    /\ Record([q \in Partitions |-> committed[q]..committed'[q]-1])
    /\ UNCHANGED <<cfg, api, member, client, program, asked, troubles>>

\* The client's auto-commit loop.
AutoCommit(p) ==
    /\ ~cfg.disableAutoCommit
    /\ pc # "down" /\ member /\ p \in assigned
    /\ head[p] > known[p]
    /\ committed' = [committed EXCEPT ![p] = head[p]]
    /\ known' = [known EXCEPT ![p] = head[p]]
    /\ ours' = ours \union {p}
    /\ UNCHANGED <<cfg, api, member, assigned, pos, head, lock, program, ghosts,
                   troubles>>

\* PollRecords: upto[p] is the next record of p after it.  Under auto-commit a
\* record becomes eligible with the poll after the one that returned it.
ClientPoll(upto) ==
    /\ \A p \in Partitions : IF p \in assigned THEN upto[p] >= pos[p]
                                               ELSE upto[p] = pos[p]
    /\ head' = [p \in Partitions |-> IF p \in assigned THEN pos[p] ELSE head[p]]
    /\ pos' = upto
    /\ resumed' = resumed \union aborted
    /\ UNCHANGED <<assigned, known>>

\* Mutant: NewConsumer leaves BlockRebalanceOnPoll out.
PollUnblocked(upto, then) ==
    /\ pc = "idle"
    /\ ClientPoll(upto)
    /\ batch' = [p \in Partitions |-> [lo |-> pos[p], next |-> pos[p], hi |-> upto[p]]]
    /\ pc' = then
    /\ UNCHANGED <<cfg, api, broker, lock, aborted, leaked, ghosts, troubles>>

Poll(upto, then) ==
    /\ pc = "idle"
    /\ ClientPoll(upto)
    /\ batch' = [p \in Partitions |-> [lo |-> pos[p], next |-> pos[p], hi |-> upto[p]]]
    /\ lock' = (lock \/ cfg.blockRebalance)
    /\ pc' = then
    /\ UNCHANGED <<cfg, api, broker, aborted, leaked, ghosts, troubles>>

\* CommitRecords of to[p] for each p in ps, with a reply.
CommitAcked(ps, to) ==
    /\ ps # {} => member
    /\ committed' = [p \in Partitions |-> IF p \in ps THEN to[p] ELSE committed[p]]
    /\ known' = [p \in Partitions |-> IF p \in ps THEN to[p] ELSE known[p]]
    /\ ours' = ours \union ps
    /\ UNCHANGED troubles

\* An error: the broker refused the commit, or applied it and the reply was lost.
CommitFailed(ps, to) ==
    /\ ps # {}
    /\ \/ /\ ~member
          /\ UNCHANGED <<committed, ours, troubles>>
       \/ /\ Trouble
          /\ UNCHANGED <<committed, ours>>
       \/ /\ Trouble
          /\ member
          /\ committed' = [p \in Partitions |-> IF p \in ps THEN to[p] ELSE committed[p]]
          /\ ours' = ours \union ps
    /\ UNCHANGED known

-----------------------------------------------------------------------------
(* Subscribe: start and poll *)

Ask(ps, to) ==
    asked' = [p \in Partitions |->
                IF p \in ps /\ to[p] > asked[p] THEN to[p] ELSE asked[p]]

\* Fetch errors are logged; the records that came with them are handled.
SubscribePoll(upto) == api = "subscribe" /\ Poll(upto, "handle")

\* Mutant: the loop over a partition's records does not end at the last one.
HandlerTurnPastEnd(p) == pc = "handle" /\ batch[p].next <= batch[p].hi

\* EachPartition finishes a partition before it begins the next one.
HandlerTurn(p) ==
    /\ pc = "handle" /\ p \in Rest
    /\ \A q \in Rest \ {p} : batch[q].next = batch[q].lo

HandleRecord(p) ==
    /\ HandlerTurn(p)
    /\ batch' = [batch EXCEPT ![p].next = @ + 1]
    /\ Record([q \in Partitions |-> batch[q].next..batch'[q].next-1])
    /\ UNCHANGED <<cfg, api, broker, client, pc, aborted, resumed, leaked,
                   asked, troubles>>

\* The handler returns an error or ErrConsumerDone: the rest is dropped.
HandlerStops(p) ==
    /\ HandlerTurn(p) /\ Trouble
    /\ aborted' = aborted \union {"handler"}
    /\ pc' = "commit"
    /\ UNCHANGED <<cfg, api, broker, client, batch, resumed, leaked, ghosts>>

BatchHandled ==
    /\ pc = "handle" /\ Rest = {}
    /\ pc' = "commit"
    /\ UNCHANGED <<cfg, api, broker, client, batch, aborted, resumed, leaked,
                   ghosts, troubles>>

Accepted == {p \in Partitions : batch[p].lo < batch[p].next}

\* Mutant: a record counts as handled before the handler has returned.
AcceptedToRefused ==
    [p \in Partitions |-> IF p \in Rest THEN batch[p].next + 1 ELSE batch[p].next]

AcceptedTo == [p \in Partitions |-> batch[p].next]

\* poll commits what the handler accepted, in auto-commit mode too.
SubscribeCommit ==
    /\ pc = "commit" /\ api = "subscribe"
    /\ IF cfg.disableCommit
       THEN UNCHANGED <<committed, ours, known, asked, troubles>>
       ELSE CommitAcked(Accepted, AcceptedTo) /\ Ask(Accepted, AcceptedTo)
    /\ lock' = FALSE /\ leaked' = FALSE
    /\ pc' = "idle" /\ batch' = NoBatch
    /\ UNCHANGED <<cfg, api, member, assigned, pos, head, aborted, resumed,
                   processed, repeated>>

\* The early return leaves AllowRebalance out.
SubscribeCommitFails ==
    /\ pc = "commit" /\ api = "subscribe" /\ ~cfg.disableCommit
    /\ CommitFailed(Accepted, AcceptedTo) /\ Ask(Accepted, AcceptedTo)
    /\ leaked' = lock
    /\ pc' = "idle" /\ batch' = NoBatch
    /\ UNCHANGED <<cfg, api, member, assigned, pos, head, lock, aborted, resumed,
                   processed, repeated>>

-----------------------------------------------------------------------------
(* PollBatch, Batch.Commit and Poll *)

PolledTo == [p \in Partitions |-> batch[p].hi]

PollBatch(upto) == api = "batch" /\ Poll(upto, "hold")
PollOnce(upto) == api = "poll" /\ Poll(upto, "commit")

\* Mutant: the error return of PollBatch and Poll leaves AllowRebalance out.
PollFailsLocked(upto) ==
    /\ pc = "idle" /\ api \in {"batch", "poll"} /\ Trouble
    /\ ClientPoll(upto)
    /\ aborted' = IF upto = pos THEN aborted ELSE aborted \union {"fetch"}
    /\ lock' = (lock \/ cfg.blockRebalance)
    /\ UNCHANGED <<cfg, api, broker, pc, batch, leaked, ghosts>>

\* A partition's fetch error makes pollRecords return no records at all: what
\* the poll got from the other partitions is dropped.
PollFails(upto) ==
    /\ pc = "idle" /\ api \in {"batch", "poll"} /\ Trouble
    /\ ClientPoll(upto)
    /\ aborted' = IF upto = pos THEN aborted ELSE aborted \union {"fetch"}
    /\ lock' = FALSE /\ leaked' = FALSE
    /\ UNCHANGED <<cfg, api, broker, pc, batch, ghosts>>

\* The program handles the messages of the batch.
ProcessBatch ==
    /\ pc = "hold"
    /\ pc' = "commit"
    /\ Record([p \in Partitions |-> batch[p].lo..batch[p].hi-1])
    /\ UNCHANGED <<cfg, api, broker, client, batch, aborted, resumed, leaked,
                   asked, troubles>>

\* commitRecords under a live context: nothing, a commit, or a mark, which the
\* client's auto-commit does not need.
CommitsNothing == cfg.disableCommit \/ Polled = {}

CommitRecords ==
    \/ /\ CommitsNothing
       /\ UNCHANGED <<committed, ours, known, asked, troubles>>
    \/ /\ ~CommitsNothing /\ cfg.disableAutoCommit
       /\ CommitAcked(Polled, PolledTo) /\ Ask(Polled, PolledTo)
    \/ /\ ~CommitsNothing /\ ~cfg.disableAutoCommit
       /\ Ask(Polled, PolledTo)
       /\ UNCHANGED <<committed, ours, known, troubles>>

CommitRecordsFails ==
    /\ ~CommitsNothing /\ cfg.disableAutoCommit
    /\ CommitFailed(Polled, PolledTo) /\ Ask(Polled, PolledTo)

\* Batch.Commit allows the rebalance only after the commit has its reply.
BatchCommit ==
    /\ pc = "commit" /\ api = "batch"
    /\ CommitRecords \/ CommitRecordsFails
    /\ lock' = FALSE /\ leaked' = FALSE
    /\ pc' = "idle" /\ batch' = NoBatch
    /\ UNCHANGED <<cfg, api, member, assigned, pos, head, aborted, resumed,
                   processed, repeated>>

\* Mutant: the commit of a batch does not use the caller's context.
BatchSkipCommits ==
    /\ pc = "hold" /\ Trouble
    /\ IF ~CommitsNothing /\ cfg.disableAutoCommit /\ member
       THEN /\ committed' = [p \in Partitions |->
                               IF p \in Polled THEN batch[p].hi ELSE committed[p]]
            /\ ours' = ours \union Polled
       ELSE UNCHANGED <<committed, ours>>
    /\ aborted' = IF Polled = {} THEN aborted ELSE aborted \union {"skip"}
    /\ lock' = FALSE /\ leaked' = FALSE
    /\ pc' = "idle" /\ batch' = NoBatch
    /\ UNCHANGED <<cfg, api, member, assigned, pos, head, known, resumed, ghosts>>

\* The program could not handle the batch and commits with a cancelled context.
BatchSkip ==
    /\ pc = "hold" /\ Trouble
    /\ aborted' = IF Polled = {} THEN aborted ELSE aborted \union {"skip"}
    /\ lock' = FALSE /\ leaked' = FALSE
    /\ pc' = "idle" /\ batch' = NoBatch
    /\ UNCHANGED <<cfg, api, broker, assigned, pos, head, known, resumed, ghosts>>

\* Mutant: Poll returns the messages although their commit has failed.
PollCommitAnyway ==
    /\ pc = "commit" /\ api = "poll"
    /\ CommitRecords \/ CommitRecordsFails
    /\ pc' = "return"
    /\ lock' = FALSE /\ leaked' = FALSE
    /\ UNCHANGED <<cfg, api, member, assigned, pos, head, batch, aborted, resumed,
                   processed, repeated>>

\* Poll commits before it hands the messages out, or loses them.
PollCommit ==
    /\ pc = "commit" /\ api = "poll"
    /\ \/ /\ CommitRecords
          /\ pc' = "return"
          /\ UNCHANGED <<batch, aborted>>
       \/ /\ CommitRecordsFails
          /\ pc' = "idle" /\ batch' = NoBatch
          /\ aborted' = aborted \union {"commit"}
    /\ lock' = FALSE /\ leaked' = FALSE
    /\ UNCHANGED <<cfg, api, member, assigned, pos, head, resumed, processed,
                   repeated>>

PollReturn ==
    /\ pc = "return"
    /\ Record([p \in Partitions |-> batch[p].lo..batch[p].hi-1])
    /\ pc' = "idle" /\ batch' = NoBatch
    /\ UNCHANGED <<cfg, api, broker, client, aborted, resumed, leaked, asked,
                   troubles>>

-----------------------------------------------------------------------------
(* Close, crash and restart *)

Close ==
    /\ pc = "idle" /\ Trouble
    /\ pc' = "closing"
    /\ UNCHANGED <<cfg, api, broker, client, batch, aborted, resumed, leaked, ghosts>>

\* What is left of the process and of its membership when it has ended.
Gone ==
    /\ pc' = "down" /\ batch' = NoBatch
    /\ member' = FALSE /\ assigned' = {} /\ lock' = FALSE
    /\ aborted' = {} /\ leaked' = FALSE
    /\ UNCHANGED <<cfg, api, committed, ours, pos, head, known, resumed, ghosts>>

\* client.Close leaves the group, for which it needs the rebalance lock.
CloseReturns == pc = "closing" /\ ~lock /\ Gone /\ UNCHANGED troubles

Crash == pc # "down" /\ Trouble /\ Gone

\* NewConsumer in a new process.
Restart ==
    /\ pc = "down"
    /\ pc' = "idle"
    /\ UNCHANGED <<cfg, api, broker, client, batch, aborted, resumed, leaked,
                   ghosts, troubles>>

-----------------------------------------------------------------------------

Next ==
    \/ \E new \in SUBSET Partitions : Rebalance(new)
    \/ Evict
    \/ \E p \in Partitions : OtherMember(p) \/ AutoCommit(p)
    \/ \E upto \in [Partitions -> Offset] :
          SubscribePoll(upto) \/ PollBatch(upto) \/ PollOnce(upto) \/ PollFails(upto)
    \/ \E p \in Partitions : HandleRecord(p) \/ HandlerStops(p)
    \/ BatchHandled \/ SubscribeCommit \/ SubscribeCommitFails
    \/ ProcessBatch \/ BatchCommit \/ BatchSkip
    \/ PollCommit \/ PollReturn
    \/ Close \/ CloseReturns \/ Crash \/ Restart

Spec == Init /\ [][Next]_vars

-----------------------------------------------------------------------------
(* Properties *)

\* At least once: below the committed offset every record has been handled, over
\* crashes, evictions, rebalances and auto-commit, unless a process polled again
\* after it had dropped records of a batch (a handler error, ErrConsumerDone, a
\* skipped batch or a failed fetch); what it commits then is past them.
AtLeastOnce ==
    api # "poll" /\ resumed = {} =>
        \A p \in Partitions : 0..committed[p]-1 \subseteq processed[p]

\* At most once: with synchronous commits and the rebalance blocked, Poll hands
\* out no record that was handled before, by this process or any other member.
AtMostOnce ==
    /\ api = "poll" /\ cfg.blockRebalance
    /\ ~cfg.disableCommit /\ cfg.disableAutoCommit
    => \A p \in Partitions : repeated[p] = {}

CommittedIsAsked == \A p \in ours : committed[p] <= asked[p]

\* Without auto-commit this consumer only commits offsets the program asked it to
\* commit: nothing for a batch that is not committed or is committed with a
\* cancelled context, and nothing at all under DisableCommit (consumer.go:56).
CommittedWasAsked ==
    cfg.disableAutoCommit => CommittedIsAsked /\ (cfg.disableCommit => ours = {})

\* "On error, pass a cancelled context so offsets are skipped" (consumer.go:424),
\* where nothing but such batches and successful ones has happened.
SkippedIsNotCommitted == aborted \union resumed = {"skip"} => CommittedIsAsked

\* With synchronous commits and the rebalance blocked on poll no commit takes the
\* group back behind an offset it has reached, however late it comes.  Auto-commit
\* can be ahead of what the program commits after it dropped records.
CommitMonotone ==
    [][cfg.blockRebalance /\ cfg.disableAutoCommit =>
         \A p \in Partitions : committed'[p] >= committed[p]]_vars

\* Between two calls the rebalance is free, unless Subscribe ended in a failed
\* commit.
LockFreeBetweenCalls == pc = "idle" /\ lock => leaked
=============================================================================
