------------------------- MODULE GroupConsumerProofs -------------------------
(***************************************************************************)
(* Proofs about GroupConsumer, for every number of partitions, records,    *)
(* troubles and every configuration: what is handled at least once and at  *)
(* most once, what is committed, and when rebalances are held off.         *)
(***************************************************************************)
EXTENDS GroupConsumer, TLAPS

USE ConstantsAssumption DEF ConstantsAssumption

-----------------------------------------------------------------------------
(* The inductive invariants *)

\* The lock is let go before Poll returns, and does not outlive the process; only
\* Subscribe handles records one by one.
CallInv ==
    /\ LockFreeBetweenCalls
    /\ pc \in {"return", "down"} => ~lock
    /\ pc = "handle" => api = "subscribe"

Synchronous == cfg.blockRebalance /\ cfg.disableAutoCommit

Working == pc \in {"handle", "hold", "commit"}

\* With the rebalance blocked and no auto-commit a member's partitions have not
\* been committed beyond its position, and while it works on a batch it cannot
\* get any partition: what it commits then is not behind.
Fenced ==
    Synchronous =>
        /\ member => \A p \in assigned : committed[p] <= pos[p]
        /\ Working =>
             /\ lock
             /\ \A p \in Polled : p \in assigned /\ pos[p] = batch[p].hi
             /\ member => \A p \in Polled : committed[p] <= batch[p].lo

Handled(p, n) == 0..n-1 \subseteq processed[p]

\* The records of p that have been polled and are yet to be handled.
Pending(p) == IF pc \in {"handle", "hold"} THEN batch[p].next..batch[p].hi-1 ELSE {}

\* Every record has been handled below what is committed, what auto-commit may
\* commit, what the handler has accepted, and, as long as the process has not
\* dropped any, below the position of the client but for what is in hand.
NoneSkipped(p) ==
    /\ Handled(p, committed[p]) /\ Handled(p, head[p])
    /\ p \in Polled => Handled(p, batch[p].next)
    /\ p \in Polled /\ pc = "commit" /\ api = "batch" => Handled(p, batch[p].hi)
    /\ p \in assigned /\ aborted = {} =>
          0..pos[p]-1 \subseteq processed[p] \union Pending(p)

NothingSkipped ==
    api # "poll" /\ resumed = {} => \A p \in Partitions : NoneSkipped(p)

\* With Poll nothing is handled before it is committed: what Poll is about to
\* hand out is committed and nobody has had it.
HandedOutOnce ==
    api = "poll" /\ Synchronous /\ ~cfg.disableCommit =>
        /\ pc \notin {"handle", "hold"}
        /\ \A p \in Partitions :
             /\ repeated[p] = {}
             /\ processed[p] \subseteq 0..committed[p]-1
             /\ pc = "return" /\ p \in Polled =>
                   /\ batch[p].hi <= committed[p]
                   /\ processed[p] \intersect (batch[p].lo..batch[p].hi-1) = {}

-----------------------------------------------------------------------------
(* Types *)

LEMMA NoBatchType ==
    /\ NoBatch \in [Partitions -> [lo : Offset, next : Offset, hi : Offset]]
    /\ \A p \in Partitions : /\ NoBatch[p].lo <= NoBatch[p].next
                             /\ NoBatch[p].next <= NoBatch[p].hi
BY DEF NoBatch, Offset

LEMMA InitType == Init => TypeOK
<1> SUFFICES ASSUME Init PROVE TypeOK
  OBVIOUS
<1>1. cfg \in Config /\ api \in Apis
  BY DEF Init
<1>2. troubles \in 0..MaxTroubles /\ 0 \in Offset
  BY DEF Init, Offset
<1>3. /\ committed \in [Partitions -> Offset] /\ asked \in [Partitions -> Offset]
      /\ pos \in [Partitions -> Offset] /\ head \in [Partitions -> Offset]
      /\ known \in [Partitions -> Offset]
  BY <1>2 DEF Init
<1>4. /\ processed \in [Partitions -> SUBSET (0..LogEnd-1)]
      /\ repeated \in [Partitions -> SUBSET (0..LogEnd-1)]
  BY DEF Init
<1> QED BY <1>1, <1>2, <1>3, <1>4, NoBatchType DEF Init, TypeOK

LEMMA TroubleType == TypeOK /\ Trouble => troubles' \in 0..MaxTroubles
BY DEF TypeOK, Trouble

\* Records within the log are handled.
LEMMA RecordType ==
    ASSUME TypeOK, NEW recs \in [Partitions -> SUBSET (0..LogEnd-1)], Record(recs)
    PROVE  /\ processed' \in [Partitions -> SUBSET (0..LogEnd-1)]
           /\ repeated' \in [Partitions -> SUBSET (0..LogEnd-1)]
BY DEF TypeOK, Record

\* What the commits of a batch do to the broker and the client.
LEMMA CommitType ==
    ASSUME TypeOK, NEW ps \in SUBSET Partitions, NEW to \in [Partitions -> Offset],
           CommitAcked(ps, to) \/ CommitFailed(ps, to), Ask(ps, to)
    PROVE  /\ committed' \in [Partitions -> Offset] /\ known' \in [Partitions -> Offset]
           /\ ours' \subseteq Partitions /\ troubles' \in 0..MaxTroubles
           /\ asked' \in [Partitions -> Offset]
BY DEF TypeOK, CommitAcked, CommitFailed, Trouble, Ask

LEMMA CommitRecordsType ==
    ASSUME TypeOK, CommitRecords \/ CommitRecordsFails
    PROVE  /\ committed' \in [Partitions -> Offset] /\ known' \in [Partitions -> Offset]
           /\ ours' \subseteq Partitions /\ troubles' \in 0..MaxTroubles
           /\ asked' \in [Partitions -> Offset]
<1>1. Polled \in SUBSET Partitions /\ PolledTo \in [Partitions -> Offset]
  BY DEF Polled, PolledTo, TypeOK
<1>2. CASE UNCHANGED <<committed, ours, known, asked, troubles>>
  BY <1>2 DEF TypeOK
<1>3. CASE Ask(Polled, PolledTo) /\ UNCHANGED <<committed, ours, known, troubles>>
  BY <1>1, <1>3 DEF Ask, TypeOK
<1> QED BY <1>1, <1>2, <1>3, CommitType DEF CommitRecords, CommitRecordsFails

\* The client's and the broker's steps.
LEMMA SessionType ==
    ASSUME TypeOK,
           \/ \E new \in SUBSET Partitions : Rebalance(new)
           \/ Evict
           \/ \E p \in Partitions : OtherMember(p) \/ AutoCommit(p)
    PROVE  TypeOK'
<1>1. ASSUME NEW new \in SUBSET Partitions, Rebalance(new) PROVE TypeOK'
  BY <1>1 DEF Rebalance, Trouble, TypeOK, program, ghosts
<1>2. CASE Evict
  BY <1>2, TroubleType DEF Evict, TypeOK, client, program, ghosts
<1>3. ASSUME NEW p \in Partitions, OtherMember(p) PROVE TypeOK'
  <2> DEFINE recs == [q \in Partitions |-> committed[q]..committed'[q]-1]
  <2>1. committed' \in [Partitions -> Offset]
    BY <1>3 DEF OtherMember, TypeOK, Offset
  <2>2. recs \in [Partitions -> SUBSET (0..LogEnd-1)]
    BY <2>1 DEF TypeOK, Offset
  <2>3. Record(recs)
    BY <1>3 DEF OtherMember
  <2>4. /\ processed' \in [Partitions -> SUBSET (0..LogEnd-1)]
        /\ repeated' \in [Partitions -> SUBSET (0..LogEnd-1)]
    BY <2>2, <2>3, RecordType
  <2> QED BY <1>3, <2>1, <2>4 DEF OtherMember, TypeOK, client, program
<1>4. ASSUME NEW p \in Partitions, AutoCommit(p) PROVE TypeOK'
  BY <1>4 DEF AutoCommit, TypeOK, program, ghosts
<1> QED BY <1>1, <1>2, <1>3, <1>4

\* Polling, whichever call does it.
LEMMA PollType ==
    ASSUME TypeOK, NEW upto \in [Partitions -> Offset],
           \/ SubscribePoll(upto) \/ PollBatch(upto) \/ PollOnce(upto)
           \/ PollFails(upto)
    PROVE  TypeOK'
<1>1. CASE \E then \in {"handle", "hold", "commit"} : Poll(upto, then)
  <2>1. /\ batch' \in [Partitions -> [lo : Offset, next : Offset, hi : Offset]]
        /\ \A p \in Partitions : /\ batch'[p].lo <= batch'[p].next
                                 /\ batch'[p].next <= batch'[p].hi
    BY <1>1 DEF Poll, ClientPoll, TypeOK, Offset
  <2> QED BY <1>1, <2>1 DEF Poll, ClientPoll, TypeOK, broker, ghosts, Config
<1>2. CASE PollFails(upto)
  BY <1>2, TroubleType DEF PollFails, ClientPoll, TypeOK, Reasons, broker, ghosts
<1> QED BY <1>1, <1>2 DEF SubscribePoll, PollBatch, PollOnce

\* Handling the records of a batch.
LEMMA HandleType ==
    ASSUME TypeOK,
           \/ \E p \in Partitions : HandleRecord(p) \/ HandlerStops(p)
           \/ BatchHandled \/ ProcessBatch \/ BatchSkip \/ PollReturn
    PROVE  TypeOK'
<1>1. ASSUME NEW p \in Partitions, HandleRecord(p) PROVE TypeOK'
  <2> DEFINE recs == [q \in Partitions |-> batch[q].next..batch'[q].next-1]
  <2>1. batch[p].next + 1 \in Offset /\ batch[p].next < batch[p].hi
    BY <1>1 DEF HandleRecord, HandlerTurn, Rest, TypeOK, Offset
  <2>2. /\ batch' \in [Partitions -> [lo : Offset, next : Offset, hi : Offset]]
        /\ \A q \in Partitions : /\ batch'[q].lo <= batch'[q].next
                                 /\ batch'[q].next <= batch'[q].hi
    BY <1>1, <2>1 DEF HandleRecord, TypeOK, Offset
  <2>3. recs \in [Partitions -> SUBSET (0..LogEnd-1)]
    BY <2>2 DEF TypeOK, Offset
  <2>4. Record(recs)
    BY <1>1 DEF HandleRecord
  <2> QED BY <1>1, <2>2, <2>3, <2>4, RecordType DEF HandleRecord, TypeOK, broker, client
<1>2. ASSUME NEW p \in Partitions, HandlerStops(p) PROVE TypeOK'
  BY <1>2 DEF HandlerStops, Trouble, TypeOK, Reasons, broker, client, ghosts
<1>3. CASE BatchHandled
  BY <1>3 DEF BatchHandled, TypeOK, broker, client, ghosts
<1>4. CASE ProcessBatch \/ PollReturn
  <2> DEFINE recs == [p \in Partitions |-> batch[p].lo..batch[p].hi-1]
  <2>1. recs \in [Partitions -> SUBSET (0..LogEnd-1)]
    BY DEF TypeOK, Offset
  <2>2. Record(recs)
    BY <1>4 DEF ProcessBatch, PollReturn
  <2> QED BY <1>4, <2>1, <2>2, RecordType, NoBatchType DEF ProcessBatch, PollReturn,
             TypeOK, broker, client
<1>5. CASE BatchSkip
  BY <1>5, NoBatchType, TroubleType DEF BatchSkip, TypeOK, Reasons, broker, ghosts
<1> QED BY <1>1, <1>2, <1>3, <1>4, <1>5

\* Committing a batch.
LEMMA CommitStepType ==
    ASSUME TypeOK,
           SubscribeCommit \/ SubscribeCommitFails \/ BatchCommit \/ PollCommit
    PROVE  TypeOK'
<1>1. Accepted \in SUBSET Partitions /\ AcceptedTo \in [Partitions -> Offset]
  BY DEF Accepted, AcceptedTo, TypeOK
<1>2. CASE SubscribeCommit
  <2>1. CASE cfg.disableCommit
    BY <1>2, <2>1, NoBatchType DEF SubscribeCommit, TypeOK
  <2>2. CASE ~cfg.disableCommit
    BY <1>1, <1>2, <2>2, CommitType, NoBatchType DEF SubscribeCommit, TypeOK
  <2> QED BY <2>1, <2>2
<1>3. CASE SubscribeCommitFails
  BY <1>1, <1>3, CommitType, NoBatchType DEF SubscribeCommitFails, TypeOK
<1>4. CASE BatchCommit
  BY <1>4, CommitRecordsType, NoBatchType DEF BatchCommit, TypeOK
<1>5. CASE PollCommit
  BY <1>5, CommitRecordsType, NoBatchType DEF PollCommit, TypeOK, Reasons
<1> QED BY <1>2, <1>3, <1>4, <1>5

\* The end of a process and the next one.
LEMMA LifeType ==
    ASSUME TypeOK, Close \/ CloseReturns \/ Crash \/ Restart
    PROVE  TypeOK'
<1>1. CASE Close \/ Restart
  BY <1>1 DEF Close, Restart, Trouble, TypeOK, broker, client, ghosts
<1>2. CASE CloseReturns \/ Crash
  BY <1>2, NoBatchType, TroubleType DEF CloseReturns, Crash, Gone, TypeOK, ghosts
<1> QED BY <1>1, <1>2

LEMMA NextType == TypeOK /\ [Next]_vars => TypeOK'
<1> SUFFICES ASSUME TypeOK, [Next]_vars PROVE TypeOK'
  OBVIOUS
<1>1. CASE UNCHANGED vars
  BY <1>1 DEF vars, broker, client, program, ghosts, TypeOK
<1> QED BY <1>1, SessionType, PollType, HandleType, CommitStepType, LifeType DEF Next

\* Offsets stay within the log, batches in order and the process in one of its
\* states, for any number of partitions, records and troubles.
THEOREM TypeCorrect == Spec => []TypeOK
BY InitType, NextType, PTL DEF Spec

-----------------------------------------------------------------------------
(* Rebalances between two calls *)

LEMMA CallStep == CallInv /\ TypeOK /\ [Next]_vars => CallInv'
<1> SUFFICES ASSUME CallInv, TypeOK, [Next]_vars PROVE CallInv'
  OBVIOUS
<1> USE DEF CallInv, LockFreeBetweenCalls
<1>1. CASE UNCHANGED <<api, pc, lock, leaked>>
  BY <1>1
<1>2. ASSUME NEW new \in SUBSET Partitions, Rebalance(new) PROVE CallInv'
  BY <1>1, <1>2 DEF Rebalance, program
<1>3. CASE Evict
  BY <1>1, <1>3 DEF Evict, client, program
<1>4. ASSUME NEW p \in Partitions, OtherMember(p) \/ AutoCommit(p) PROVE CallInv'
  BY <1>1, <1>4 DEF OtherMember, AutoCommit, client, program
<1>5. ASSUME NEW upto, SubscribePoll(upto) \/ PollBatch(upto) \/ PollOnce(upto)
                       \/ PollFails(upto)
      PROVE  CallInv'
  BY <1>5 DEF SubscribePoll, PollBatch, PollOnce, Poll, PollFails
<1>6. ASSUME NEW p \in Partitions, HandleRecord(p) \/ HandlerStops(p) PROVE CallInv'
  BY <1>6 DEF HandleRecord, HandlerStops, HandlerTurn, client
<1>7. CASE BatchHandled \/ ProcessBatch \/ BatchSkip
  BY <1>7 DEF BatchHandled, ProcessBatch, BatchSkip, client
<1>8. CASE SubscribeCommit \/ SubscribeCommitFails \/ BatchCommit \/ PollCommit
  BY <1>8 DEF SubscribeCommit, SubscribeCommitFails, BatchCommit, PollCommit
<1>9. CASE PollReturn \/ Close \/ Restart
  BY <1>9 DEF PollReturn, Close, Restart, client
<1>10. CASE CloseReturns \/ Crash
  BY <1>10 DEF CloseReturns, Crash, Gone
<1>11. CASE UNCHANGED vars
  BY <1>1, <1>11 DEF vars, client, program
<1> QED BY <1>2, <1>3, <1>4, <1>5, <1>6, <1>7, <1>8, <1>9, <1>10, <1>11 DEF Next

\* Between two calls the rebalance is free, unless Subscribe ended in a failed
\* commit, which says so.
THEOREM LockFree == Spec => []LockFreeBetweenCalls
<1>1. Init => CallInv
  BY DEF Init, CallInv, LockFreeBetweenCalls
<1>2. CallInv => LockFreeBetweenCalls
  BY DEF CallInv
<1> QED BY <1>1, <1>2, CallStep, TypeCorrect, PTL DEF Spec

-----------------------------------------------------------------------------
(* What a commit does *)

CommitStep == SubscribeCommit \/ SubscribeCommitFails \/ BatchCommit \/ PollCommit

\* The program commits partitions of its batch, up to what the handler accepted
\* or to the end, and has asked for that.
CommitsBatch ==
    /\ member /\ ~cfg.disableCommit
    /\ \E ps \in SUBSET Polled :
         /\ \A p \in Partitions :
              committed'[p] = IF p \notin ps THEN committed[p]
                              ELSE IF api = "subscribe" THEN batch[p].next
                              ELSE batch[p].hi
         /\ ours' = ours \union ps
         /\ \A p \in ps : committed'[p] <= asked'[p]

LEMMA CommitAckedEffect ==
    ASSUME TypeOK, NEW ps \in SUBSET Partitions, NEW to \in [Partitions -> Offset],
           CommitAcked(ps, to) \/ CommitFailed(ps, to), Ask(ps, to)
    PROVE  /\ \A p \in Partitions : asked[p] <= asked'[p]
           /\ \/ UNCHANGED <<committed, ours>>
              \/ /\ member /\ ours' = ours \union ps
                 /\ \A p \in Partitions :
                      committed'[p] = IF p \in ps THEN to[p] ELSE committed[p]
                 /\ \A p \in ps : committed'[p] <= asked'[p]
<1>1. \A p \in Partitions : asked[p] <= asked'[p] /\ (p \in ps => to[p] <= asked'[p])
  BY DEF Ask, TypeOK, Offset
<1>2. CASE ps = {}
  BY <1>1, <1>2 DEF CommitAcked, CommitFailed, TypeOK
<1>3. CASE ps # {}
  BY <1>1, <1>3 DEF CommitAcked, CommitFailed
<1> QED BY <1>2, <1>3

LEMMA CommitEffect ==
    ASSUME TypeOK, CommitStep
    PROVE  /\ \A p \in Partitions : asked[p] <= asked'[p]
           /\ UNCHANGED <<committed, ours>> \/ CommitsBatch
<1>1. /\ Accepted \in SUBSET Polled /\ Polled \in SUBSET Partitions
      /\ AcceptedTo \in [Partitions -> Offset] /\ PolledTo \in [Partitions -> Offset]
  BY DEF Accepted, Polled, AcceptedTo, PolledTo, TypeOK, Offset
<1>2. CASE UNCHANGED <<committed, ours, asked>>
  BY <1>2 DEF TypeOK, Offset
<1>3. CASE /\ UNCHANGED <<committed, ours>>
           /\ Ask(Polled, PolledTo)
  BY <1>1, <1>3 DEF Ask, TypeOK, Offset
<1>4. CASE /\ api = "subscribe" /\ ~cfg.disableCommit
           /\ CommitAcked(Accepted, AcceptedTo) \/ CommitFailed(Accepted, AcceptedTo)
           /\ Ask(Accepted, AcceptedTo)
  <2>1. \A p \in Partitions : AcceptedTo[p] = batch[p].next
    BY DEF AcceptedTo
  <2>2. /\ \A p \in Partitions : asked[p] <= asked'[p]
        /\ \/ UNCHANGED <<committed, ours>>
           \/ /\ member /\ ours' = ours \union Accepted
              /\ \A p \in Partitions : committed'[p] =
                   IF p \in Accepted THEN AcceptedTo[p] ELSE committed[p]
              /\ \A p \in Accepted : committed'[p] <= asked'[p]
    BY <1>1, <1>4, CommitAckedEffect, Zenon
  <2> QED BY <1>1, <1>4, <2>1, <2>2 DEF CommitsBatch
<1>5. CASE /\ api # "subscribe" /\ ~CommitsNothing
           /\ CommitAcked(Polled, PolledTo) \/ CommitFailed(Polled, PolledTo)
           /\ Ask(Polled, PolledTo)
  <2>1. \A p \in Partitions : PolledTo[p] = batch[p].hi
    BY DEF PolledTo
  <2>2. /\ \A p \in Partitions : asked[p] <= asked'[p]
        /\ \/ UNCHANGED <<committed, ours>>
           \/ /\ member /\ ours' = ours \union Polled
              /\ \A p \in Partitions : committed'[p] =
                   IF p \in Polled THEN PolledTo[p] ELSE committed[p]
              /\ \A p \in Polled : committed'[p] <= asked'[p]
    BY <1>1, <1>5, CommitAckedEffect, Zenon
  <2> QED BY <1>1, <1>5, <2>1, <2>2 DEF CommitsBatch, CommitsNothing
<1> QED BY <1>2, <1>3, <1>4, <1>5 DEF CommitStep, SubscribeCommit, SubscribeCommitFails,
           BatchCommit, PollCommit, CommitRecords, CommitRecordsFails

\* Only these steps move the committed offsets.
LEMMA CommitCases ==
    ASSUME [Next]_vars
    PROVE  \/ UNCHANGED <<cfg, api, committed, ours, asked>>
           \/ UNCHANGED <<cfg, api>> /\ CommitStep
           \/ \E p \in Partitions : OtherMember(p) \/ AutoCommit(p)
<1>1. ASSUME NEW new, Rebalance(new)
      PROVE  UNCHANGED <<cfg, api, committed, ours, asked>>
  BY <1>1 DEF Rebalance, ghosts
<1>2. ASSUME NEW upto, SubscribePoll(upto) \/ PollBatch(upto) \/ PollOnce(upto)
                       \/ PollFails(upto)
      PROVE  UNCHANGED <<cfg, api, committed, ours, asked>>
  BY <1>2 DEF SubscribePoll, PollBatch, PollOnce, Poll, PollFails, broker, ghosts
<1>3. ASSUME NEW p \in Partitions, HandleRecord(p) \/ HandlerStops(p)
      PROVE  UNCHANGED <<cfg, api, committed, ours, asked>>
  BY <1>3 DEF HandleRecord, HandlerStops, broker, ghosts
<1>4. CASE Evict \/ BatchHandled \/ ProcessBatch \/ BatchSkip \/ PollReturn
  BY <1>4 DEF Evict, BatchHandled, ProcessBatch, BatchSkip, PollReturn, broker, ghosts
<1>5. CASE Close \/ Restart \/ CloseReturns \/ Crash
  BY <1>5 DEF Close, Restart, CloseReturns, Crash, Gone, broker, ghosts
<1>6. CASE CommitStep
  BY <1>6 DEF CommitStep, SubscribeCommit, SubscribeCommitFails, BatchCommit, PollCommit
<1>7. CASE UNCHANGED vars
  BY <1>7 DEF vars, broker, ghosts
<1> QED BY <1>1, <1>2, <1>3, <1>4, <1>5, <1>6, <1>7 DEF Next, CommitStep

LEMMA AskedStep ==
    ASSUME TypeOK, CommittedWasAsked, [Next]_vars PROVE CommittedWasAsked'
<1> USE DEF CommittedWasAsked, CommittedIsAsked
<1>1. CASE UNCHANGED <<cfg, api, committed, ours, asked>>
  BY <1>1
<1>2. CASE UNCHANGED <<cfg, api>> /\ CommitStep
  <2>1. /\ \A p \in Partitions : asked[p] <= asked'[p]
        /\ UNCHANGED <<committed, ours>> \/ CommitsBatch
    BY <1>2, CommitEffect
  <2>2. committed \in [Partitions -> Nat] /\ asked \in [Partitions -> Nat]
        /\ asked' \in [Partitions -> Nat] /\ ours \subseteq Partitions
        /\ Polled \subseteq Partitions
    BY <1>2, NextType DEF TypeOK, Offset, Polled
  <2>3. CASE UNCHANGED <<committed, ours>>
    BY <1>2, <2>1, <2>2, <2>3
  <2>4. CASE CommitsBatch
    BY <1>2, <2>1, <2>2, <2>4 DEF CommitsBatch
  <2> QED BY <2>1, <2>3, <2>4
<1>3. ASSUME NEW p \in Partitions, OtherMember(p) PROVE CommittedWasAsked'
  BY <1>3 DEF OtherMember, TypeOK
<1>4. ASSUME NEW p \in Partitions, AutoCommit(p) PROVE CommittedWasAsked'
  BY <1>4 DEF AutoCommit
<1> QED BY <1>1, <1>2, <1>3, <1>4, CommitCases

\* Without auto-commit this consumer only commits offsets the program asked it to
\* commit, and nothing at all under DisableCommit: whatever the broker and the
\* other members do, and however many processes have come and gone.
THEOREM OnlyAskedCommitted == Spec => []CommittedWasAsked
<1>1. Init => CommittedWasAsked
  BY DEF Init, CommittedWasAsked, CommittedIsAsked
<1> QED BY <1>1, AskedStep, TypeCorrect, PTL DEF Spec

-----------------------------------------------------------------------------
(* Commits under the fence *)

LEMMA FencedStep == TypeOK /\ Fenced /\ [Next]_vars => Fenced'
<1> SUFFICES ASSUME TypeOK, Fenced, [Next]_vars, Synchronous' PROVE Fenced'
  BY DEF Fenced
<1>0. cfg' = cfg /\ Synchronous
  BY CommitCases DEF OtherMember, AutoCommit, Synchronous
<1>t. TypeOK'
  BY NextType
<1>f. /\ member => \A p \in assigned : committed[p] <= pos[p]
      /\ Working =>
           /\ lock
           /\ \A p \in Polled : p \in assigned /\ pos[p] = batch[p].hi
           /\ member => \A p \in Polled : committed[p] <= batch[p].lo
  BY <1>0 DEF Fenced
<1> USE DEF Fenced, Working, Polled
<1>1. CASE UNCHANGED <<member, assigned, committed, pos, pc, lock, batch>>
  BY <1>0, <1>1
<1>2. ASSUME NEW new \in SUBSET Partitions, Rebalance(new) PROVE Fenced'
  <2>1. /\ assigned' = new /\ pc' = pc
        /\ committed' = committed /\ ~Working
        /\ \A p \in new : pos'[p] = committed[p] \/ (member /\ p \in assigned /\ pos'[p] = pos[p])
    BY <1>f, <1>2 DEF Rebalance, TypeOK, program
  <2> QED BY <1>f, <2>1 DEF TypeOK, Offset
<1>3. CASE Evict
  BY <1>f, <1>3 DEF Evict, client, program
<1>4. ASSUME NEW p \in Partitions, OtherMember(p) PROVE Fenced'
  <2>1. UNCHANGED <<member, assigned, pos, pc, lock, batch>>
    BY <1>4 DEF OtherMember, client, program
  <2>2. member => \A q \in assigned : committed'[q] = committed[q]
    BY <1>4 DEF OtherMember, TypeOK
  <2> QED BY <1>f, <2>1, <2>2
<1>5. ASSUME NEW p \in Partitions, AutoCommit(p) PROVE Fenced'
  BY <1>0, <1>5 DEF AutoCommit, Synchronous
<1>6. ASSUME NEW upto \in [Partitions -> Offset], NEW then, Poll(upto, then)
      PROVE  Fenced'
  <2>1. /\ UNCHANGED <<committed, member, assigned>> /\ pos' = upto /\ lock'
        /\ batch' = [p \in Partitions |-> [lo |-> pos[p], next |-> pos[p], hi |-> upto[p]]]
        /\ \A p \in Partitions : IF p \in assigned THEN upto[p] >= pos[p]
                                                   ELSE upto[p] = pos[p]
    BY <1>0, <1>6 DEF Poll, ClientPoll, broker, Synchronous
  <2>2. member => \A p \in assigned : committed'[p] <= pos'[p]
    BY <1>f, <2>1 DEF TypeOK, Offset
  <2>3. \A p \in Polled' : p \in assigned' /\ pos'[p] = batch'[p].hi
    BY <2>1 DEF TypeOK, Offset
  <2>4. member => \A p \in Polled' : committed'[p] <= batch'[p].lo
    BY <1>f, <2>1, <2>3 DEF TypeOK, Offset
  <2> QED BY <2>1, <2>2, <2>3, <2>4
<1>7. ASSUME NEW upto \in [Partitions -> Offset], PollFails(upto) PROVE Fenced'
  <2>1. /\ UNCHANGED <<committed, member, assigned, pc>> /\ pos' = upto /\ pc = "idle"
        /\ \A p \in assigned : upto[p] >= pos[p]
    BY <1>7 DEF PollFails, ClientPoll, broker, TypeOK
  <2> QED BY <1>f, <2>1 DEF TypeOK, Offset
<1>8. ASSUME NEW p \in Partitions, HandleRecord(p) PROVE Fenced'
  <2>1. UNCHANGED <<committed, member, assigned, pos, pc, lock>>
    BY <1>8 DEF HandleRecord, broker, client
  <2>2. \A q \in Partitions : batch'[q].lo = batch[q].lo /\ batch'[q].hi = batch[q].hi
    BY <1>8 DEF HandleRecord, TypeOK
  <2> QED BY <1>f, <1>8, <2>1, <2>2 DEF HandleRecord, HandlerTurn
<1>9. CASE (\E p \in Partitions : HandlerStops(p)) \/ BatchHandled \/ ProcessBatch
  BY <1>f, <1>9 DEF HandlerStops, HandlerTurn, BatchHandled, ProcessBatch, broker, client
<1>10. CASE BatchSkip \/ PollReturn \/ Close \/ Restart
  BY <1>f, <1>10 DEF BatchSkip, PollReturn, Close, Restart, broker, client
<1>11. CASE CommitStep
  <2>1. UNCHANGED <<member, assigned, pos>> /\ pc = "commit" /\ pc' \in {"idle", "return"}
    BY <1>11 DEF CommitStep, SubscribeCommit, SubscribeCommitFails, BatchCommit, PollCommit
  <2>2. \A p \in Partitions : committed'[p] # committed[p] => committed'[p] <= pos[p]
    BY <1>f, <1>11, <2>1, CommitEffect DEF CommitsBatch, TypeOK, Offset
  <2> QED BY <1>f, <2>1, <2>2 DEF TypeOK
<1>12. CASE CloseReturns \/ Crash
  BY <1>12 DEF CloseReturns, Crash, Gone
<1>13. CASE UNCHANGED vars
  BY <1>1, <1>13 DEF vars, broker, client, program
<1> QED BY <1>2, <1>3, <1>4, <1>5, <1>6, <1>7, <1>8, <1>9, <1>10, <1>11, <1>12, <1>13
        DEF Next, CommitStep, SubscribePoll, PollBatch, PollOnce

\* No step takes an offset back, with synchronous commits under the fence.
LEMMA MonotoneStep ==
    ASSUME TypeOK, Fenced, [Next]_vars, Synchronous
    PROVE  \A p \in Partitions : committed'[p] >= committed[p]
<1>1. CASE UNCHANGED committed
  BY <1>1 DEF TypeOK, Offset
<1>2. CASE CommitStep
  <2>1. Working
    BY <1>2 DEF CommitStep, SubscribeCommit, SubscribeCommitFails, BatchCommit, PollCommit,
                Working
  <2>2. member => \A p \in Polled : committed[p] <= batch[p].lo
    BY <2>1 DEF Fenced
  <2> QED BY <1>1, <1>2, <2>2, CommitEffect DEF CommitsBatch, TypeOK, Offset
<1>3. ASSUME NEW p \in Partitions, OtherMember(p) \/ AutoCommit(p)
      PROVE  \A q \in Partitions : committed'[q] >= committed[q]
  <2>1. committed' = [committed EXCEPT ![p] = @ + 1]
    BY <1>3 DEF OtherMember, AutoCommit, Synchronous
  <2> QED BY <2>1 DEF TypeOK, Offset
<1> QED BY <1>1, <1>2, <1>3, CommitCases

THEOREM FenceHolds == Spec => []Fenced
<1>1. Init => Fenced
  BY DEF Init, Fenced, Working
<1> QED BY <1>1, FencedStep, TypeCorrect, PTL DEF Spec

\* However late a commit comes, and whatever the group did in between, it does not
\* take the group back behind an offset it has reached.
THEOREM CommitsOnlyAdvance == Spec => CommitMonotone
<1>1. TypeOK /\ Fenced /\ [Next]_vars =>
        [cfg.blockRebalance /\ cfg.disableAutoCommit =>
           \A p \in Partitions : committed'[p] >= committed[p]]_vars
  BY MonotoneStep DEF Synchronous
<1> QED BY <1>1, TypeCorrect, FenceHolds, PTL DEF Spec, CommitMonotone

-----------------------------------------------------------------------------
(* At most once *)

LEMMA HandedOutStep ==
    ASSUME TypeOK, Fenced, CallInv, HandedOutOnce, [Next]_vars
    PROVE  HandedOutOnce'
<1> SUFFICES ASSUME api' = "poll", Synchronous', ~cfg'.disableCommit PROVE HandedOutOnce'
  BY DEF HandedOutOnce
<1>0. UNCHANGED <<cfg, api>> /\ Synchronous /\ api = "poll" /\ ~cfg.disableCommit
  BY CommitCases DEF OtherMember, AutoCommit, Synchronous
<1>t. TypeOK'
  BY NextType
<1>m. \A p \in Partitions : committed'[p] >= committed[p]
  BY <1>0, MonotoneStep
<1>h. /\ pc \notin {"handle", "hold"}
      /\ \A p \in Partitions :
           /\ repeated[p] = {}
           /\ processed[p] \subseteq 0..committed[p]-1
           /\ pc = "return" /\ p \in Polled =>
                 /\ batch[p].hi <= committed[p]
                 /\ processed[p] \intersect (batch[p].lo..batch[p].hi-1) = {}
  BY <1>0 DEF HandedOutOnce
<1> USE DEF HandedOutOnce, Polled
<1>q. CASE /\ UNCHANGED <<processed, repeated>> /\ pc' \notin {"handle", "hold"}
           /\ pc' = "return" => pc = "return" /\ batch' = batch
  <2>1. \A p \in Partitions : processed'[p] \subseteq 0..committed'[p]-1
    BY <1>h, <1>m, <1>q, <1>t DEF TypeOK, Offset
  <2> QED BY <1>h, <1>m, <1>q, <1>t, <2>1 DEF TypeOK, Offset
<1>1. ASSUME NEW new \in SUBSET Partitions, Rebalance(new) PROVE HandedOutOnce'
  BY <1>h, <1>q, <1>1 DEF Rebalance, program, ghosts
<1>2. CASE Evict \/ BatchSkip \/ Close \/ Restart
  BY <1>h, <1>q, <1>2 DEF Evict, BatchSkip, Close, Restart, program, ghosts
<1>3. ASSUME NEW p \in Partitions, OtherMember(p) PROVE HandedOutOnce'
  <2>1. /\ committed' = [committed EXCEPT ![p] = @ + 1] /\ UNCHANGED <<pc, batch>>
        /\ processed' = [q \in Partitions |->
                             processed[q] \union (committed[q]..committed'[q]-1)]
        /\ repeated' = [q \in Partitions |->
               repeated[q] \union (processed[q] \intersect (committed[q]..committed'[q]-1))]
    BY <1>3 DEF OtherMember, Record, program
  <2>2. ASSUME NEW q \in Partitions, q # p
        PROVE  /\ committed'[q] = committed[q] /\ processed'[q] = processed[q]
               /\ repeated'[q] = repeated[q]
    <3>1. committed[q] \in Nat /\ committed'[q] = committed[q]
      BY <2>1, <2>2 DEF TypeOK, Offset
    <3>2. committed[q]..committed'[q]-1 = {}
      BY <3>1
    <3>3. /\ processed'[q] = processed[q] \union (committed[q]..committed'[q]-1)
          /\ repeated'[q] = repeated[q]
                 \union (processed[q] \intersect (committed[q]..committed'[q]-1))
      BY <2>1
    <3> QED BY <3>1, <3>2, <3>3
  <2>3. /\ committed[p] \in Nat /\ committed'[p] = committed[p] + 1
        /\ processed'[p] = processed[p] \union {committed[p]}
        /\ repeated'[p] = repeated[p] \union (processed[p] \intersect {committed[p]})
    <3>1. committed[p] \in Nat /\ committed'[p] = committed[p] + 1
      BY <2>1 DEF TypeOK, Offset
    <3>2. committed[p]..committed'[p]-1 = {committed[p]}
      BY <3>1
    <3>3. /\ processed'[p] = processed[p] \union (committed[p]..committed'[p]-1)
          /\ repeated'[p] = repeated[p]
                 \union (processed[p] \intersect (committed[p]..committed'[p]-1))
      BY <2>1
    <3> QED BY <3>1, <3>2, <3>3
  <2>4. repeated[p] = {} /\ processed[p] \subseteq 0..committed[p]-1
    BY <1>h
  <2>5. repeated'[p] = {} /\ processed'[p] \subseteq 0..committed'[p]-1
    <3>1. committed[p] \notin processed[p]
      BY <2>3, <2>4
    <3>2. repeated'[p] = {}
      BY <2>3, <2>4, <3>1
    <3>3. processed[p] \subseteq 0..committed'[p]-1 /\ committed[p] \in 0..committed'[p]-1
      BY <2>3, <2>4
    <3> QED BY <2>3, <3>2, <3>3
  <2>6. ASSUME NEW q \in Partitions
        PROVE  repeated'[q] = {} /\ processed'[q] \subseteq 0..committed'[q]-1
    <3>1. CASE q = p
      BY <2>5, <3>1
    <3>2. CASE q # p
      BY <1>h, <2>2, <3>2
    <3> QED BY <3>1, <3>2
  <2>7. ASSUME NEW q \in Partitions, pc' = "return", q \in Polled'
        PROVE  /\ batch'[q].hi <= committed'[q]
               /\ processed'[q] \intersect (batch'[q].lo..batch'[q].hi-1) = {}
    <3>1. /\ batch' = batch /\ q \in Polled /\ batch[q].hi <= committed[q]
          /\ processed[q] \intersect (batch[q].lo..batch[q].hi-1) = {}
      BY <1>h, <2>1, <2>7
    <3>2. batch[q].hi \in Nat /\ batch[q].lo \in Nat
      BY DEF TypeOK, Offset
    <3>3. CASE q # p
      BY <2>2, <3>1, <3>3
    <3>4. CASE q = p
      <4>1. batch[q].hi <= committed[p] /\ committed[p] \notin batch[q].lo..batch[q].hi-1
        BY <2>3, <3>1, <3>2, <3>4
      <4> QED BY <2>3, <3>1, <3>2, <3>4, <4>1
    <3> QED BY <3>3, <3>4
  <2>8. pc' = pc
    BY <2>1
  <2> QED BY <1>h, <2>6, <2>7, <2>8
<1>4. ASSUME NEW p \in Partitions, AutoCommit(p) PROVE HandedOutOnce'
  BY <1>0, <1>4 DEF AutoCommit, Synchronous
<1>5. ASSUME NEW upto, SubscribePoll(upto) \/ PollBatch(upto) \/ PollOnce(upto)
                       \/ PollFails(upto)
      PROVE  HandedOutOnce'
  BY <1>0, <1>h, <1>q, <1>5 DEF SubscribePoll, PollBatch, PollOnce, Poll, PollFails, ghosts
<1>6. CASE (\E p \in Partitions : HandleRecord(p) \/ HandlerStops(p))
           \/ BatchHandled \/ ProcessBatch
  BY <1>h, <1>6 DEF HandleRecord, HandlerStops, HandlerTurn, BatchHandled, ProcessBatch
<1>7. CASE SubscribeCommit \/ SubscribeCommitFails \/ BatchCommit
  BY <1>0, <1>7 DEF SubscribeCommit, SubscribeCommitFails, BatchCommit
<1>8. CASE PollCommit
  <2>1. UNCHANGED <<processed, repeated>> /\ pc' \in {"idle", "return"} /\ pc = "commit"
    BY <1>8 DEF PollCommit
  <2>2. CASE pc' = "idle"
    BY <1>q, <2>1, <2>2
  <2>3. CASE pc' = "return"
    <3>1. batch' = batch /\ CommitRecords
      BY <1>8, <2>3 DEF PollCommit
    <3>2. CASE Polled = {}
      <4>1. \A p \in Partitions : processed'[p] \subseteq 0..committed'[p]-1
        BY <1>h, <1>m, <1>t, <2>1 DEF TypeOK, Offset
      <4> QED BY <1>h, <2>1, <2>3, <3>1, <3>2, <4>1
    <3>3. CASE Polled # {}
      <4>1. CommitAcked(Polled, PolledTo)
        BY <1>0, <3>1, <3>3 DEF CommitRecords, CommitsNothing, Synchronous
      <4>2. member /\ \A p \in Polled : committed'[p] = batch[p].hi
        BY <3>3, <4>1 DEF CommitAcked, PolledTo
      <4>3. \A p \in Polled : committed[p] <= batch[p].lo
        BY <1>0, <2>1, <4>2 DEF Fenced, Working
      <4>4. \A p \in Partitions : processed'[p] \subseteq 0..committed'[p]-1
        BY <1>h, <1>m, <1>t, <2>1 DEF TypeOK, Offset
      <4>5. \A p \in Polled : processed[p] \intersect (batch[p].lo..batch[p].hi-1) = {}
        BY <1>h, <4>3 DEF TypeOK, Offset
      <4>6. \A p \in Polled : batch[p].hi <= committed'[p]
        BY <4>2 DEF TypeOK, Offset
      <4> QED BY <1>h, <2>1, <2>3, <3>1, <4>4, <4>5, <4>6
    <3> QED BY <3>2, <3>3
  <2> QED BY <2>1, <2>2, <2>3
<1>9. CASE PollReturn
  <2>1. /\ processed' = [p \in Partitions |->
                            processed[p] \union (batch[p].lo..batch[p].hi-1)]
        /\ repeated' = [p \in Partitions |->
               repeated[p] \union (processed[p] \intersect (batch[p].lo..batch[p].hi-1))]
        /\ UNCHANGED committed /\ pc = "return" /\ pc' = "idle"
    BY <1>9 DEF PollReturn, Record, broker
  <2>2. \A p \in Partitions : p \notin Polled => batch[p].lo..batch[p].hi-1 = {}
    BY DEF TypeOK, Offset
  <2>3. \A p \in Partitions : repeated'[p] = {}
    BY <1>h, <2>1, <2>2
  <2>4. ASSUME NEW p \in Partitions PROVE processed'[p] \subseteq 0..committed'[p]-1
    BY <1>h, <2>1, <2>2 DEF TypeOK, Offset
  <2> QED BY <2>1, <2>3, <2>4
<1>10. CASE CloseReturns \/ Crash
  BY <1>q, <1>10 DEF CloseReturns, Crash, Gone, ghosts
<1>11. CASE UNCHANGED vars
  BY <1>h, <1>q, <1>11 DEF vars, program, ghosts
<1> QED BY <1>1, <1>2, <1>3, <1>4, <1>5, <1>6, <1>7, <1>8, <1>9, <1>10, <1>11 DEF Next

\* With synchronous commits and the rebalance blocked Poll hands out no record that
\* any member has handled before, over evictions, lost replies and crashes.
THEOREM PollAtMostOnce == Spec => []AtMostOnce
<1>1. Init => HandedOutOnce /\ CallInv
  BY DEF Init, HandedOutOnce, CallInv, LockFreeBetweenCalls
<1>2. HandedOutOnce => AtMostOnce
  BY DEF HandedOutOnce, AtMostOnce, Synchronous
<1> QED BY <1>1, <1>2, HandedOutStep, CallStep, FenceHolds, TypeCorrect, PTL DEF Spec

-----------------------------------------------------------------------------
(* At least once *)

LEMMA NothingSkippedStep ==
    ASSUME TypeOK, CallInv, NothingSkipped, [Next]_vars
    PROVE  NothingSkipped'
<1> SUFFICES ASSUME api' # "poll", resumed' = {}, NEW p \in Partitions
             PROVE  NoneSkipped(p)'
  BY DEF NothingSkipped
<1>a. api' = api
  BY CommitCases DEF OtherMember, AutoCommit
<1>t. TypeOK'
  BY NextType
<1>r. resumed = {}
  BY DEF Next, Rebalance, Evict, OtherMember, AutoCommit, SubscribePoll, PollBatch,
         PollOnce, Poll, PollFails, ClientPoll, HandleRecord, HandlerStops, BatchHandled,
         SubscribeCommit, SubscribeCommitFails, ProcessBatch, BatchCommit, BatchSkip,
         PollCommit, PollReturn, Close, CloseReturns, Crash, Gone, Restart, vars, program
<1>h. NoneSkipped(p)
  BY <1>a, <1>r DEF NothingSkipped
<1>n. /\ committed[p] \in Nat /\ head[p] \in Nat /\ pos[p] \in Nat
      /\ batch[p].lo \in Nat /\ batch[p].next \in Nat /\ batch[p].hi \in Nat
      /\ batch[p].lo <= batch[p].next /\ batch[p].next <= batch[p].hi
      /\ p \in Polled <=> batch[p].lo < batch[p].hi
  BY DEF TypeOK, Offset, Polled
<1> USE DEF Handled, NoneSkipped
<1>1. ASSUME NEW new \in SUBSET Partitions, Rebalance(new) PROVE NoneSkipped(p)'
  <2>1. /\ UNCHANGED <<committed, processed, batch, pc, aborted>> /\ Polled' = Polled
        /\ Pending(p)' = Pending(p)
    BY <1>1 DEF Rebalance, program, ghosts, Polled, Pending
  <2>2. CASE pos'[p] = committed[p] /\ head'[p] = committed[p]
    BY <1>a, <1>h, <2>1, <2>2
  <2>3. CASE pos'[p] = pos[p] /\ head'[p] = head[p] /\ (p \in assigned' => p \in assigned)
    BY <1>a, <1>h, <2>1, <2>3
  <2>4. \/ pos'[p] = committed[p] /\ head'[p] = committed[p]
        \/ pos'[p] = pos[p] /\ head'[p] = head[p] /\ (p \in assigned' => p \in assigned)
    BY <1>1 DEF Rebalance, TypeOK
  <2> QED BY <2>2, <2>3, <2>4
<1>2. CASE Evict
  BY <1>a, <1>h, <1>2 DEF Evict, client, program, ghosts, Polled, Pending
<1>3. ASSUME NEW q \in Partitions, OtherMember(q) PROVE NoneSkipped(p)'
  <2>1. /\ UNCHANGED <<head, pos, assigned, batch, pc, aborted>> /\ Polled' = Polled
        /\ Pending(p)' = Pending(p)
    BY <1>3 DEF OtherMember, client, program, Polled, Pending
  <2>2. processed'[p] = processed[p] \union (committed[p]..committed'[p]-1)
    BY <1>3 DEF OtherMember, Record
  <2>3. committed'[p] \in Nat
    BY <1>t DEF TypeOK, Offset
  <2>4. Handled(p, committed[p])'
    BY <1>h, <1>n, <2>2, <2>3
  <2> QED BY <1>a, <1>h, <2>1, <2>2, <2>4
<1>4. ASSUME NEW q \in Partitions, AutoCommit(q) PROVE NoneSkipped(p)'
  <2>1. /\ UNCHANGED <<head, pos, assigned, batch, pc, aborted, processed>>
        /\ Polled' = Polled /\ Pending(p)' = Pending(p)
    BY <1>4 DEF AutoCommit, program, ghosts, Polled, Pending
  <2>2. committed'[p] = committed[p] \/ committed'[p] = head[p]
    BY <1>4 DEF AutoCommit, TypeOK
  <2> QED BY <1>a, <1>h, <2>1, <2>2
<1>5. ASSUME NEW upto \in [Partitions -> Offset], NEW then \in {"handle", "hold"},
             Poll(upto, then)
      PROVE  NoneSkipped(p)'
  <2>1. /\ UNCHANGED <<committed, assigned, aborted, processed>> /\ pos' = upto
        /\ aborted = {} /\ pc = "idle" /\ pc' = then
        /\ head'[p] = IF p \in assigned THEN pos[p] ELSE head[p]
        /\ batch'[p] = [lo |-> pos[p], next |-> pos[p], hi |-> upto[p]]
        /\ IF p \in assigned THEN upto[p] >= pos[p] ELSE upto[p] = pos[p]
    BY <1>5 DEF Poll, ClientPoll, broker, ghosts
  <2>2. p \in assigned => Handled(p, pos[p])
    BY <1>h, <2>1 DEF Pending
  <2>3. p \in Polled' => p \in assigned
    BY <1>n, <2>1 DEF Polled
  <2>4. p \in assigned' => 0..pos'[p]-1 \subseteq processed'[p] \union Pending(p)'
    <3>1. Pending(p)' = pos[p]..upto[p]-1 /\ upto[p] \in Nat
      BY <2>1 DEF Pending, Offset
    <3> QED BY <1>n, <2>1, <2>2, <3>1
  <2>5. pc' # "commit"
    BY <2>1
  <2> QED BY <1>h, <2>1, <2>2, <2>3, <2>4, <2>5
<1>6. ASSUME NEW upto \in [Partitions -> Offset], PollFails(upto) PROVE NoneSkipped(p)'
  <2>1. /\ UNCHANGED <<committed, assigned, processed, batch, pc>> /\ pos' = upto
        /\ aborted = {} /\ pc = "idle" /\ (aborted' = {} => upto = pos)
        /\ head'[p] = IF p \in assigned THEN pos[p] ELSE head[p]
        /\ Polled' = Polled /\ Pending(p)' = {}
    BY <1>6 DEF PollFails, ClientPoll, broker, ghosts, Polled, Pending
  <2>2. p \in assigned => Handled(p, pos[p])
    BY <1>h, <2>1 DEF Pending
  <2> QED BY <1>h, <2>1, <2>2
<1>7. ASSUME NEW q \in Partitions, HandleRecord(q) PROVE NoneSkipped(p)'
  <2>1. /\ UNCHANGED <<committed, head, pos, assigned, pc, aborted>> /\ pc = "handle"
        /\ processed'[p] = processed[p] \union (batch[p].next..batch'[p].next-1)
        /\ batch' = [batch EXCEPT ![q].next = @ + 1] /\ q \in Rest
    BY <1>7 DEF HandleRecord, HandlerTurn, Record, broker, client
  <2>2. Polled' = Polled /\ batch'[p].hi = batch[p].hi
    BY <2>1 DEF Polled, TypeOK
  <2>3. batch'[p].next = batch[p].next \/ (batch'[p].next = batch[p].next + 1 /\ p \in Polled)
    BY <2>1, <1>n DEF Rest, TypeOK
  <2>4. p \in Polled' => Handled(p, batch[p].next)'
    BY <1>h, <1>n, <2>1, <2>2, <2>3
  <2>5. /\ Pending(p) = batch[p].next..batch[p].hi-1
        /\ Pending(p)' = batch'[p].next..batch[p].hi-1
    BY <2>1, <2>2 DEF Pending
  <2>6. Pending(p) \subseteq processed'[p] \union Pending(p)'
    BY <1>n, <2>1, <2>3, <2>5
  <2> QED BY <1>h, <2>1, <2>4, <2>6
<1>8. ASSUME NEW q \in Partitions, HandlerStops(q) PROVE NoneSkipped(p)'
  BY <1>a, <1>h, <1>8 DEF HandlerStops, HandlerTurn, CallInv, broker, client, ghosts, Polled
<1>9. CASE BatchHandled
  <2>1. batch[p].next = batch[p].hi /\ pc = "handle"
    BY <1>9, <1>n DEF BatchHandled, Rest
  <2>2. Pending(p) = {}
    BY <1>n, <2>1 DEF Pending
  <2> QED BY <1>a, <1>h, <1>9, <2>1, <2>2 DEF BatchHandled, broker, client, ghosts, Polled
<1>10. CASE ProcessBatch
  <2>1. processed'[p] = processed[p] \union (batch[p].lo..batch[p].hi-1) /\ pc = "hold"
    BY <1>10 DEF ProcessBatch, Record
  <2>2. Pending(p) \subseteq processed'[p]
    BY <1>n, <2>1 DEF Pending
  <2>3. p \in Polled => 0..batch[p].hi-1 \subseteq processed'[p]
    BY <1>h, <1>n, <2>1
  <2> QED BY <1>a, <1>h, <1>10, <2>1, <2>2, <2>3 DEF ProcessBatch, broker, client, Polled
<1>11. CASE BatchSkip
  <2>1. p \notin Polled'
    BY <1>11 DEF BatchSkip, NoBatch, Polled
  <2>2. aborted' = {} => aborted = {} /\ Pending(p) = {}
    BY <1>11, <1>n DEF BatchSkip, Pending
  <2> QED BY <1>h, <1>11, <2>1, <2>2 DEF BatchSkip, broker, ghosts
<1>12. CASE CommitStep
  <2>1. /\ UNCHANGED <<head, pos, assigned, processed>> /\ pc = "commit"
        /\ api # "poll" /\ batch' = NoBatch /\ UNCHANGED aborted
    BY <1>a, <1>12 DEF CommitStep, SubscribeCommit, SubscribeCommitFails, BatchCommit,
                       PollCommit
  <2>2. p \notin Polled'
    BY <2>1 DEF NoBatch, Polled
  <2>3. Pending(p) = {}
    BY <2>1 DEF Pending
  <2>4. \/ committed'[p] = committed[p]
        \/ p \in Polled /\ api = "subscribe" /\ committed'[p] = batch[p].next
        \/ p \in Polled /\ api = "batch" /\ committed'[p] = batch[p].hi
    <3>1. api \in {"subscribe", "batch"}
      BY <2>1 DEF TypeOK, Apis
    <3> QED BY <1>12, <3>1, CommitEffect DEF CommitsBatch
  <2>5. Handled(p, committed[p])'
    BY <1>h, <2>1, <2>4
  <2> QED BY <1>h, <2>1, <2>2, <2>3, <2>5
<1>13. CASE PollReturn
  <2>1. processed[p] \subseteq processed'[p] /\ pc = "return" /\ pc' = "idle"
    BY <1>13 DEF PollReturn, Record
  <2>2. p \notin Polled' /\ Pending(p) = {}
    BY <1>13, <2>1 DEF PollReturn, NoBatch, Polled, Pending
  <2> QED BY <1>h, <1>13, <2>1, <2>2 DEF PollReturn, broker, client
<1>14. CASE Close \/ Restart
  BY <1>a, <1>h, <1>14 DEF Close, Restart, broker, client, ghosts, Polled, Pending
<1>15. CASE CloseReturns \/ Crash
  BY <1>h, <1>15 DEF CloseReturns, Crash, Gone, ghosts, NoBatch, Polled
<1>16. CASE UNCHANGED vars
  BY <1>h, <1>16 DEF vars, broker, client, program, ghosts, Polled, Pending
<1> HIDE DEF Handled, NoneSkipped
<1>17. CASE \E upto \in [Partitions -> Offset] : SubscribePoll(upto) \/ PollBatch(upto)
                                                 \/ PollOnce(upto) \/ PollFails(upto)
  <2>1. PICK upto \in [Partitions -> Offset] : SubscribePoll(upto) \/ PollBatch(upto)
                                               \/ PollOnce(upto) \/ PollFails(upto)
    BY <1>17
  <2>2. CASE SubscribePoll(upto)
    BY <1>5, <2>2 DEF SubscribePoll
  <2>3. CASE PollBatch(upto)
    BY <1>5, <2>3 DEF PollBatch
  <2>4. CASE PollOnce(upto)
    BY <1>a, <2>4 DEF PollOnce
  <2>5. CASE PollFails(upto)
    BY <1>6, <2>5
  <2> QED BY <2>1, <2>2, <2>3, <2>4, <2>5
<1>18. NoneSkipped(p)'
  <2>1. CASE \/ \E new \in SUBSET Partitions : Rebalance(new)
             \/ Evict
             \/ \E q \in Partitions : OtherMember(q) \/ AutoCommit(q)
    BY <1>1, <1>2, <1>3, <1>4, <2>1
  <2>2. CASE (\E q \in Partitions : HandleRecord(q) \/ HandlerStops(q)) \/ BatchHandled
    BY <1>7, <1>8, <1>9, <2>2
  <2>3. CASE ProcessBatch \/ BatchSkip \/ CommitStep \/ PollReturn
    BY <1>10, <1>11, <1>12, <1>13, <2>3
  <2>4. CASE Close \/ Restart \/ CloseReturns \/ Crash \/ UNCHANGED vars
    BY <1>14, <1>15, <1>16, <2>4
  <2> QED BY <1>17, <2>1, <2>2, <2>3, <2>4 DEF Next, CommitStep
<1> QED BY <1>18

\* Every record below the committed offset has been handled, over crashes, evictions,
\* rebalances, lost replies and auto-commit, unless a process polled again after it
\* had dropped records of a batch.
THEOREM HandledAtLeastOnce == Spec => []AtLeastOnce
<1>1. Init => NothingSkipped /\ CallInv
  <2> SUFFICES ASSUME Init PROVE NothingSkipped /\ CallInv
    OBVIOUS
  <2>1. CallInv
    BY DEF Init, CallInv, LockFreeBetweenCalls
  <2>2. 0..0-1 = {}
    OBVIOUS
  <2>3. Polled = {} /\ assigned = {}
    BY DEF Init, Polled, NoBatch
  <2> QED BY <2>1, <2>2, <2>3 DEF Init, NothingSkipped, NoneSkipped, Handled
<1>2. NothingSkipped => AtLeastOnce
  BY DEF NothingSkipped, NoneSkipped, AtLeastOnce, Handled
<1> QED BY <1>1, <1>2, NothingSkippedStep, CallStep, TypeCorrect, PTL DEF Spec
=============================================================================
