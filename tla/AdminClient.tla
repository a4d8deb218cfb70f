----------------------------- MODULE AdminClient -----------------------------
(***************************************************************************)
(* Admin.DescribeTopic (pkg/rp/admin_describe.go) over a cluster that goes *)
(* on while it asks: five requests, one after the other, each of which may *)
(* fail, and what it makes of the answers it got.                          *)
(*                                                                         *)
(* One topic.  A replica's size is the number of records it holds; records *)
(* are appended at the end of a log and deleted at its start, a topic may  *)
(* be deleted and made again, leaders move, and a broker's log dirs may be *)
(* missing from an answer or carry an error.  The topic is modelled while  *)
(* DescribeTopic asks about it; when it begins, the log holds anything.    *)
(***************************************************************************)
EXTENDS Naturals, Sequences, FiniteSets, Functions

CONSTANTS
    Partitions, Brokers,
    MaxOffset,      \* bound: offsets of a partition
    MaxMoves        \* bound: leader moves and recreations of the topic

ASSUME OffsetsAssumption == MaxOffset \in Nat /\ MaxMoves \in Nat

ASSUME ClusterAssumption ==
    IsFiniteSet(Partitions) /\ IsFiniteSet(Brokers) /\ Brokers # {}

VARIABLES
    log,            \* each partition's start and end offset
    leader,         \* each partition's leader
    moves,          \* leader moves and recreations so far
    asking,         \* the request DescribeTopic makes next; 0: none
    answers,        \* what it has got: leader, start, end, sizes; or nothing
    detail,         \* the TopicDetail it returned last; none after an error
    recreated,      \* the topic was recreated since DescribeTopic began
    moved           \* a leader moved since DescribeTopic began

cluster == <<log, leader, moves, recreated, moved>>
describing == <<asking, answers, detail>>

\* Mutant: the end offsets are listed first.
RequestsSwapped == <<"metadata", "end", "start", "logDirs", "configs">>

Requests == <<"metadata", "start", "end", "logDirs", "configs">>

Records == SumFunction([p \in Partitions |-> log[p].end - log[p].start])

Zero == [p \in Partitions |-> 0]

Logs == {l \in [start : 0..MaxOffset, end : 0..MaxOffset] : l.start <= l.end}
Empty == [p \in Partitions |-> [start |-> 0, end |-> 0]]
Unled == [p \in Partitions |-> CHOOSE b \in Brokers : TRUE]

\* What an answer that never came counts as.  counted and held are no part of the
\* answers, only of the properties: the records there were when the end offsets
\* were listed, of a topic that was not recreated, and when all the log dirs were
\* and no leader had moved.
NoAnswers == [leader |-> <<>>, start |-> Zero, end |-> Zero, dirs |-> <<>>,
              counted |-> <<>>, held |-> <<>>]
NoDetail == <<>>

Topic(logs, leaders) ==
    /\ log' = logs /\ leader' = leaders
    /\ moves' = 0 /\ recreated' = FALSE /\ moved' = FALSE

AdminInit ==
    /\ log = Empty /\ leader = Unled
    /\ moves = 0 /\ recreated = FALSE /\ moved = FALSE
    /\ asking = 0 /\ answers = NoAnswers /\ detail = NoDetail

-----------------------------------------------------------------------------
(* The cluster (external) *)

Append1(p) ==
    /\ log[p].end < MaxOffset
    /\ log' = [log EXCEPT ![p].end = @ + 1]
    /\ UNCHANGED <<leader, moves, recreated, moved, describing>>

\* Retention and DeleteRecords.
Delete1(p) ==
    /\ log[p].start < log[p].end
    /\ log' = [log EXCEPT ![p].start = @ + 1]
    /\ UNCHANGED <<leader, moves, recreated, moved, describing>>

Move == moves < MaxMoves /\ moves' = moves + 1

MoveLeader(p, b) ==
    /\ b # leader[p] /\ Move
    /\ leader' = [leader EXCEPT ![p] = b] /\ moved' = TRUE
    /\ UNCHANGED <<log, recreated, describing>>

Recreate ==
    /\ Move
    /\ log' = Empty
    /\ recreated' = TRUE
    /\ UNCHANGED <<leader, moved, describing>>

-----------------------------------------------------------------------------
(* DescribeTopic *)

\* Mutant: each replica counts.
LeaderSizeOfAll(a, p) == SumFunction([b \in DOMAIN a.dirs |-> a.dirs[b][p]])

\* leaderPartitionSizes: what the broker the metadata names says of p.
LeaderSize(a, p) == IF a.leader[p] \in DOMAIN a.dirs THEN a.dirs[a.leader[p]][p] ELSE 0

\* topicPartitionSizes.
AllSizes(a, p) == SumFunction([b \in DOMAIN a.dirs |-> a.dirs[b][p]])

\* The detail is put together from what was answered; the rest counts as zero,
\* and a partition that ends before it starts as empty.
Detail(a) ==
    <<[messages |-> SumFunction([p \in Partitions |->
                      IF a.end[p] >= a.start[p] THEN a.end[p] - a.start[p] ELSE 0]),
       size |-> SumFunction([p \in Partitions |-> LeaderSize(a, p)]),
       allSize |-> SumFunction([p \in Partitions |-> AllSizes(a, p)]),
       written |-> SumFunction([p \in Partitions |-> a.end[p]]),
       counted |-> IF recreated THEN <<>> ELSE a.counted,
       held |-> IF moved THEN <<>> ELSE a.held]>>

BeginDescribe ==
    /\ asking = 0
    /\ asking' = 1 /\ answers' = NoAnswers /\ detail' = NoDetail
    /\ \E logs \in [Partitions -> Logs], leaders \in [Partitions -> Brokers] :
          Topic(logs, leaders)

Asks(what) == asking # 0 /\ Requests[asking] = what

EndDescribe(d) ==
    /\ detail' = d /\ asking' = 0 /\ answers' = NoAnswers
    /\ Topic(Empty, Unled)

Answered(a) ==
    IF asking = Len(Requests) THEN EndDescribe(Detail(a))
    ELSE /\ answers' = a /\ asking' = asking + 1
         /\ UNCHANGED <<detail, cluster>>

MetadataAnswered ==
    /\ Asks("metadata")
    /\ Answered([answers EXCEPT !.leader = leader])

\* Only the metadata request's failure is one of DescribeTopic.
MetadataFails ==
    /\ Asks("metadata")
    /\ EndDescribe(NoDetail)

StartAnswered ==
    /\ Asks("start")
    /\ Answered([answers EXCEPT !.start = [p \in Partitions |-> log[p].start]])

EndAnswered ==
    /\ Asks("end")
    /\ Answered([answers EXCEPT !.end = [p \in Partitions |-> log[p].end],
                                !.counted = <<Records>>])

\* The leader's replica is complete; the others hold all or nothing yet.
LogDirsAnswered(answering) ==
    /\ Asks("logDirs")
    /\ \E behind \in SUBSET Partitions :
          Answered([answers EXCEPT
            !.held = IF answering = Brokers THEN <<Records>> ELSE <<>>,
            !.dirs = [b \in answering |->
                        [p \in Partitions |->
                           IF b # leader[p] /\ p \in behind THEN 0
                           ELSE log[p].end - log[p].start]]])

ConfigsAnswered ==
    /\ Asks("configs")
    /\ Answered(answers)

RequestFails ==
    /\ asking # 0 /\ ~Asks("metadata")
    /\ Answered(answers)

DescribeAnswered ==
    \/ MetadataAnswered \/ StartAnswered \/ EndAnswered \/ ConfigsAnswered
    \/ \E answering \in SUBSET Brokers : LogDirsAnswered(answering)

DescribeFails == MetadataFails \/ RequestFails

ClusterNext ==
    /\ asking # 0
    /\ \/ \E p \in Partitions : Append1(p) \/ Delete1(p)
       \/ \E p \in Partitions, b \in Brokers : MoveLeader(p, b)
       \/ Recreate
=============================================================================
