------------------------- MODULE LiveTailFeedProofs --------------------------
(***************************************************************************)
(* Proofs about what the live tail shows, for every number of topics,      *)
(* sessions and records and for every capacity: that no record is shown    *)
(* twice, and that LiveTail implements TailFeed.                           *)
(*                                                                         *)
(* The offsets of a session move fetched -> msgCh -> inflight -> lines.    *)
(* The invariant says where they are on that way: Handed(s) is the last    *)
(* one a pump has taken out of msgCh, the channel holds the ones behind it *)
(* up to sent[s], and nothing beyond Handed(s) is in a message or a line.  *)
(***************************************************************************)
EXTENDS LiveTailFeed, LiveTailProofs, WellFoundedInduction

USE BoundsAssumption, TopicsAssumption

Handed(s) == sent[s] - Len(msgCh[s])

\* Where sessions are in their life.  The latest one is the only one that can be
\* held, and what it has read of its topic is there.
LifeInv ==
    /\ consumer \in {0, started}
    /\ forked \subseteq 1..started
    /\ \A s \in Sessions :
         /\ s > started => pc[s] = "idle" /\ ~errCh[s]
         /\ s <= started => topicOf[s] # NoTopic /\ fetched[s] <= log[topicOf[s]]
         /\ pc[s] \in {"idle", "attach"} => fetched[s] = 0
         /\ pc[s] # "deliver" => sent[s] = fetched[s]

\* The channel of a session holds the offsets up to the one sent last.
QueueInv ==
    /\ \A s \in Sessions :
         /\ Len(msgCh[s]) <= sent[s]
         /\ \A i \in DOMAIN msgCh[s] : msgCh[s][i] = Handed(s) + i
    /\ \A m \in inflight : m.sess <= started /\ m.off <= Handed(m.sess)

DistinctLines(ls) ==
    \A i, j \in DOMAIN ls : i # j /\ ls[i].off # 0 => ls[i] # ls[j]

\* A record that is shown has been taken from the channel and is not on its way.
LinesInv ==
    /\ \A i \in DOMAIN lines : lines[i].off # 0 =>
         /\ lines[i].sess \in 1..started
         /\ lines[i].off <= Handed(lines[i].sess)
         /\ lines[i] \notin inflight
    /\ DistinctLines(lines)

\* Whatever the session has got, or will get, lies above the bound.
Above(s, bound) ==
    /\ pc[s] \in {"poll", "deliver"} => bound <= sent[s]
    /\ msgCh[s] # <<>> => bound <= Handed(s)
    /\ \A m \in inflight : m.sess = s /\ m.off # 0 => bound < m.off
    /\ \A i \in DOMAIN lines : lines[i].sess = s /\ lines[i].off # 0 => bound < lines[i].off

\* A later session on the same topic begins above all the earlier one has fetched.
LaterInv ==
    \A r, s \in 1..started : r < s /\ topicOf[r] = topicOf[s] => Above(s, fetched[r])

\* A session that did not fork has one pump waiting or one message on its way,
\* never both, and the message is the record it took last.
SinglePump ==
    \A s \in Sessions \ forked :
        /\ pumps[s] <= 1
        /\ \A m \in inflight : m.sess = s =>
             /\ pumps[s] = 0
             /\ m.off \in {0, Handed(s)}
             /\ \A n \in inflight : n.sess = s => n = m

-----------------------------------------------------------------------------
(* What a step does to the feeds *)

\* Nothing but the views moves, and perhaps the consumer is stopped.
Calm ==
    /\ UNCHANGED <<started, topicOf, pc, pumps, feedVars, lines, log>>
    /\ consumer' \in {0, consumer}

Starts(topic) == StartSucceeds(topic) /\ UNCHANGED <<feedVars, log>>

\* start() could not make a consumer and says so.
StartErrorShown ==
    /\ UNCHANGED <<started, topicOf, pc, pumps, feedVars, log>>
    /\ consumer' = 0 /\ lines' = AppendLine(StartError)

LinesCleared ==
    /\ UNCHANGED <<view, paused, consumer, started, topicOf, pc, pumps, feedVars, log>>
    /\ lines' = <<>>

LEMMA StartTailKinds ==
    ASSUME NEW topic \in Targets, StartTail(topic), UNCHANGED <<feedVars, log>>
    PROVE  Starts(topic) \/ StartErrorShown \/ Calm
BY DEF StartTail, StartFails, StopTail, Starts, StartErrorShown, Calm

LEMMA OpenDetailKinds ==
    ASSUME TypeInv, OpenDetail
    PROVE  (\E topic \in Targets : Starts(topic)) \/ StartErrorShown \/ Calm
<1>1. PICK t \in ReadTarget : StartTail(t)
  BY DEF OpenDetail
<1>2. t \in Targets
  BY DEF TypeInv, TypeOK, UIType, ReadTarget, Targets
<1> QED BY <1>1, <1>2, StartTailKinds DEF OpenDetail

LEMMA StepKinds ==
    ASSUME TypeInv, [Next]_vars
    PROVE  \/ Calm \/ StartErrorShown \/ LinesCleared
           \/ \E topic \in Targets : Starts(topic)
           \/ \E t \in Topics : Produce(t)
           \/ \E m \in inflight : TailUpdate(m) \/ TailDropped(m)
           \/ \E s \in Sessions : Goroutine(s) \/ Pump(s)
<1> USE DEF startVars
<1>1. CASE KeyReload
  <2>1. tailTarget \in Targets
    BY DEF TypeInv, TypeOK, TailType
  <2> QED BY <1>1, <2>1, StartTailKinds DEF KeyReload
<1>2. CASE KeyClear
  BY <1>2 DEF KeyClear, LinesCleared, uiVars
<1>3. CASE KeyBackFromDetail \/ Quit
  BY <1>3 DEF KeyBackFromDetail, Quit, StopTail, Calm
<1>4. CASE KeyPause \/ KeyTab \/ (\E v \in Views \ {"detail"} : LeaveFor(v))
           \/ (\E t \in Topics : KeyEnter(t))
  BY <1>4 DEF KeyPause, KeyTab, LeaveFor, KeyEnter, Calm
<1>5. CASE LeaveHelp
  BY <1>5, OpenDetailKinds DEF LeaveHelp, Calm
<1>6. CASE DeliverSwitch
  BY <1>6, OpenDetailKinds DEF DeliverSwitch
<1>7. CASE \E t \in Topics : RunOpen(t)
  BY <1>7 DEF RunOpen, Calm
<1>8. CASE UNCHANGED vars
  BY <1>8 DEF vars, Calm
<1> QED BY <1>1, <1>2, <1>3, <1>4, <1>5, <1>6, <1>7, <1>8 DEF Next, Key

-----------------------------------------------------------------------------
(* Lines *)

\* The new window is the tail of the old one and the line behind it.
LEMMA AppendLineShift ==
    ASSUME lines \in Seq(Line), NEW line \in Line
    PROVE  \E d \in Nat :
             /\ DOMAIN AppendLine(line) = 1..(Len(lines) + 1 - d)
             /\ \A i \in 1..(Len(lines) + 1 - d) :
                  AppendLine(line)[i] =
                    IF i + d = Len(lines) + 1 THEN line ELSE lines[i + d]
<1> DEFINE all == Append(lines, line)
           n == Len(all)
<1>1. /\ all \in Seq(Line) /\ n = Len(lines) + 1 /\ n \in Nat /\ Len(lines) \in Nat
      /\ DOMAIN all = 1..n
      /\ \A i \in 1..n : all[i] = IF i = Len(lines) + 1 THEN line ELSE lines[i]
  BY AppendProperties, LenProperties
<1> HIDE DEF all
<1>2. CASE n > MaxLines
  <2> DEFINE d == n - MaxLines
  <2>1. d \in Nat /\ d + 1 \in 1..n+1 /\ d + 1 <= n
    BY <1>1, <1>2
  <2>2. /\ Len(SubSeq(all, d + 1, n)) = n - d
        /\ SubSeq(all, d + 1, n) \in Seq(Line)
        /\ \A i \in 1..(n - d) : SubSeq(all, d + 1, n)[i] = all[d + i]
    BY <1>1, <2>1, SubSeqProperties
  <2>3. AppendLine(line) = SubSeq(all, d + 1, n)
    BY <1>2 DEF AppendLine, all
  <2>4. DOMAIN AppendLine(line) = 1..(n - d)
    BY <2>2, <2>3, LenProperties
  <2>5. ASSUME NEW i \in 1..(n - d)
        PROVE  AppendLine(line)[i] = IF i + d = Len(lines) + 1 THEN line ELSE lines[i + d]
    <3>1. d + i \in 1..n /\ d + i = i + d
      BY <1>1, <2>1
    <3> QED BY <1>1, <2>2, <2>3, <3>1
  <2>6. n - d = Len(lines) + 1 - d
    BY <1>1, <2>1
  <2>7. d \in Nat
    BY <2>1
  <2> HIDE DEF d, n
  <2>8. /\ DOMAIN AppendLine(line) = 1..(Len(lines) + 1 - d)
        /\ \A i \in 1..(Len(lines) + 1 - d) :
             AppendLine(line)[i] = IF i + d = Len(lines) + 1 THEN line ELSE lines[i + d]
    BY <2>4, <2>5, <2>6
  <2> QED BY <2>7, <2>8
<1>3. CASE ~(n > MaxLines)
  <2>1. AppendLine(line) = all
    BY <1>3 DEF AppendLine, all
  <2>2. /\ DOMAIN AppendLine(line) = 1..(Len(lines) + 1 - 0)
        /\ \A i \in 1..(Len(lines) + 1 - 0) :
             AppendLine(line)[i] = IF i + 0 = Len(lines) + 1 THEN line ELSE lines[i + 0]
    BY <1>1, <2>1
  <2> QED BY <2>2
<1> QED BY <1>2, <1>3

\* Nothing new is shown but the line, and it stays the only one of its kind.
LEMMA AppendLineShows ==
    ASSUME lines \in Seq(Line), NEW line \in Line
    PROVE  /\ \A i \in DOMAIN AppendLine(line) :
                \/ AppendLine(line)[i] = line
                \/ \E j \in DOMAIN lines : AppendLine(line)[i] = lines[j]
           /\ /\ DistinctLines(lines)
              /\ line.off # 0 => \A j \in DOMAIN lines : lines[j] # line
              => DistinctLines(AppendLine(line))
<1>1. PICK d \in Nat :
        /\ DOMAIN AppendLine(line) = 1..(Len(lines) + 1 - d)
        /\ \A i \in 1..(Len(lines) + 1 - d) :
             AppendLine(line)[i] = IF i + d = Len(lines) + 1 THEN line ELSE lines[i + d]
  BY AppendLineShift
<1>2. DOMAIN lines = 1..Len(lines) /\ Len(lines) \in Nat
  BY LenProperties
<1>3. ASSUME NEW i \in 1..(Len(lines) + 1 - d)
      PROVE  i + d = Len(lines) + 1 \/ i + d \in DOMAIN lines
  BY <1>2
<1>4. ASSUME DistinctLines(lines),
             line.off # 0 => \A j \in DOMAIN lines : lines[j] # line
      PROVE  DistinctLines(AppendLine(line))
  <2> SUFFICES ASSUME NEW i \in 1..(Len(lines) + 1 - d),
                      NEW j \in 1..(Len(lines) + 1 - d), i # j,
                      AppendLine(line)[i].off # 0
               PROVE  AppendLine(line)[i] # AppendLine(line)[j]
    BY <1>1 DEF DistinctLines
  <2>1. i + d # j + d
    OBVIOUS
  <2>2. CASE i + d = Len(lines) + 1
    BY <1>1, <1>3, <1>4, <2>1, <2>2
  <2>3. CASE j + d = Len(lines) + 1
    BY <1>1, <1>3, <1>4, <2>1, <2>3
  <2>4. CASE i + d \in DOMAIN lines /\ j + d \in DOMAIN lines
    <3>1. lines[i + d] # lines[j + d] \/ lines[i + d].off = 0
      BY <1>4, <2>1, <2>4 DEF DistinctLines
    <3>2. i + d # Len(lines) + 1 /\ j + d # Len(lines) + 1
      BY <1>2, <2>4
    <3> QED BY <1>1, <3>1, <3>2
  <2> QED BY <1>3, <2>2, <2>3, <2>4
<1> QED BY <1>1, <1>3, <1>4

-----------------------------------------------------------------------------
(* Where the offsets are *)

LEMMA FeedTypes ==
    ASSUME TypeInv
    PROVE  /\ started \in 0..MaxSessions /\ live \subseteq 1..started
           /\ topicOf \in [Sessions -> Targets]
           /\ pc \in [Sessions -> {"idle", "attach", "poll", "deliver", "done"}]
           /\ fetched \in [Sessions -> 0..MaxOffset]
           /\ sent \in [Sessions -> 0..MaxOffset]
           /\ msgCh \in [Sessions -> Seq(1..MaxOffset)]
           /\ pumps \in [Sessions -> Nat] /\ errCh \in [Sessions -> BOOLEAN]
           /\ log \in [Topics \union {Torn} -> 0..MaxOffset]
           /\ inflight \subseteq TailMsg /\ forked \subseteq Sessions
           /\ lines \in Seq(Line)
           /\ \A s \in Sessions :
                /\ Len(msgCh[s]) \in Nat /\ DOMAIN msgCh[s] = 1..Len(msgCh[s])
                /\ msgCh[s] # <<>> <=> Len(msgCh[s]) # 0
                /\ sent[s] <= fetched[s]
                /\ pc[s] = "deliver" => sent[s] < fetched[s]
<1>1. \A s \in Sessions : msgCh[s] \in Seq(1..MaxOffset)
  BY DEF TypeInv, TypeOK, FeedType
<1>2. \A s \in Sessions :
        /\ Len(msgCh[s]) \in Nat /\ DOMAIN msgCh[s] = 1..Len(msgCh[s])
        /\ msgCh[s] # <<>> <=> Len(msgCh[s]) # 0
  BY <1>1, LenProperties, EmptySeq
<1> QED BY <1>2 DEF TypeInv, TypeOK, UIType, TailType, FeedType, SessionOK

LEMMA StartsNew ==
    ASSUME TypeInv, NEW topic, Starts(topic)
    PROVE  /\ started' = started + 1 /\ started' \in Sessions /\ consumer' = started'
           /\ topic # NoTopic
           /\ topicOf' = [topicOf EXCEPT ![started'] = topic]
           /\ pc' = [pc EXCEPT ![started'] = "attach"]
           /\ pumps' = [pumps EXCEPT ![started'] = 1]
           /\ UNCHANGED <<feedVars, lines, log>>
BY FeedTypes DEF Starts, StartSucceeds, FirstPump, Sessions

LEMMA LifeStep ==
    ASSUME TypeInv, LifeInv, OneLiveSession, [Next]_vars
    PROVE  LifeInv'
<1> USE FeedTypes DEF feedVars
<1>1. CASE Calm \/ StartErrorShown \/ LinesCleared
  BY <1>1 DEF Calm, StartErrorShown, LinesCleared, LifeInv
<1>2. ASSUME NEW topic \in Targets, Starts(topic) PROVE LifeInv'
  <2>1. consumer' = started' /\ forked' \subseteq 1..started'
    <3>1. consumer' = started' /\ started' = started + 1 /\ forked' = forked
      BY <1>2, StartsNew
    <3>2. 1..started \subseteq 1..started + 1
      OBVIOUS
    <3> QED BY <3>1, <3>2 DEF LifeInv
  <2>2. ASSUME NEW s \in Sessions, s # started'
        PROVE  /\ s > started' => pc'[s] = "idle" /\ ~errCh'[s]
               /\ s <= started' => topicOf'[s] # NoTopic /\ fetched'[s] <= log'[topicOf'[s]]
               /\ pc'[s] \in {"idle", "attach"} => fetched'[s] = 0
               /\ pc'[s] # "deliver" => sent'[s] = fetched'[s]
    <3>1. /\ topicOf'[s] = topicOf[s] /\ pc'[s] = pc[s] /\ started' = started + 1
          /\ UNCHANGED <<fetched, sent, log, errCh>>
      BY <1>2, <2>2, StartsNew
    <3>2. s > started' => s > started
      BY <3>1 DEF Sessions
    <3>3. s <= started' => s <= started
      BY <2>2, <3>1 DEF Sessions
    <3> QED BY <3>1, <3>2, <3>3 DEF LifeInv
  <2>3. LET s == started' IN
        /\ ~(s > started') /\ topicOf'[s] # NoTopic /\ fetched'[s] <= log'[topicOf'[s]]
        /\ fetched'[s] = 0 /\ sent'[s] = fetched'[s]
    <3>1. started' > started /\ started' \in Sessions
      BY <1>2, StartsNew
    <3>2. fetched[started'] = 0 /\ sent[started'] = 0
      BY <3>1 DEF LifeInv
    <3>3. topicOf'[started'] = topic /\ log[topic] \in Nat
      BY <1>2, <3>1, StartsNew DEF Targets
    <3> QED BY <1>2, <3>1, <3>2, <3>3, StartsNew
  <2> QED BY <2>1, <2>2, <2>3 DEF LifeInv
<1>3. ASSUME NEW t \in Topics, Produce(t) PROVE LifeInv'
  <2>1. \A x \in Topics \union {Torn} : log[x] <= log'[x] /\ log'[x] \in Nat
    BY <1>3 DEF Produce
  <2>2. \A s \in Sessions : s <= started => topicOf[s] \in Topics \union {Torn}
    BY DEF LifeInv, Targets
  <2>3. \A s \in Sessions : s <= started => fetched[s] <= log'[topicOf[s]]
    <3> SUFFICES ASSUME NEW s \in Sessions, s <= started
                 PROVE  fetched[s] <= log'[topicOf[s]]
      OBVIOUS
    <3>1. fetched[s] <= log[topicOf[s]] /\ log[topicOf[s]] <= log'[topicOf[s]]
      BY <2>1, <2>2 DEF LifeInv
    <3>2. fetched[s] \in Nat /\ log[topicOf[s]] \in Nat /\ log'[topicOf[s]] \in Nat
      BY <2>1, <2>2
    <3> QED BY <3>1, <3>2
  <2> QED BY <1>3, <2>3 DEF Produce, LifeInv, startVars
<1>4. ASSUME NEW m \in inflight, TailUpdate(m) \/ TailDropped(m) PROVE LifeInv'
  <2>1. forked' \subseteq 1..started
    <3>1. forked' \subseteq forked \union ({consumer} \ {0})
      BY <1>4 DEF TailUpdate, TailDropped
    <3>2. consumer # 0 => consumer \in 1..started
      BY DEF LifeInv
    <3> QED BY <3>1, <3>2 DEF LifeInv
  <2> QED BY <1>4, <2>1 DEF TailUpdate, TailDropped, LifeInv, startVars
<1>5. ASSUME NEW s \in Sessions, Goroutine(s) \/ Pump(s) PROVE LifeInv'
  <2>1. s \in live => s <= started
    BY DEF Sessions
  <2>2. CASE Attach(s)
    <3>1. log[topicOf[s]] \in Nat
      BY <2>1, <2>2 DEF Attach, LifeInv, Targets
    <3> QED BY <2>1, <2>2, <3>1 DEF Attach, LifeInv
  <2>3. CASE Fetch(s)
    <3>1. PICK n \in fetched[s]+1..log[topicOf[s]] : fetched' = [fetched EXCEPT ![s] = n]
      BY <2>3 DEF Fetch
    <3>2. /\ n <= log[topicOf[s]] /\ fetched'[s] = n /\ pc'[s] = "deliver"
          /\ \A r \in Sessions \ {s} : fetched'[r] = fetched[r] /\ pc'[r] = pc[r]
          /\ UNCHANGED <<consumer, started, forked, topicOf, log, sent, errCh>>
          /\ s <= started
      BY <2>1, <2>3, <3>1 DEF Fetch
    <3>3. ASSUME NEW r \in Sessions
          PROVE  /\ r > started' => pc'[r] = "idle" /\ ~errCh'[r]
                 /\ r <= started' =>
                       topicOf'[r] # NoTopic /\ fetched'[r] <= log'[topicOf'[r]]
                 /\ pc'[r] \in {"idle", "attach"} => fetched'[r] = 0
                 /\ pc'[r] # "deliver" => sent'[r] = fetched'[r]
      <4>1. CASE r = s
        <5>1. ~(s > started') /\ topicOf'[s] # NoTopic
          BY <3>2 DEF LifeInv, Sessions
        <5>2. fetched'[s] <= log'[topicOf'[s]]
          BY <3>2
        <5>3. pc'[s] = "deliver"
          BY <3>2
        <5> QED BY <4>1, <5>1, <5>2, <5>3
      <4>2. CASE r # s
        BY <3>2, <4>2 DEF LifeInv
      <4> QED BY <4>1, <4>2
    <3> QED BY <3>2, <3>3 DEF LifeInv
  <2>9. CASE PollCancelled(s)
    BY <2>9 DEF PollCancelled, LifeInv
  <2>4. CASE FetchError(s)
    <3>1. \A r \in Sessions : r > started => errCh'[r] = errCh[r]
      <4> SUFFICES ASSUME NEW r \in Sessions, r > started PROVE errCh'[r] = errCh[r]
        OBVIOUS
      <4>1. s <= started /\ errCh' = [errCh EXCEPT ![s] = TRUE]
        BY <2>1, <2>4 DEF FetchError
      <4>2. r # s
        BY <4>1 DEF Sessions
      <4> QED BY <4>1, <4>2
    <3>2. /\ pc[s] \in {"attach", "poll"} /\ pc' = [pc EXCEPT ![s] = "done"]
          /\ UNCHANGED <<consumer, started, forked, topicOf, log, sent, fetched>>
      BY <2>4 DEF FetchError
    <3>3. \A r \in Sessions : r > started => pc'[r] = "idle"
      BY <2>1, <3>2 DEF LifeInv, Sessions
    <3> QED BY <3>1, <3>2, <3>3 DEF LifeInv
  <2>5. CASE Send(s)
    BY <2>5 DEF Send, LifeInv
  <2>6. CASE SendCancelled(s)
    <3>1. s <= started => sent[s] <= log[topicOf[s]]
      BY DEF LifeInv, Targets
    <3> QED BY <2>6, <3>1 DEF SendCancelled, LifeInv
  <2>7. CASE PumpRecord(s)
    BY <2>7 DEF PumpRecord, LifeInv
  <2>8. CASE PumpError(s)
    <3>1. \A r \in Sessions : ~errCh[r] => ~errCh'[r]
      BY <2>8 DEF PumpError
    <3> QED BY <2>8, <3>1 DEF PumpError, LifeInv
  <2> QED BY <1>5, <2>2, <2>3, <2>4, <2>5, <2>6, <2>7, <2>8, <2>9 DEF Goroutine, Pump
<1> QED BY <1>1, <1>2, <1>3, <1>4, <1>5, StepKinds

\* A pump takes the offset behind the last one handed over.
LEMMA PumpTakes ==
    ASSUME TypeInv, QueueInv, NEW s \in Sessions, PumpRecord(s)
    PROVE  /\ Handed(s) \in Nat /\ Handed(s)' = Handed(s) + 1
           /\ Head(msgCh[s]) = Handed(s) + 1
           /\ Len(msgCh'[s]) = Len(msgCh[s]) - 1
           /\ \A i \in 1..(Len(msgCh[s]) - 1) : msgCh'[s][i] = msgCh[s][i + 1]
           /\ \A r \in Sessions \ {s} : msgCh'[r] = msgCh[r] /\ Handed(r)' = Handed(r)
           /\ inflight' = inflight \union {[sess |-> s, off |-> Handed(s) + 1]}
<1>1. msgCh[s] \in Seq(1..MaxOffset) /\ msgCh[s] # <<>>
  BY FeedTypes DEF PumpRecord
<1>2. /\ Head(msgCh[s]) = msgCh[s][1] /\ Len(Tail(msgCh[s])) = Len(msgCh[s]) - 1
      /\ \A i \in 1..(Len(msgCh[s]) - 1) : Tail(msgCh[s])[i] = msgCh[s][i + 1]
  BY <1>1, HeadTailProperties
<1>3. 1 \in DOMAIN msgCh[s] /\ Handed(s) \in Nat
  BY <1>1, FeedTypes DEF QueueInv, Handed
<1>4. Head(msgCh[s]) = Handed(s) + 1
  BY <1>2, <1>3 DEF QueueInv
<1>5. msgCh' = [msgCh EXCEPT ![s] = Tail(@)] /\ sent' = sent
  BY DEF PumpRecord
<1>6. msgCh'[s] = Tail(msgCh[s]) /\ \A r \in Sessions \ {s} : msgCh'[r] = msgCh[r]
  BY <1>5, FeedTypes
<1>7. Handed(s)' = Handed(s) + 1
  <2>1. Len(msgCh'[s]) = Len(msgCh[s]) - 1 /\ sent'[s] = sent[s]
    BY <1>2, <1>5, <1>6
  <2>2. Len(msgCh[s]) \in Int /\ sent[s] \in Int
    BY FeedTypes
  <2> QED BY <2>1, <2>2 DEF Handed
<1> QED BY <1>2, <1>3, <1>4, <1>5, <1>6, <1>7 DEF PumpRecord, Handed

\* The handler puts the next offset behind those in the channel.
LEMMA SendAppends ==
    ASSUME TypeInv, NEW s \in Sessions, Send(s)
    PROVE  /\ sent'[s] = sent[s] + 1 /\ Handed(s)' = Handed(s)
           /\ Len(msgCh'[s]) = Len(msgCh[s]) + 1
           /\ \A i \in 1..Len(msgCh[s]) : msgCh'[s][i] = msgCh[s][i]
           /\ msgCh'[s][Len(msgCh[s]) + 1] = sent[s] + 1
           /\ \A r \in Sessions \ {s} :
                msgCh'[r] = msgCh[r] /\ sent'[r] = sent[r] /\ Handed(r)' = Handed(r)
<1>1. /\ sent[s] + 1 \in 1..MaxOffset /\ msgCh[s] \in Seq(1..MaxOffset)
      /\ Len(msgCh[s]) \in Nat
  BY FeedTypes DEF Send
<1>2. /\ Len(Append(msgCh[s], sent[s] + 1)) = Len(msgCh[s]) + 1
      /\ \A i \in 1..Len(msgCh[s]) : Append(msgCh[s], sent[s] + 1)[i] = msgCh[s][i]
      /\ Append(msgCh[s], sent[s] + 1)[Len(msgCh[s]) + 1] = sent[s] + 1
  BY <1>1, AppendProperties
<1>3. /\ msgCh'[s] = Append(msgCh[s], sent[s] + 1) /\ sent'[s] = sent[s] + 1
      /\ \A r \in Sessions \ {s} : msgCh'[r] = msgCh[r] /\ sent'[r] = sent[r]
  BY FeedTypes DEF Send
<1>4. Handed(s)' = Handed(s)
  <2>1. Len(msgCh'[s]) = Len(msgCh[s]) + 1 /\ sent'[s] = sent[s] + 1
    BY <1>2, <1>3
  <2>2. Len(msgCh[s]) \in Int /\ sent[s] \in Int
    BY FeedTypes
  <2> QED BY <2>1, <2>2 DEF Handed
<1> QED BY <1>2, <1>3, <1>4 DEF Handed

LEMMA HandedType ==
    ASSUME TypeInv, QueueInv
    PROVE  \A s \in Sessions : /\ Handed(s) \in Nat /\ Handed(s) <= sent[s]
                               /\ Len(msgCh[s]) = sent[s] - Handed(s)
<1> SUFFICES ASSUME NEW s \in Sessions
             PROVE  /\ Handed(s) \in Nat /\ Handed(s) <= sent[s]
                    /\ Len(msgCh[s]) = sent[s] - Handed(s)
  OBVIOUS
<1>1. Len(msgCh[s]) \in Nat /\ sent[s] \in Nat /\ Len(msgCh[s]) <= sent[s]
  BY FeedTypes DEF QueueInv
<1> QED BY <1>1 DEF Handed

\* The positions move only where the session's own goroutine and pumps act.
LEMMA HandedFrame ==
    ASSUME UNCHANGED <<sent, msgCh>> PROVE \A s \in Sessions : Handed(s)' = Handed(s)
BY DEF Handed

LEMMA QueueFrame ==
    ASSUME TypeInv, QueueInv, UNCHANGED <<sent, msgCh>>, started' \in Nat,
           started <= started', inflight' \subseteq inflight
    PROVE  QueueInv'
<1>1. \A s \in Sessions : Handed(s)' = Handed(s)
  BY HandedFrame
<1>2. \A m \in inflight : m.sess \in Sessions
  BY FeedTypes DEF TailMsg
<1>3. \A m \in inflight' : m.sess <= started'
  BY <1>2, FeedTypes DEF QueueInv, Sessions
<1> QED BY <1>1, <1>2, <1>3 DEF QueueInv

\* A session before it has attached has handed nothing over and sent nothing.
LEMMA AttachingIsEmpty ==
    ASSUME TypeInv, LifeInv, QueueInv, NEW s \in Sessions, pc[s] \in {"idle", "attach"}
    PROVE  sent[s] = 0 /\ fetched[s] = 0 /\ msgCh[s] = <<>> /\ Handed(s) = 0
<1>1. sent[s] = 0 /\ fetched[s] = 0
  BY DEF LifeInv
<1>2. Len(msgCh[s]) = 0
  BY <1>1, FeedTypes DEF QueueInv
<1> QED BY <1>1, <1>2, FeedTypes DEF Handed

LEMMA QueueStep ==
    ASSUME TypeInv, LifeInv, QueueInv, [Next]_vars
    PROVE  QueueInv'
<1> USE DEF feedVars, startVars
<1>t. started \in Nat
  BY FeedTypes
<1>1. CASE Calm \/ StartErrorShown \/ LinesCleared
  BY <1>t, <1>1, QueueFrame DEF Calm, StartErrorShown, LinesCleared
<1>2. ASSUME NEW topic \in Targets, Starts(topic) PROVE QueueInv'
  BY <1>t, <1>2, StartsNew, QueueFrame
<1>3. ASSUME NEW t \in Topics, Produce(t) PROVE QueueInv'
  BY <1>t, <1>3, QueueFrame DEF Produce
<1>4. ASSUME NEW m \in inflight, TailUpdate(m) \/ TailDropped(m) PROVE QueueInv'
  BY <1>t, <1>4, QueueFrame DEF TailUpdate, TailDropped
<1>5. ASSUME NEW s \in Sessions, Goroutine(s) \/ Pump(s) PROVE QueueInv'
  <2>t. \A m \in inflight : m.sess \in Sessions
    BY FeedTypes DEF TailMsg
  <2>1. CASE Attach(s)
    <3>1. /\ sent[s] = 0 /\ msgCh[s] = <<>> /\ Handed(s) = 0
          /\ UNCHANGED <<msgCh, inflight, started>>
          /\ \A r \in Sessions \ {s} : sent'[r] = sent[r]
      BY <2>1, AttachingIsEmpty, FeedTypes DEF Attach
    <3>2. \A r \in Sessions \ {s} : Handed(r)' = Handed(r)
      BY <3>1 DEF Handed
    <3>3. Len(msgCh'[s]) <= sent'[s] /\ DOMAIN msgCh'[s] = {} /\ Handed(s)' >= 0
      <4>1. Len(msgCh[s]) = 0 /\ DOMAIN msgCh[s] = {}
        BY <3>1, FeedTypes
      <4>2. sent'[s] \in Nat
        <5>1. log[topicOf[s]] \in Nat
          <6>1. s \in 1..started
            BY <2>1, FeedTypes DEF Attach
          <6> QED BY <6>1, FeedTypes DEF LifeInv, Targets
        <5> QED BY <2>1, <5>1, FeedTypes DEF Attach
      <4> QED BY <3>1, <4>1, <4>2 DEF Handed
    <3>4. ASSUME NEW m \in inflight' PROVE m.sess <= started' /\ m.off <= Handed(m.sess)'
      <4>1. m.sess <= started /\ m.off <= Handed(m.sess) /\ m.off \in Nat
        BY <3>1, FeedTypes DEF QueueInv, TailMsg
      <4>2. CASE m.sess = s
        <5>1. m.off <= 0
          BY <3>1, <4>1, <4>2
        <5>2. Handed(s)' \in Int
          BY <3>1, <2>1, FeedTypes, NextType DEF Handed, Attach
        <5> QED BY <3>1, <3>3, <4>1, <4>2, <5>1, <5>2
      <4>3. CASE m.sess # s
        BY <2>t, <3>1, <3>2, <4>1, <4>3
      <4> QED BY <4>2, <4>3
    <3> QED BY <3>1, <3>2, <3>3, <3>4 DEF QueueInv
  <2>2. CASE Fetch(s) \/ FetchError(s) \/ PollCancelled(s) \/ SendCancelled(s)
    <3>1. UNCHANGED <<sent, msgCh, started, inflight>>
      BY <2>2 DEF Fetch, FetchError, PollCancelled, SendCancelled
    <3> QED BY <1>t, <3>1, QueueFrame
  <2>3. CASE Send(s)
    <3>1. /\ UNCHANGED <<inflight, started>>
          /\ \A r \in Sessions : Handed(r)' = Handed(r)
      BY <2>3, SendAppends DEF Send
    <3>2. \A m \in inflight' : m.sess <= started' /\ m.off <= Handed(m.sess)'
      BY <2>t, <3>1 DEF QueueInv
    <3>3. ASSUME NEW r \in Sessions \ {s}
          PROVE  /\ Len(msgCh'[r]) <= sent'[r]
                 /\ \A i \in DOMAIN msgCh'[r] : msgCh'[r][i] = Handed(r)' + i
      BY <2>3, <3>1, SendAppends DEF QueueInv
    <3>4. Len(msgCh'[s]) <= sent'[s]
      BY <2>3, SendAppends, FeedTypes DEF QueueInv
    <3>5. ASSUME NEW i \in DOMAIN msgCh'[s] PROVE msgCh'[s][i] = Handed(s)' + i
      <4>1. i \in 1..(Len(msgCh[s]) + 1) /\ Len(msgCh[s]) \in Nat
        <5>1. msgCh'[s] \in Seq(1..MaxOffset)
          BY NextType DEF TypeInv, TypeOK, FeedType
        <5>2. DOMAIN msgCh'[s] = 1..Len(msgCh'[s])
          BY <5>1, LenProperties
        <5> QED BY <2>3, <5>2, SendAppends, FeedTypes
      <4>2. CASE i \in 1..Len(msgCh[s])
        <5>1. msgCh'[s][i] = msgCh[s][i] /\ i \in DOMAIN msgCh[s]
          BY <2>3, <4>2, SendAppends, FeedTypes
        <5> QED BY <3>1, <5>1 DEF QueueInv
      <4>3. CASE i = Len(msgCh[s]) + 1
        <5>1. sent[s] + 1 = Handed(s) + i
          <6>1. Len(msgCh[s]) = sent[s] - Handed(s) /\ sent[s] \in Int /\ Handed(s) \in Int
            BY HandedType, FeedTypes
          <6> QED BY <4>3, <6>1
        <5> QED BY <2>3, <3>1, <4>3, <5>1, SendAppends
      <4> QED BY <4>1, <4>2, <4>3
    <3> QED BY <3>2, <3>3, <3>4, <3>5 DEF QueueInv
  <2>4. CASE PumpRecord(s)
    <3>1. s <= started
      <4>1. msgCh[s] # <<>>
        BY <2>4 DEF PumpRecord
      <4>2. pc[s] # "idle"
        BY <4>1, AttachingIsEmpty
      <4> QED BY <4>2, FeedTypes DEF LifeInv, Sessions
    <3>2. /\ UNCHANGED <<sent, started>> /\ Handed(s) \in Nat /\ Handed(s)' = Handed(s) + 1
          /\ \A r \in Sessions \ {s} : msgCh'[r] = msgCh[r] /\ Handed(r)' = Handed(r)
          /\ inflight' = inflight \union {[sess |-> s, off |-> Handed(s) + 1]}
      BY <2>4, PumpTakes DEF PumpRecord
    <3>3. ASSUME NEW m \in inflight' PROVE m.sess <= started' /\ m.off <= Handed(m.sess)'
      <4>1. CASE m = [sess |-> s, off |-> Handed(s) + 1]
        BY <3>1, <3>2, <4>1
      <4>2. CASE m \in inflight
        <5>1. m.sess <= started /\ m.off <= Handed(m.sess) /\ m.off \in Nat
          BY <4>2, FeedTypes DEF QueueInv, TailMsg
        <5> QED BY <2>t, <3>2, <4>2, <5>1
      <4> QED BY <3>2, <4>1, <4>2
    <3>4. ASSUME NEW r \in Sessions \ {s}
          PROVE  /\ Len(msgCh'[r]) <= sent'[r]
                 /\ \A i \in DOMAIN msgCh'[r] : msgCh'[r][i] = Handed(r)' + i
      BY <3>2 DEF QueueInv
    <3>5. Len(msgCh'[s]) = Len(msgCh[s]) - 1 /\ sent'[s] = sent[s]
      BY <2>4, <3>2, PumpTakes
    <3>6. Len(msgCh'[s]) <= sent'[s]
      BY <3>5, FeedTypes DEF QueueInv
    <3>7. ASSUME NEW i \in DOMAIN msgCh'[s] PROVE msgCh'[s][i] = Handed(s)' + i
      <4>1. i \in 1..(Len(msgCh[s]) - 1) /\ Len(msgCh[s]) \in Nat
        <5>1. msgCh'[s] \in Seq(1..MaxOffset)
          BY NextType DEF TypeInv, TypeOK, FeedType
        <5>2. DOMAIN msgCh'[s] = 1..Len(msgCh'[s])
          BY <5>1, LenProperties
        <5> QED BY <3>5, <5>2, FeedTypes
      <4>2. i + 1 \in DOMAIN msgCh[s]
        BY <4>1, FeedTypes
      <4>3. msgCh'[s][i] = Handed(s) + (i + 1)
        BY <2>4, <4>1, <4>2, PumpTakes DEF QueueInv
      <4> QED BY <3>2, <4>1, <4>3
    <3> QED BY <3>3, <3>4, <3>6, <3>7 DEF QueueInv
  <2>5. CASE PumpError(s)
    <3>1. /\ UNCHANGED <<sent, msgCh, started>> /\ errCh[s]
          /\ inflight' = inflight \union {[sess |-> s, off |-> 0]}
      BY <2>5 DEF PumpError
    <3>2. s <= started
      BY <3>1, FeedTypes DEF LifeInv, Sessions
    <3>3. \A r \in Sessions : Handed(r)' = Handed(r)
      BY <3>1, HandedFrame
    <3>4. \A m \in inflight' : m.sess <= started' /\ m.off <= Handed(m.sess)'
      BY <2>t, <3>1, <3>2, <3>3, HandedType DEF QueueInv
    <3> QED BY <3>1, <3>3, <3>4 DEF QueueInv
  <2> QED BY <1>5, <2>1, <2>2, <2>3, <2>4, <2>5 DEF Goroutine, Pump
<1> QED BY <1>1, <1>2, <1>3, <1>4, <1>5, StepKinds

-----------------------------------------------------------------------------
(* What is shown                                                           *)

LEMMA LinesFrame ==
    ASSUME TypeInv, LinesInv, QueueInv, TypeInv', UNCHANGED lines, started <= started',
           \A s \in Sessions : Handed(s) <= Handed(s)',
           \A i \in DOMAIN lines : lines[i].off # 0 => lines[i] \notin inflight'
    PROVE  LinesInv'
<1>1. DistinctLines(lines)'
  BY DEF LinesInv
<1>2. started \in Nat /\ started <= MaxSessions /\ started' \in Nat
  <2>1. started \in Nat /\ started <= MaxSessions
    BY FeedTypes
  <2>2. started' \in Nat
    BY DEF TypeInv, TypeOK, TailType
  <2> QED BY <2>1, <2>2
<1>3. ASSUME NEW i \in DOMAIN lines, lines[i].off # 0
      PROVE  /\ lines[i].sess \in 1..started'
             /\ lines[i].off <= Handed(lines[i].sess)'
  <2>1. /\ lines[i].sess \in 1..started /\ lines[i].off <= Handed(lines[i].sess)
    BY <1>3 DEF LinesInv
  <2>2. lines[i] \in Line
    BY FeedTypes, ElementOfSeq, LenProperties
  <2>3. lines[i].off \in Nat
    BY <2>2 DEF Line
  <2>4. PICK s \in Sessions : s = lines[i].sess
    BY <1>2, <2>1 DEF Sessions
  <2>5. Handed(s) \in Int /\ Handed(s)' \in Int /\ Handed(s) <= Handed(s)'
    <3>1. \A r \in Sessions : Handed(r)' \in Int
      <4>1. \A r \in Sessions : sent'[r] \in Nat /\ msgCh'[r] \in Seq(1..MaxOffset)
        BY DEF TypeInv, TypeOK, FeedType
      <4> QED BY <4>1, LenProperties DEF Handed
    <3> QED BY <3>1, HandedType
  <2> QED BY <1>2, <2>1, <2>3, <2>4, <2>5
<1> QED BY <1>1, <1>3 DEF LinesInv

LEMMA LinesAppend ==
    ASSUME TypeInv, LinesInv, NEW line \in Line, lines' = AppendLine(line),
           UNCHANGED <<started, sent, msgCh>>, inflight' \subseteq inflight,
           line.off # 0 => /\ line.sess \in 1..started
                           /\ line.off <= Handed(line.sess)
                           /\ line \notin inflight'
                           /\ \A j \in DOMAIN lines : lines[j] # line
    PROVE  LinesInv'
<1>1. lines \in Seq(Line)
  BY FeedTypes
<1>2. DistinctLines(lines)'
  <2>1. DistinctLines(AppendLine(line))
    BY <1>1, AppendLineShows DEF LinesInv
  <2> QED BY <2>1 DEF DistinctLines
<1>3. ASSUME NEW i \in DOMAIN lines', lines'[i].off # 0
      PROVE  /\ lines'[i].sess \in 1..started
             /\ lines'[i].off <= Handed(lines'[i].sess)
             /\ lines'[i] \notin inflight'
  <2>1. CASE lines'[i] = line
    BY <1>3, <2>1
  <2>2. CASE \E j \in DOMAIN lines : lines'[i] = lines[j]
    <3>1. PICK j \in DOMAIN lines : lines'[i] = lines[j]
      BY <2>2
    <3> QED BY <1>3, <3>1 DEF LinesInv
  <2> QED BY <1>1, <2>1, <2>2, AppendLineShows
<1>4. \A s : Handed(s)' = Handed(s)
  BY DEF Handed
<1> QED BY <1>2, <1>3, <1>4 DEF LinesInv

LEMMA LineTypes ==
    ASSUME TypeInv
    PROVE  \A i \in DOMAIN lines : lines[i] \in Line /\ lines[i].off \in Nat
<1> SUFFICES ASSUME NEW i \in DOMAIN lines PROVE lines[i] \in Line /\ lines[i].off \in Nat
  OBVIOUS
<1>1. lines \in Seq(Line)
  BY FeedTypes
<1>2. i \in 1..Len(lines)
  BY <1>1, LenProperties
<1>3. lines[i] \in Line
  BY <1>1, <1>2, ElementOfSeq
<1> QED BY <1>3 DEF Line

LEMMA MessageTypes ==
    ASSUME TypeInv
    PROVE  \A m \in inflight : m \in Line /\ m.sess \in Sessions /\ m.off \in Nat
<1> SUFFICES ASSUME NEW m \in inflight
             PROVE  m \in Line /\ m.sess \in Sessions /\ m.off \in Nat
  OBVIOUS
<1>1. m \in TailMsg
  BY FeedTypes
<1> QED BY <1>1 DEF TailMsg, Line, Sessions

LEMMA LinesStep ==
    ASSUME TypeInv, LifeInv, QueueInv, LinesInv, [Next]_vars
    PROVE  LinesInv'
<1> USE DEF feedVars, startVars
<1>t. /\ TypeInv' /\ started \in Nat /\ \A m \in inflight : m \in Line /\ m.sess \in Sessions
      /\ \A s \in Sessions : Handed(s) \in Nat
  BY NextType, FeedTypes, HandedType, MessageTypes
<1>1. CASE Calm \/ (\E t \in Topics : Produce(t))
           \/ (\E m \in inflight : TailDropped(m))
           \/ (\E topic \in Targets : Starts(topic))
  <2>1. /\ UNCHANGED <<lines, sent, msgCh>> /\ inflight' \subseteq inflight
        /\ started' \in {started, started + 1}
    BY <1>1, StartsNew DEF Calm, Produce, TailDropped
  <2>2. \A s \in Sessions : Handed(s)' = Handed(s)
    BY <2>1, HandedFrame
  <2>3. \A s \in Sessions : Handed(s) <= Handed(s)'
    BY <1>t, <2>2
  <2>4. started <= started'
    BY <1>t, <2>1
  <2>5. \A i \in DOMAIN lines : lines[i].off # 0 => lines[i] \notin inflight'
    BY <2>1 DEF LinesInv
  <2> QED BY <1>t, <2>1, <2>3, <2>4, <2>5, LinesFrame
<1>2. CASE StartErrorShown
  <2>1. StartError \in Line /\ StartError.off = 0
    BY DEF StartError, Line
  <2> QED BY <1>2, <2>1, LinesAppend DEF StartErrorShown
<1>3. CASE LinesCleared
  BY <1>3 DEF LinesCleared, LinesInv, DistinctLines
<1>4. ASSUME NEW m \in inflight, TailUpdate(m) PROVE LinesInv'
  <2>1. /\ lines' = LinesAfter(m) /\ UNCHANGED <<started, sent, msgCh>>
        /\ inflight' = inflight \ {m}
    BY <1>4 DEF TailUpdate
  <2>2. CASE lines' = AppendLine(m)
    <3>1. m.off # 0 => /\ m.sess \in 1..started /\ m.off <= Handed(m.sess)
                       /\ m \notin inflight' /\ \A j \in DOMAIN lines : lines[j] # m
      BY <1>t, <2>1 DEF QueueInv, LinesInv, Sessions
    <3> QED BY <1>t, <2>1, <2>2, <3>1, LinesAppend
  <2>3. CASE lines' = lines
    <3>1. \A s \in Sessions : Handed(s) <= Handed(s)'
      BY <1>t, <2>1, HandedFrame
    <3>2. \A i \in DOMAIN lines : lines[i].off # 0 => lines[i] \notin inflight'
      BY <2>1 DEF LinesInv
    <3>3. started <= started'
      BY <1>t, <2>1
    <3> QED BY <1>t, <2>3, <3>1, <3>2, <3>3, LinesFrame
  <2> QED BY <2>1, <2>2, <2>3 DEF LinesAfter
<1>5. ASSUME NEW s \in Sessions, Goroutine(s) \/ Pump(s) PROVE LinesInv'
  <2>1. UNCHANGED <<lines, started>> /\ started <= started'
    BY <1>t, <1>5 DEF Goroutine, Pump, Attach, Fetch, FetchError, PollCancelled, Send,
       SendCancelled, PumpRecord, PumpError
  <2>2. \A r \in Sessions : Handed(r) <= Handed(r)'
    <3>1. CASE Attach(s)
      <4>1. sent[s] = 0 /\ Handed(s) = 0 /\ msgCh' = msgCh /\ Len(msgCh[s]) = 0
        BY <3>1, AttachingIsEmpty, FeedTypes DEF Attach
      <4>2. sent'[s] \in Nat /\ \A r \in Sessions \ {s} : sent'[r] = sent[r]
        <5>1. sent'[s] \in Nat
          BY <1>t DEF TypeInv, TypeOK, FeedType
        <5> QED BY <3>1, <5>1, FeedTypes DEF Attach
      <4>3. Handed(s) <= Handed(s)'
        BY <4>1, <4>2 DEF Handed
      <4>4. \A r \in Sessions \ {s} : Handed(r)' = Handed(r)
        BY <4>1, <4>2 DEF Handed
      <4> QED BY <1>t, <4>3, <4>4
    <3>2. CASE Fetch(s) \/ FetchError(s) \/ PollCancelled(s) \/ SendCancelled(s) \/ PumpError(s)
      <4>1. UNCHANGED <<sent, msgCh>>
        BY <3>2 DEF Fetch, FetchError, PollCancelled, SendCancelled, PumpError
      <4> QED BY <1>t, <4>1, HandedFrame
    <3>3. CASE Send(s)
      BY <1>t, <3>3, SendAppends
    <3>4. CASE PumpRecord(s)
      BY <1>t, <3>4, PumpTakes
    <3> QED BY <1>5, <3>1, <3>2, <3>3, <3>4 DEF Goroutine, Pump
  <2>3. \A i \in DOMAIN lines : lines[i].off # 0 => lines[i] \notin inflight'
    <3> SUFFICES ASSUME NEW i \in DOMAIN lines, lines[i].off # 0
                 PROVE  lines[i] \notin inflight'
      OBVIOUS
    <3>1. /\ lines[i] \notin inflight /\ lines[i].off <= Handed(lines[i].sess)
          /\ lines[i].off \in Nat
      BY LineTypes DEF LinesInv
    <3>2. CASE PumpRecord(s)
      <4>1. inflight' = inflight \union {[sess |-> s, off |-> Handed(s) + 1]}
        BY <3>2, PumpTakes
      <4>2. lines[i] # [sess |-> s, off |-> Handed(s) + 1]
        <5> SUFFICES ASSUME lines[i] = [sess |-> s, off |-> Handed(s) + 1] PROVE FALSE
          OBVIOUS
        <5>1. lines[i].sess = s /\ lines[i].off = Handed(s) + 1
          OBVIOUS
        <5> QED BY <1>t, <3>1, <5>1
      <4> QED BY <3>1, <4>1, <4>2
    <3>3. CASE PumpError(s)
      <4>1. inflight' = inflight \union {[sess |-> s, off |-> 0]}
        BY <3>3 DEF PumpError
      <4>2. lines[i] # [sess |-> s, off |-> 0]
        OBVIOUS
      <4> QED BY <3>1, <4>1, <4>2
    <3>4. CASE Goroutine(s)
      BY <3>1, <3>4 DEF Goroutine, Attach, Fetch, FetchError, PollCancelled, Send,
         SendCancelled
    <3> QED BY <1>5, <3>2, <3>3, <3>4 DEF Pump
  <2> QED BY <1>t, <2>1, <2>2, <2>3, LinesFrame
<1> QED BY <1>1, <1>2, <1>3, <1>4, <1>5, StepKinds

\* What a later session has got stays above what an earlier one has fetched, if
\* nothing is fetched, sent or taken from a channel.
LEMMA LaterFrame ==
    ASSUME TypeInv, LaterInv, UNCHANGED <<started, topicOf, sent, msgCh>>,
           \A s \in Sessions : /\ fetched'[s] \in Nat /\ fetched'[s] <= fetched[s]
                               /\ pc'[s] \in {"poll", "deliver"} => pc[s] \in {"poll", "deliver"},
           \A m \in inflight' : m \in inflight \/ m.off = 0,
           \A i \in DOMAIN lines' : \/ lines'[i].off = 0
                                    \/ lines'[i] \in inflight
                                    \/ \E j \in DOMAIN lines : lines'[i] = lines[j]
    PROVE  LaterInv'
<1> SUFFICES ASSUME NEW r \in 1..started, NEW s \in 1..started, r < s,
                    topicOf[r] = topicOf[s]
             PROVE  Above(s, fetched[r])'
  BY DEF LaterInv
<1>1. Above(s, fetched[r])
  BY DEF LaterInv
<1>2. r \in Sessions /\ s \in Sessions
  BY FeedTypes DEF Sessions
<1>3. /\ fetched[r] \in Nat /\ fetched'[r] \in Nat /\ fetched'[r] <= fetched[r]
      /\ sent[s] \in Nat /\ Len(msgCh[s]) \in Nat
  BY <1>2, FeedTypes
<1>4. pc'[s] \in {"poll", "deliver"} => fetched'[r] <= sent'[s]
  BY <1>1, <1>2, <1>3 DEF Above
<1>5. msgCh'[s] # <<>> => fetched'[r] <= Handed(s)'
  <2>1. Handed(s) \in Int /\ Handed(s)' = Handed(s)
    BY <1>3 DEF Handed
  <2> QED BY <1>1, <1>3, <2>1 DEF Above
<1>6. ASSUME NEW m \in inflight', m.sess = s, m.off # 0 PROVE fetched'[r] < m.off
  <2>1. m \in inflight /\ m.off \in Nat
    BY <1>6, MessageTypes
  <2> QED BY <1>1, <1>3, <1>6, <2>1 DEF Above
<1>7. ASSUME NEW i \in DOMAIN lines', lines'[i].sess = s, lines'[i].off # 0
      PROVE  fetched'[r] < lines'[i].off
  <2>1. CASE lines'[i] \in inflight
    <3>1. lines'[i].off \in Nat
      BY <2>1, MessageTypes
    <3> QED BY <1>1, <1>3, <1>7, <2>1, <3>1 DEF Above
  <2>2. ASSUME NEW j \in DOMAIN lines, lines'[i] = lines[j]
        PROVE  fetched'[r] < lines'[i].off
    <3>1. lines'[i].off \in Nat
      BY <2>2, LineTypes
    <3> QED BY <1>1, <1>3, <1>7, <2>2, <3>1 DEF Above
  <2> QED BY <1>7, <2>1, <2>2
<1> QED BY <1>4, <1>5, <1>6, <1>7 DEF Above

\* A session before it has attached is above anything.
LEMMA AttachingIsAbove ==
    ASSUME TypeInv, LifeInv, QueueInv, LinesInv, NEW s \in Sessions,
           pc[s] \in {"idle", "attach"}
    PROVE  /\ msgCh[s] = <<>> /\ \A m \in inflight : m.sess = s => m.off = 0
           /\ \A i \in DOMAIN lines : lines[i].sess = s => lines[i].off = 0
<1>1. msgCh[s] = <<>> /\ Handed(s) = 0
  BY AttachingIsEmpty
<1>2. ASSUME NEW m \in inflight, m.sess = s PROVE m.off = 0
  BY <1>1, <1>2, MessageTypes DEF QueueInv
<1>3. ASSUME NEW i \in DOMAIN lines, lines[i].sess = s PROVE lines[i].off = 0
  BY <1>1, <1>3, LineTypes DEF LinesInv
<1> QED BY <1>1, <1>2, <1>3

LEMMA LaterStep ==
    ASSUME TypeInv, LifeInv, OneLiveSession, QueueInv, LinesInv, LaterInv, [Next]_vars
    PROVE  LaterInv'
<1> USE DEF feedVars, startVars
<1>t. /\ started \in Nat /\ 1..started \subseteq Sessions
      /\ \A s \in Sessions : fetched[s] \in Nat /\ sent[s] \in Nat /\ Handed(s) \in Nat
  <2>1. \A s \in Sessions : fetched[s] \in Nat /\ sent[s] \in Nat /\ Handed(s) \in Nat
    BY FeedTypes, HandedType
  <2> QED BY <2>1, FeedTypes DEF Sessions
<1>l. lines \in Seq(Line)
  BY FeedTypes
<1>1. CASE \/ Calm \/ StartErrorShown \/ LinesCleared \/ (\E t \in Topics : Produce(t))
           \/ (\E m \in inflight : TailUpdate(m) \/ TailDropped(m))
  <2>1. /\ UNCHANGED <<started, topicOf, sent, msgCh, fetched, pc>>
        /\ inflight' \subseteq inflight
    BY <1>1 DEF Calm, StartErrorShown, LinesCleared, Produce, TailUpdate, TailDropped
  <2>2. ASSUME NEW i \in DOMAIN lines'
        PROVE  \/ lines'[i].off = 0 \/ lines'[i] \in inflight
               \/ \E j \in DOMAIN lines : lines'[i] = lines[j]
    <3>1. CASE lines' = lines \/ lines' = <<>>
      BY <2>2, <3>1
    <3>2. CASE StartErrorShown
      <4>1. StartError \in Line /\ StartError.off = 0
        BY DEF StartError, Line
      <4> QED BY <1>l, <2>2, <3>2, <4>1, AppendLineShows DEF StartErrorShown
    <3>3. ASSUME NEW m \in inflight, lines' = AppendLine(m)
          PROVE  \/ lines'[i] \in inflight
                 \/ \E j \in DOMAIN lines : lines'[i] = lines[j]
      BY <1>l, <2>2, <3>3, AppendLineShows, MessageTypes
    <3> QED BY <1>1, <3>1, <3>2, <3>3 DEF Calm, LinesCleared, Produce, TailUpdate,
               TailDropped, LinesAfter
  <2> QED BY <1>t, <2>1, <2>2, LaterFrame
<1>2. ASSUME NEW topic \in Targets, Starts(topic) PROVE LaterInv'
  <2>1. /\ started' = started + 1 /\ started' \in Sessions
        /\ UNCHANGED <<feedVars, lines>> /\ pc'[started'] = "attach"
        /\ \A s \in Sessions \ {started'} : pc'[s] = pc[s] /\ topicOf'[s] = topicOf[s]
    BY <1>2, StartsNew, FeedTypes
  <2> SUFFICES ASSUME NEW r \in 1..started', NEW s \in 1..started', r < s,
                      topicOf'[r] = topicOf'[s]
               PROVE  Above(s, fetched[r])'
    BY DEF LaterInv
  <2>2. r \in Sessions /\ s \in Sessions /\ r # started' /\ r \in 1..started
    BY <1>t, <2>1 DEF Sessions
  <2>3. Handed(s)' = Handed(s)
    BY <2>1 DEF Handed
  <2>4. CASE s = started'
    <3>1. pc[s] = "idle"
      BY <1>t, <2>1, <2>2, <2>4 DEF LifeInv
    <3> QED BY <2>1, <2>2, <2>4, <3>1, AttachingIsAbove DEF Above
  <2>5. CASE s # started'
    <3>1. s \in 1..started /\ pc'[s] = pc[s] /\ topicOf[r] = topicOf[s]
      BY <1>t, <2>1, <2>2, <2>5
    <3>2. Above(s, fetched[r])
      BY <2>2, <3>1 DEF LaterInv
    <3> QED BY <2>1, <2>3, <3>1, <3>2 DEF Above
  <2> QED BY <2>4, <2>5
<1>5. ASSUME NEW s \in Sessions, Goroutine(s) \/ Pump(s) PROVE LaterInv'
  <2>0. s \in live => s = started
    BY FeedTypes DEF OneLiveSession, LifeInv
  <2>1. CASE FetchError(s) \/ PollCancelled(s) \/ SendCancelled(s) \/ PumpError(s)
    <3>1. /\ UNCHANGED <<started, topicOf, sent, msgCh, lines>>
          /\ \A m \in inflight' : m \in inflight \/ m.off = 0
      BY <2>1 DEF FetchError, PollCancelled, SendCancelled, PumpError
    <3>2. \A r \in Sessions :
            pc'[r] \in {"poll", "deliver"} => pc[r] \in {"poll", "deliver"}
      BY <2>1, FeedTypes DEF FetchError, PollCancelled, SendCancelled, PumpError
    <3>3. \A r \in Sessions : fetched'[r] \in Nat /\ fetched'[r] <= fetched[r]
      <4>1. CASE SendCancelled(s)
        BY <4>1, <1>t, FeedTypes DEF SendCancelled
      <4>2. CASE UNCHANGED fetched
        BY <4>2, <1>t
      <4> QED BY <2>1, <4>1, <4>2 DEF FetchError, PollCancelled, PumpError
    <3> QED BY <3>1, <3>2, <3>3, LaterFrame
  <2> SUFFICES ASSUME NEW p \in 1..started, NEW q \in 1..started, p < q,
                      topicOf[p] = topicOf[q], Attach(s) \/ Fetch(s) \/ Send(s) \/ PumpRecord(s)
               PROVE  Above(q, fetched[p])'
    <3>1. UNCHANGED <<started, topicOf>> \/ LaterInv'
      BY <1>5, <2>1 DEF Goroutine, Pump, Attach, Fetch, Send, PumpRecord
    <3> QED BY <1>5, <2>1, <3>1 DEF Goroutine, Pump, LaterInv
  <2>2. /\ Above(q, fetched[p]) /\ p \in Sessions /\ q \in Sessions
        /\ UNCHANGED lines
    BY <1>t DEF LaterInv, Attach, Fetch, Send, PumpRecord
  <2>3. CASE Attach(s)
    <3>1. /\ s = started /\ s \in live /\ p # s /\ UNCHANGED <<msgCh, inflight>>
          /\ fetched'[p] = fetched[p]
      BY <1>t, <2>0, <2>2, <2>3, FeedTypes DEF Attach
    <3>2. CASE q = s
      <4>1. sent'[q] = log[topicOf[q]] /\ fetched[p] <= log[topicOf[p]] /\ pc[q] = "attach"
        BY <2>2, <2>3, <3>2, FeedTypes DEF Attach, LifeInv
      <4>2. \A m \in inflight : m.sess = q => m.off = 0
        BY <2>2, <4>1, AttachingIsAbove
      <4>3. \A i \in DOMAIN lines : lines[i].sess = q => lines[i].off = 0
        BY <2>2, <4>1, AttachingIsAbove
      <4>4. msgCh[q] = <<>>
        BY <2>2, <4>1, AttachingIsAbove
      <4> QED BY <2>2, <3>1, <4>1, <4>2, <4>3, <4>4 DEF Above
    <3>3. CASE q # s
      <4>1. pc'[q] = pc[q] /\ sent'[q] = sent[q] /\ Handed(q)' = Handed(q)
        BY <2>2, <2>3, <3>1, <3>3, FeedTypes DEF Attach, Handed
      <4> QED BY <2>2, <3>1, <4>1 DEF Above
    <3> QED BY <3>2, <3>3
  <2>4. CASE Fetch(s)
    <3>1. /\ s = started /\ p # s /\ UNCHANGED <<msgCh, inflight, sent>>
          /\ fetched'[p] = fetched[p] /\ pc[s] = "poll"
          /\ \A r \in Sessions \ {s} : pc'[r] = pc[r]
      BY <1>t, <2>0, <2>2, <2>4, FeedTypes DEF Fetch
    <3>2. Handed(q)' = Handed(q)
      BY <3>1 DEF Handed
    <3>3. pc'[q] \in {"poll", "deliver"} => pc[q] \in {"poll", "deliver"}
      BY <2>2, <3>1
    <3> QED BY <2>2, <3>1, <3>2, <3>3 DEF Above
  <2>5. CASE Send(s)
    <3>1. UNCHANGED <<inflight, fetched>> /\ pc[s] = "deliver" /\ Handed(q)' = Handed(q)
      BY <2>2, <2>5, SendAppends DEF Send
    <3>2. CASE q = s
      <4>1. sent'[q] = sent[q] + 1 /\ fetched[p] <= sent[q]
        BY <2>2, <2>5, <3>1, <3>2, SendAppends DEF Above
      <4>2. fetched[p] <= Handed(q)
        <5>1. CASE msgCh[q] # <<>>
          BY <2>2, <5>1 DEF Above
        <5>2. CASE msgCh[q] = <<>>
          <6>1. Len(msgCh[q]) = 0
            BY <2>2, <5>2, FeedTypes
          <6>2. Handed(q) = sent[q]
            BY <1>t, <2>2, <6>1 DEF Handed
          <6> QED BY <4>1, <6>2
        <5> QED BY <5>1, <5>2
      <4>3. fetched[p] <= sent'[q]
        BY <1>t, <2>2, <4>1
      <4> QED BY <2>2, <3>1, <4>2, <4>3 DEF Above
    <3>3. CASE q # s
      <4>1. pc'[q] = pc[q] /\ sent'[q] = sent[q] /\ msgCh'[q] = msgCh[q]
        BY <2>2, <2>5, <3>3, FeedTypes DEF Send
      <4> QED BY <2>2, <3>1, <4>1 DEF Above
    <3> QED BY <3>2, <3>3
  <2>6. CASE PumpRecord(s)
    <3>1. /\ UNCHANGED <<fetched, pc, sent>> /\ msgCh[s] # <<>>
          /\ inflight' = inflight \union {[sess |-> s, off |-> Handed(s) + 1]}
          /\ Handed(s)' = Handed(s) + 1
          /\ \A r \in Sessions \ {s} : msgCh'[r] = msgCh[r] /\ Handed(r)' = Handed(r)
      BY <2>6, PumpTakes DEF PumpRecord
    <3>2. \A m \in inflight : m.sess = q /\ m.off # 0 => fetched[p] < m.off
      BY <2>2 DEF Above
    <3>3. CASE q = s
      <4>1. fetched[p] <= Handed(s)
        BY <2>2, <3>1, <3>3 DEF Above
      <4>2. fetched[p] < Handed(s) + 1 /\ fetched[p] <= Handed(q)'
        BY <1>t, <2>2, <3>1, <3>3, <4>1
      <4> QED BY <2>2, <3>1, <3>2, <4>2 DEF Above
    <3>4. CASE q # s
      BY <2>2, <3>1, <3>2, <3>4 DEF Above
    <3> QED BY <3>3, <3>4
  <2> QED BY <2>3, <2>4, <2>5, <2>6
<1> QED BY <1>1, <1>2, <1>5, StepKinds

\* What the offsets of all sessions satisfy, and OneLiveSession with the types.
FeedInv == TypeInv /\ OneLiveSession /\ LifeInv /\ QueueInv /\ LinesInv /\ LaterInv

LEMMA FeedInit == Init => FeedInv
<1> SUFFICES ASSUME Init PROVE FeedInv
  OBVIOUS
<1>1. TypeInv /\ OneLiveSession
  BY InitType DEF Init, OneLiveSession
<1>2. /\ started = 0 /\ consumer = 0 /\ forked = {} /\ inflight = {} /\ lines = <<>>
      /\ \A s \in Sessions : /\ sent[s] = 0 /\ fetched[s] = 0 /\ msgCh[s] = <<>>
                             /\ pc[s] = "idle" /\ ~errCh[s] /\ s > 0
  BY DEF Init, Sessions
<1>3. LifeInv
  <2>1. \A s \in Sessions : ~(s <= started)
    BY <1>2 DEF Sessions
  <2> QED BY <1>2, <2>1 DEF LifeInv
<1>4. QueueInv
  <2>1. \A s \in Sessions : Len(msgCh[s]) = 0 /\ DOMAIN msgCh[s] = {}
    BY <1>1, <1>2, FeedTypes
  <2> QED BY <1>2, <2>1 DEF QueueInv
<1>5. LinesInv
  BY <1>2 DEF LinesInv, DistinctLines
<1>6. LaterInv
  BY <1>2 DEF LaterInv
<1> QED BY <1>1, <1>3, <1>4, <1>5, <1>6 DEF FeedInv

LEMMA FeedStep == FeedInv /\ [Next]_vars => FeedInv'
<1> SUFFICES ASSUME FeedInv, [Next]_vars PROVE FeedInv'
  OBVIOUS
<1> USE DEF FeedInv
<1> QED BY NextType, OneLiveStep, LifeStep, QueueStep, LinesStep, LaterStep

LEMMA FeedInvariance == Spec => []FeedInv
BY FeedInit, FeedStep, PTL DEF Spec

\* However often a topic is reopened or reloaded, and whichever pumps and messages
\* of older sessions are still about, no record of a topic is shown twice.
THEOREM NoRecordTwice == Spec => []ShownOnce
<1>1. ASSUME FeedInv PROVE ShownOnce
  <2> SUFFICES ASSUME NEW i \in DOMAIN lines, NEW j \in DOMAIN lines, i # j,
                      lines[i].off # 0, lines[j].off # 0,
                      topicOf[lines[i].sess] = topicOf[lines[j].sess]
               PROVE  lines[i].off # lines[j].off
    BY DEF ShownOnce
  <2>t. TypeInv /\ LinesInv /\ LaterInv /\ QueueInv
    BY <1>1 DEF FeedInv
  <2>1. /\ lines[i] \in Line /\ lines[j] \in Line
        /\ lines[i].off \in Nat /\ lines[j].off \in Nat
    BY <2>t, LineTypes
  <2>2. /\ lines[i].sess \in 1..started /\ lines[j].sess \in 1..started
        /\ lines[i].off <= Handed(lines[i].sess) /\ lines[j].off <= Handed(lines[j].sess)
        /\ lines[i] # lines[j]
    BY <2>t DEF LinesInv, DistinctLines
  <2>3. \A s \in 1..started :
          Handed(s) \in Nat /\ fetched[s] \in Nat /\ Handed(s) <= fetched[s]
    <3> SUFFICES ASSUME NEW s \in 1..started
                 PROVE  Handed(s) \in Nat /\ fetched[s] \in Nat /\ Handed(s) <= fetched[s]
      OBVIOUS
    <3>1. s \in Sessions
      BY <2>t, FeedTypes DEF Sessions
    <3>2. Handed(s) <= sent[s] /\ sent[s] <= fetched[s]
      BY <2>t, <3>1, HandedType, FeedTypes
    <3>3. Handed(s) \in Nat /\ sent[s] \in Nat /\ fetched[s] \in Nat
      BY <2>t, <3>1, HandedType, FeedTypes
    <3> QED BY <3>2, <3>3
  <2>4. CASE lines[i].sess = lines[j].sess
    BY <2>1, <2>2, <2>4 DEF Line
  <2>5. CASE lines[i].sess < lines[j].sess
    <3>1. fetched[lines[i].sess] < lines[j].off
      BY <2>t, <2>2, <2>5 DEF LaterInv, Above
    <3> QED BY <2>1, <2>2, <2>3, <3>1
  <2>6. CASE lines[j].sess < lines[i].sess
    <3>1. fetched[lines[j].sess] < lines[i].off
      BY <2>t, <2>2, <2>6 DEF LaterInv, Above
    <3> QED BY <2>1, <2>2, <2>3, <3>1
  <2>7. lines[i].sess \in Nat /\ lines[j].sess \in Nat
    BY <2>2, FeedTypes
  <2> QED BY <2>4, <2>5, <2>6, <2>7
<1> QED BY <1>1, FeedInvariance, PTL

-----------------------------------------------------------------------------
(* LiveTail implements TailFeed                                            *)

LEMMA SinglePumpStep ==
    ASSUME FeedInv, SinglePump, [Next]_vars
    PROVE  SinglePump'
<1> USE DEF feedVars, startVars, FeedInv
<1>t. /\ \A s \in Sessions : Handed(s) \in Nat /\ pumps[s] \in Nat
      /\ \A m \in inflight : m.sess \in Sessions
  BY FeedTypes, HandedType, MessageTypes
<1>1. CASE \/ Calm \/ StartErrorShown \/ LinesCleared \/ (\E t \in Topics : Produce(t))
           \/ (\E m \in inflight : TailDropped(m))
  <2>1. UNCHANGED <<pumps, sent, msgCh, forked>> /\ inflight' \subseteq inflight
    BY <1>1 DEF Calm, StartErrorShown, LinesCleared, Produce, TailDropped
  <2>2. \A s \in Sessions : Handed(s)' = Handed(s)
    BY <2>1, HandedFrame
  <2> QED BY <2>1, <2>2 DEF SinglePump
<1>2. ASSUME NEW topic \in Targets, Starts(topic) PROVE SinglePump'
  <2>1. /\ UNCHANGED feedVars /\ started' = started + 1 /\ started' \in Sessions
        /\ pumps' = [pumps EXCEPT ![started'] = 1]
    BY <1>2, StartsNew
  <2>2. \A s \in Sessions : Handed(s)' = Handed(s)
    BY <2>1, HandedFrame
  <2>3. \A m \in inflight : m.sess # started'
    <3> SUFFICES ASSUME NEW m \in inflight PROVE m.sess # started'
      OBVIOUS
    <3>1. m.sess <= started /\ m.sess \in Nat /\ started \in Nat
      BY <1>t, FeedTypes DEF QueueInv, Sessions
    <3> QED BY <2>1, <3>1
  <2>4. pumps'[started'] = 1 /\ \A s \in Sessions \ {started'} : pumps'[s] = pumps[s]
    BY <2>1, FeedTypes
  <2> QED BY <2>1, <2>2, <2>3, <2>4 DEF SinglePump
<1>3. ASSUME NEW m \in inflight, TailUpdate(m) PROVE SinglePump'
  <2>1. /\ UNCHANGED <<sent, msgCh, consumer>> /\ inflight' = inflight \ {m}
        /\ pumps' = HandlerPump
        /\ forked' = IF consumer \notin {0, m.sess} THEN forked \union {consumer} ELSE forked
    BY <1>3 DEF TailUpdate
  <2>2. \A s \in Sessions : Handed(s)' = Handed(s)
    BY <2>1, HandedFrame
  <2>3. \A s \in Sessions : s # consumer => pumps'[s] = pumps[s]
    BY <2>1, FeedTypes DEF HandlerPump
  <2> SUFFICES ASSUME NEW s \in Sessions \ forked'
               PROVE  /\ pumps'[s] <= 1
                      /\ \A n \in inflight' : n.sess = s =>
                           /\ pumps'[s] = 0 /\ n.off \in {0, Handed(s)'}
                           /\ \A o \in inflight' : o.sess = s => o = n
    BY DEF SinglePump
  <2>4. s \notin forked
    BY <2>1
  <2>5. CASE s # consumer
    BY <2>1, <2>2, <2>3, <2>4, <2>5 DEF SinglePump
  <2>6. CASE s = consumer
    <3>1. m.sess = s
      BY <2>1, <2>6 DEF Sessions
    <3>2. pumps[s] = 0 /\ \A n \in inflight : n.sess = s => n = m
      BY <2>4, <3>1 DEF SinglePump
    <3>3. pumps'[s] = 1
      <4>1. consumer # 0
        BY <2>6 DEF Sessions
      <4> QED BY <2>1, <2>6, <3>2, <4>1, FeedTypes DEF HandlerPump
    <3>4. \A n \in inflight' : n.sess # s
      BY <2>1, <3>2
    <3> QED BY <3>3, <3>4
  <2> QED BY <2>5, <2>6
<1>4. ASSUME NEW s \in Sessions, Goroutine(s) PROVE SinglePump'
  <2>1. UNCHANGED <<pumps, forked, inflight>>
    BY <1>4 DEF Goroutine, Attach, Fetch, FetchError, PollCancelled, Send, SendCancelled
  <2>2. CASE Attach(s)
    <3>1. \A m \in inflight : m.sess = s => m.off = 0
      BY <2>2, AttachingIsAbove DEF Attach
    <3>2. \A r \in Sessions \ {s} : Handed(r)' = Handed(r)
      BY <2>2, FeedTypes DEF Attach, Handed
    <3> QED BY <2>1, <3>1, <3>2 DEF SinglePump
  <2>3. CASE ~Attach(s)
    <3>1. \A r \in Sessions : Handed(r)' = Handed(r)
      BY <1>4, <2>3, SendAppends, HandedFrame DEF Goroutine, Fetch, FetchError,
         PollCancelled, SendCancelled
    <3> QED BY <2>1, <3>1 DEF SinglePump
  <2> QED BY <2>2, <2>3
<1>5. ASSUME NEW s \in Sessions, Pump(s) PROVE SinglePump'
  <2>1. PICK o : /\ inflight' = inflight \union {[sess |-> s, off |-> o]}
                 /\ pumps' = [pumps EXCEPT ![s] = @ - 1] /\ pumps[s] > 0
                 /\ forked' = forked /\ o \in {0, Handed(s)'}
    <3>1. CASE PumpRecord(s)
      BY <3>1, PumpTakes DEF PumpRecord
    <3>2. CASE PumpError(s)
      BY <3>2 DEF PumpError
    <3> QED BY <1>5, <3>1, <3>2 DEF Pump
  <2>2. \A r \in Sessions \ {s} : Handed(r)' = Handed(r) /\ pumps'[r] = pumps[r]
    <3>1. CASE PumpRecord(s)
      BY <2>1, <3>1, PumpTakes, FeedTypes
    <3>2. CASE PumpError(s)
      BY <2>1, <3>2, HandedFrame, FeedTypes DEF PumpError
    <3> QED BY <1>5, <3>1, <3>2 DEF Pump
  <2>3. ASSUME s \notin forked
        PROVE  /\ pumps'[s] = 0 /\ \A n \in inflight : n.sess # s
    <3>1. pumps[s] = 1
      BY <1>t, <2>1, <2>3 DEF SinglePump
    <3>2. pumps'[s] = 0
      BY <2>1, <3>1, FeedTypes
    <3> QED BY <2>3, <3>1, <3>2 DEF SinglePump
  <2> SUFFICES ASSUME NEW r \in Sessions \ forked
               PROVE  /\ pumps'[r] <= 1
                      /\ \A n \in inflight' : n.sess = r =>
                           /\ pumps'[r] = 0 /\ n.off \in {0, Handed(r)'}
                           /\ \A p \in inflight' : p.sess = r => p = n
    BY <2>1 DEF SinglePump
  <2>4. CASE r = s
    <3>1. \A n \in inflight' : n.sess = s => n = [sess |-> s, off |-> o]
      BY <2>1, <2>3, <2>4
    <3> QED BY <2>1, <2>3, <2>4, <3>1
  <2>5. CASE r # s
    <3>1. \A n \in inflight' : n.sess = r => n \in inflight
      BY <2>1, <2>5
    <3> QED BY <2>2, <2>5, <3>1 DEF SinglePump
  <2> QED BY <2>4, <2>5
<1> QED BY <1>1, <1>2, <1>3, <1>4, <1>5, StepKinds

\* Offsets of records the pumps have taken and Update has not.
Messages(s) == {m.off : m \in {x \in inflight : x.sess = s /\ x.off # 0}}

\* n is the offset in front of the first one in P, or the last of all.
InFront(n, P, last) ==
    IF P = {} THEN n = last ELSE n + 1 \in P /\ \A p \in P : n < p

\* What is pending is in messages or lies behind what was handed over, and the
\* abstract feed's position is in front of it.
FeedShape ==
    \A s \in Sessions :
        /\ fetched[s] \in 0..MaxOffset /\ Handed(s) \in 0..fetched[s]
        /\ Messages(s) \subseteq 1..Handed(s)
        /\ Pending(s) = Messages(s) \union (Handed(s)+1..fetched[s])
        /\ Handled(s) \in 0..fetched[s] /\ InFront(Handled(s), Pending(s), fetched[s])

LEMMA LeastOffset ==
    ASSUME NEW P \in SUBSET Nat, P # {}
    PROVE  \E o \in P : \A p \in P : o <= p
<1>1. PICK o \in P : \A p \in P : ~ (<<p, o>> \in OpToRel(<, Nat))
  BY NatLessThanWellFounded, WFMin
<1>2. ASSUME NEW p \in P PROVE o <= p
  <2>1. <<p, o>> \notin OpToRel(<, Nat)
    BY <1>1
  <2>2. ~(p < o)
    BY <2>1 DEF OpToRel
  <2> QED BY <2>2
<1> QED BY <1>2

LEMMA FeedShaped == FeedInv => FeedShape
<1> SUFFICES ASSUME FeedInv, NEW s \in Sessions
             PROVE  /\ fetched[s] \in 0..MaxOffset /\ Handed(s) \in 0..fetched[s]
                    /\ Messages(s) \subseteq 1..Handed(s)
                    /\ Pending(s) = Messages(s) \union (Handed(s)+1..fetched[s])
                    /\ Handled(s) \in 0..fetched[s] /\ InFront(Handled(s), Pending(s), fetched[s])
  BY DEF FeedShape
<1> USE DEF FeedInv
<1>1. /\ fetched[s] \in 0..MaxOffset /\ sent[s] \in Nat /\ Handed(s) \in Nat
      /\ Handed(s) <= sent[s] /\ sent[s] <= fetched[s]
      /\ Len(msgCh[s]) = sent[s] - Handed(s) /\ DOMAIN msgCh[s] = 1..Len(msgCh[s])
  BY FeedTypes, HandedType
<1>2. Handed(s) \in 0..fetched[s]
  BY <1>1
<1>3. Messages(s) \subseteq 1..Handed(s)
  BY <1>1, MessageTypes DEF QueueInv, Messages
<1>4. {msgCh[s][i] : i \in DOMAIN msgCh[s]} = Handed(s)+1..sent[s]
  <2>1. ASSUME NEW i \in DOMAIN msgCh[s] PROVE msgCh[s][i] \in Handed(s)+1..sent[s]
    BY <1>1 DEF QueueInv
  <2>2. ASSUME NEW o \in Handed(s)+1..sent[s]
        PROVE  \E i \in DOMAIN msgCh[s] : msgCh[s][i] = o
    <3>1. o - Handed(s) \in DOMAIN msgCh[s]
      BY <1>1
    <3>2. msgCh[s][o - Handed(s)] = o
      BY <1>1, <3>1 DEF QueueInv
    <3> QED BY <3>1, <3>2
  <2> QED BY <2>1, <2>2
<1>5. Pending(s) = Messages(s) \union (Handed(s)+1..fetched[s])
  <2>1. (Handed(s)+1..sent[s]) \union (sent[s]+1..fetched[s]) = Handed(s)+1..fetched[s]
    BY <1>1
  <2> QED BY <1>4, <2>1 DEF Pending, Messages
<1>6. Pending(s) \subseteq 1..fetched[s] /\ Pending(s) \in SUBSET Nat
  BY <1>1, <1>3, <1>5
<1>7. CASE Pending(s) = {}
  BY <1>1, <1>2, <1>3, <1>5, <1>7 DEF Handled, InFront
<1>8. CASE Pending(s) # {}
  <2> DEFINE o == CHOOSE o \in Pending(s) : \A p \in Pending(s) : o <= p
  <2>1. o \in Pending(s) /\ \A p \in Pending(s) : o <= p
    BY <1>6, <1>8, LeastOffset
  <2>2. Handled(s) = o - 1
    BY <1>8 DEF Handled
  <2> HIDE DEF o
  <2>3. o \in 1..fetched[s]
    BY <1>6, <2>1
  <2>4. /\ Handled(s) \in 0..fetched[s] /\ Handled(s) + 1 = o
        /\ \A p \in Pending(s) : Handled(s) < p
    BY <1>1, <1>6, <2>1, <2>2, <2>3
  <2> QED BY <1>1, <1>2, <1>3, <1>5, <1>8, <2>1, <2>4 DEF InFront
<1> QED BY <1>7, <1>8

LEMMA FeedShapedNext == FeedInv' => FeedShape'
BY FeedShaped, PTL

\* Only one offset is in front of what is pending.
LEMMA InFrontOnce ==
    ASSUME NEW P, NEW last, NEW n \in Nat, NEW o \in Nat,
           InFront(n, P, last), InFront(o, P, last)
    PROVE  n = o
<1>1. CASE P = {}
  BY <1>1 DEF InFront
<1>2. CASE P # {}
  <2>1. n < o + 1 /\ o < n + 1
    BY <1>2 DEF InFront
  <2> QED BY <2>1
<1> QED BY <1>1, <1>2

LEMMA HandledBecomes ==
    ASSUME FeedShape', NEW s \in Sessions, NEW n \in Nat,
           NEW P, P = Pending(s)', InFront(n, P, fetched'[s])
    PROVE  Handled(s)' = n
<1>1. PICK o : o = Handled(s)'
  OBVIOUS
<1>2. o \in Nat /\ InFront(o, P, fetched'[s])
  BY <1>1 DEF FeedShape, InFront
<1> QED BY <1>1, <1>2, InFrontOnce

LEMMA HandledStays ==
    ASSUME FeedShape, FeedShape', NEW s \in Sessions, fetched'[s] = fetched[s],
           Pending(s)' = Pending(s)
    PROVE  Handled(s)' = Handled(s)
<1>1. Handled(s) \in Nat /\ InFront(Handled(s), Pending(s), fetched'[s])
  BY DEF FeedShape
<1> QED BY <1>1, HandledBecomes

LEMMA ShowsLine ==
    ASSUME TypeInv, NEW line \in Line, lines' = AppendLine(line)
    PROVE  Feed!Shows(line)
<1> DEFINE all == Append(lines, line)
<1>1. lines \in Seq(Line) /\ Len(lines) <= MaxLines /\ Len(lines) \in Nat
  BY LenProperties DEF TypeInv, TypeOK, TailType
<1>2. all \in Seq(Line) /\ Len(all) = Len(lines) + 1 /\ all # <<>>
  BY <1>1, AppendProperties
<1> HIDE DEF all
<1>3. CASE Len(all) > MaxLines
  <2>1. Len(all) - MaxLines + 1 = 2 /\ Len(all) \in Nat /\ 2 \in 1..Len(all)+1
    BY <1>1, <1>2, <1>3
  <2>2. /\ SubSeq(all, 2, Len(all)) \in Seq(Line)
        /\ Len(SubSeq(all, 2, Len(all))) = Len(all) - 1
        /\ \A i \in 1..(Len(all) - 1) : SubSeq(all, 2, Len(all))[i] = all[i + 1]
    BY <1>2, <2>1, SubSeqProperties
  <2>3. /\ Tail(all) \in Seq(Line) /\ Len(Tail(all)) = Len(all) - 1
        /\ \A i \in 1..(Len(all) - 1) : Tail(all)[i] = all[i + 1]
    BY <1>2, HeadTailProperties
  <2>4. SubSeq(all, 2, Len(all)) = Tail(all)
    BY <2>2, <2>3, SeqEqual
  <2> QED BY <1>3, <2>1, <2>4 DEF AppendLine, Feed!Shows, all
<1>4. CASE ~(Len(all) > MaxLines)
  BY <1>4 DEF AppendLine, Feed!Shows, all
<1> QED BY <1>3, <1>4

\* What all steps of the proof need of the state and the next one.
FeedStepped == FeedInv /\ FeedShape /\ FeedShape'

LEMMA MessagesFrame ==
    ASSUME NEW s, \A m : m.sess = s /\ m.off # 0 => (m \in inflight' <=> m \in inflight)
    PROVE  Messages(s)' = Messages(s)
BY DEF Messages

\* The position of every session whose part of the feed stays is the same.
LEMMA PositionFrame ==
    ASSUME FeedStepped, NEW s \in Sessions, fetched'[s] = fetched[s],
           Handed(s)' = Handed(s), Messages(s)' = Messages(s)
    PROVE  Handled(s)' = Handled(s)
<1>1. Pending(s)' = Pending(s)
  BY DEF FeedStepped, FeedShape
<1> QED BY <1>1, HandledStays DEF FeedStepped

LEMMA FeedUnchanged ==
    ASSUME UNCHANGED <<fetched, sent, msgCh, inflight>>
    PROVE  \A s \in Sessions : Handled(s)' = Handled(s)
BY DEF Handled, Pending

\* Update or a view that ignores it takes a record: the feed's next one unless the
\* session forked.
LEMMA RecordTaken ==
    ASSUME FeedStepped, SinglePump, NEW m \in inflight, m.off # 0,
           inflight' = inflight \ {m}, UNCHANGED <<view, paused, fetched, sent, msgCh>>,
           forked \subseteq forked',
           IF view = "detail" /\ ~paused THEN lines' = AppendLine(m) ELSE UNCHANGED lines
    PROVE  Feed!HandleNext(m.sess) \/ Feed!HandleAny(m.sess)
<1> DEFINE s == m.sess
           H == [r \in Sessions |-> Handled(r)]
<1>1. /\ s \in Sessions /\ m.off \in Nat /\ m \in Line /\ m.off \in Messages(s)
      /\ m = [sess |-> s, off |-> m.off]
  <2>1. m \in TailMsg /\ m \in Line /\ s \in Sessions /\ m.off \in Nat
    BY FeedTypes, MessageTypes DEF FeedStepped, FeedInv
  <2> QED BY <2>1 DEF Messages, TailMsg
<1>2. \A r \in Sessions : Handed(r)' = Handed(r)
  BY HandedFrame
<1>3. ASSUME NEW r \in Sessions, r # s PROVE Handled(r)' = Handled(r)
  <2>1. Messages(r)' = Messages(r)
    BY <1>3 DEF Messages
  <2> QED BY <1>2, <2>1, PositionFrame
<1>4. /\ fetched[s] \in Nat /\ Handled(s) \in Nat /\ Handed(s) \in Nat
      /\ Handled(s) < m.off /\ m.off <= Handed(s) /\ Handed(s) <= fetched[s]
  <2>1. m.off \in Pending(s) /\ InFront(Handled(s), Pending(s), fetched[s])
    BY <1>1 DEF FeedStepped, FeedShape
  <2>2. m.off \in 1..Handed(s) /\ Handed(s) \in 0..fetched[s] /\ fetched[s] \in Nat
    BY <1>1 DEF FeedStepped, FeedShape
  <2>3. Handled(s) \in Nat
    BY <1>1 DEF FeedStepped, FeedShape
  <2>4. Handled(s) < m.off
    BY <2>1 DEF InFront
  <2> QED BY <2>2, <2>3, <2>4
<1>5. H' = [H EXCEPT ![s] = Handled(s)']
  BY <1>1, <1>3
<1>6. view = "detail" /\ ~paused => Feed!Shows([sess |-> s, off |-> m.off])
  BY <1>1, ShowsLine DEF FeedStepped, FeedInv
<1>7. CASE s \in forked
  <2>1. Handled(s)' \in Handled(s)..fetched[s]
    <3>1. Pending(s)' \subseteq Pending(s)
      BY DEF Pending
    <3>2. PICK P : P = Pending(s)'
      OBVIOUS
    <3>3. PICK n : n = Handled(s)'
      OBVIOUS
    <3>4. n \in 0..fetched[s] /\ InFront(n, P, fetched[s])
      BY <1>1, <3>2, <3>3 DEF FeedStepped, FeedShape, InFront
    <3>5. InFront(Handled(s), Pending(s), fetched[s]) /\ Handled(s) \in 0..fetched[s]
      BY <1>1 DEF FeedStepped, FeedShape
    <3>6. CASE P = {}
      BY <1>1, <1>4, <3>3, <3>4, <3>6 DEF InFront
    <3>7. CASE P # {}
      <4>1. n + 1 \in Pending(s)
        BY <3>1, <3>2, <3>4, <3>7 DEF InFront
      <4>2. Handled(s) < n + 1
        BY <3>5, <4>1 DEF InFront
      <4> QED BY <1>4, <3>3, <3>4, <4>2
    <3> QED BY <3>6, <3>7
  <2>2. m.off \in H[s]+1..fetched[s]
    BY <1>1, <1>4
  <2>3. H[s] = Handled(s)
    BY <1>1
  <2> QED BY <1>5, <1>6, <1>7, <2>1, <2>2, <2>3 DEF Feed!HandleAny
<1>8. CASE s \notin forked
  <2>1. m.off = Handed(s) /\ \A n \in inflight : n.sess = s => n = m
    BY <1>1, <1>8 DEF SinglePump
  <2>2. Messages(s) = {m.off} /\ Messages(s)' = {}
    BY <2>1 DEF Messages
  <2>3. Pending(s) = {m.off} \union (m.off + 1..fetched[s])
    BY <1>1, <2>1, <2>2 DEF FeedStepped, FeedShape
  <2>4. Pending(s)' = m.off + 1..fetched[s]
    BY <1>1, <1>2, <2>1, <2>2 DEF FeedStepped, FeedShape
  <2>5. Handled(s) = m.off - 1
    <3>1. InFront(Handled(s), Pending(s), fetched[s])
      BY <1>1 DEF FeedStepped, FeedShape
    <3>2. InFront(m.off - 1, Pending(s), fetched[s])
      BY <1>1, <1>4, <2>3 DEF InFront
    <3>3. m.off - 1 \in Nat
      BY <1>1, <1>4
    <3> QED BY <1>4, <3>1, <3>2, <3>3, InFrontOnce
  <2>6. Handled(s)' = m.off
    <3>1. InFront(m.off, m.off + 1..fetched[s], fetched'[s])
      BY <1>4, <2>1 DEF InFront
    <3> QED BY <1>1, <2>4, <3>1, HandledBecomes DEF FeedStepped
  <2>7. /\ H[s] < fetched[s] /\ H[s] + 1 = m.off /\ H' = [H EXCEPT ![s] = @ + 1]
    <3>1. H[s] = m.off - 1 /\ H' = [H EXCEPT ![s] = m.off] /\ m.off \in Int
      BY <1>1, <1>5, <2>5, <2>6
    <3>2. H[s] + 1 = m.off
      BY <3>1
    <3>3. H[s] < fetched[s]
      BY <1>1, <1>4, <3>1
    <3>4. [H EXCEPT ![s] = @ + 1] = [H EXCEPT ![s] = m.off]
      BY <3>2
    <3> QED BY <3>1, <3>2, <3>3, <3>4
  <2> QED BY <1>6, <1>8, <2>7 DEF Feed!HandleNext
<1> QED BY <1>7, <1>8

\* A step of a session's goroutine positions the feed, fetches, cancels or, when it
\* only moves a record into the channel or ends, is a stutter.
LEMMA GoroutineFeeds ==
    ASSUME FeedStepped, NEW s \in Sessions, Goroutine(s)
    PROVE  Feed!Next \/ UNCHANGED Feed!vars
<1> DEFINE H == [r \in Sessions |-> Handled(r)]
<1> USE DEF feedVars, startVars, uiVars
<1>t. /\ fetched \in [Sessions -> 0..MaxOffset] /\ sent \in [Sessions -> 0..MaxOffset]
      /\ fetched[s] \in Nat /\ Handed(s) \in 0..fetched[s] /\ Messages(s) \subseteq 1..Handed(s)
      /\ Pending(s) = Messages(s) \union (Handed(s)+1..fetched[s])
      /\ Handled(s) \in 0..fetched[s] /\ InFront(Handled(s), Pending(s), fetched[s])
      /\ sent[s] <= fetched[s] /\ Handed(s) <= sent[s] /\ sent[s] \in Nat
  BY FeedTypes, HandedType DEF FeedStepped, FeedShape, FeedInv
<1>f. UNCHANGED <<view, paused, inflight, forked, lines>>
  BY DEF Goroutine, Attach, Fetch, FetchError, PollCancelled, Send, SendCancelled
<1>m. \A r \in Sessions : Messages(r)' = Messages(r)
  BY <1>f DEF Messages
<1>1. CASE Attach(s)
  <2>1. fetched[s] = 0 /\ sent[s] = 0 /\ Handed(s) = 0 /\ Messages(s) = {} /\ msgCh[s] = <<>>
    <3>1. fetched[s] = 0 /\ sent[s] = 0 /\ Handed(s) = 0 /\ msgCh[s] = <<>>
      BY <1>1, AttachingIsEmpty DEF Attach, FeedStepped, FeedInv
    <3> QED BY <1>t, <3>1
  <2>2. PICK n : n = log[topicOf[s]]
    OBVIOUS
  <2>3. /\ fetched' = [fetched EXCEPT ![s] = n] /\ sent' = [sent EXCEPT ![s] = n]
        /\ msgCh' = msgCh
    BY <1>1, <2>2 DEF Attach
  <2>4. n \in 0..MaxOffset /\ fetched'[s] = n
    <3>1. fetched'[s] = n
      BY <1>t, <2>3
    <3> QED BY <3>1 DEF FeedStepped, FeedShape
  <2>5. Handled(s)' = n
    <3>1. Len(msgCh[s]) = 0 /\ sent'[s] = n
      BY <1>t, <2>1, <2>3, FeedTypes DEF FeedStepped, FeedInv
    <3>2. Handed(s)' = n
      BY <2>3, <2>4, <3>1 DEF Handed
    <3>3. Pending(s)' = {}
      BY <1>m, <2>1, <2>4, <3>2 DEF FeedStepped, FeedShape
    <3> QED BY <2>4, <3>3, HandledBecomes DEF FeedStepped, InFront
  <2>6. ASSUME NEW r \in Sessions \ {s} PROVE Handled(r)' = Handled(r)
    <3>1. fetched'[r] = fetched[r] /\ Handed(r)' = Handed(r)
      BY <1>t, <2>3 DEF Handed
    <3> QED BY <1>m, <3>1, PositionFrame
  <2>7. H' = [H EXCEPT ![s] = n]
    BY <2>5, <2>6
  <2>8. Feed!Position(s)
    BY <1>f, <2>1, <2>3, <2>4, <2>7 DEF Feed!Position
  <2> QED BY <2>8 DEF Feed!Next
<1>2. CASE Fetch(s)
  <2>1. PICK n \in fetched[s]+1..log[topicOf[s]] : fetched' = [fetched EXCEPT ![s] = n]
    BY <1>2 DEF Fetch
  <2>2. /\ fetched'[s] = n /\ n > fetched[s] /\ sent[s] = fetched[s]
        /\ UNCHANGED <<sent, msgCh>>
    BY <1>2, <1>t, <2>1 DEF Fetch, FeedStepped, FeedInv, LifeInv
  <2>3. n \in 0..MaxOffset
    BY <2>2 DEF FeedStepped, FeedShape
  <2>4. \A r \in Sessions : Handed(r)' = Handed(r)
    BY <2>2, HandedFrame
  <2>5. Handled(s)' = Handled(s)
    <3> DEFINE P == Messages(s) \union (Handed(s)+1..n)
    <3>1. P = Pending(s)'
      BY <1>m, <2>2, <2>4 DEF FeedStepped, FeedShape
    <3>2. P = Pending(s) \union (fetched[s]+1..n)
      BY <1>t, <2>2, <2>3
    <3>3. InFront(Handled(s), P, fetched'[s])
      <4>1. CASE Pending(s) = {}
        BY <1>t, <2>2, <2>3, <3>2, <4>1 DEF InFront
      <4>2. CASE Pending(s) # {}
        <5>1. /\ Handled(s) + 1 \in Pending(s) /\ \A p \in Pending(s) : Handled(s) < p
          BY <1>t, <4>2 DEF InFront
        <5>2. \A p \in fetched[s]+1..n : Handled(s) < p
          BY <1>t, <2>3
        <5> QED BY <3>2, <5>1, <5>2 DEF InFront
      <4> QED BY <4>1, <4>2
    <3>4. Handled(s) \in Nat
      BY <1>t
    <3> HIDE DEF P
    <3> QED BY <3>1, <3>3, <3>4, HandledBecomes DEF FeedStepped
  <2>6. ASSUME NEW r \in Sessions \ {s} PROVE Handled(r)' = Handled(r)
    <3>1. fetched'[r] = fetched[r]
      BY <1>t, <2>1
    <3> QED BY <1>m, <2>4, <3>1, PositionFrame
  <2>7. H' = H
    BY <2>5, <2>6
  <2>8. Feed!Fetch(s)
    BY <1>f, <2>1, <2>2, <2>3, <2>7 DEF Feed!Fetch
  <2> QED BY <2>8 DEF Feed!Next
<1>3. CASE FetchError(s) \/ PollCancelled(s)
  <2>1. UNCHANGED <<fetched, sent, msgCh, inflight>>
    BY <1>3 DEF FetchError, PollCancelled
  <2> QED BY <1>f, <2>1, FeedUnchanged DEF Feed!vars
<1>4. CASE Send(s)
  <2>1. fetched' = fetched /\ \A r \in Sessions : Handed(r)' = Handed(r)
    BY <1>4, SendAppends DEF Send, FeedStepped, FeedInv
  <2>2. \A r \in Sessions : Handled(r)' = Handled(r)
    BY <1>m, <2>1, PositionFrame
  <2> QED BY <1>f, <2>1, <2>2 DEF Feed!vars
<1>5. CASE SendCancelled(s)
  <2>1. /\ fetched' = [fetched EXCEPT ![s] = sent[s]] /\ UNCHANGED <<sent, msgCh>>
        /\ sent[s] < fetched[s]
    BY <1>5, FeedTypes DEF SendCancelled, FeedStepped, FeedInv
  <2>2. fetched'[s] = sent[s] /\ \A r \in Sessions : Handed(r)' = Handed(r)
    BY <1>t, <2>1, HandedFrame
  <2>3. sent[s] + 1 \in Pending(s) /\ Handled(s) < sent[s] + 1
    <3>1. sent[s] + 1 \in Pending(s)
      BY <1>t, <2>1
    <3> QED BY <1>t, <3>1 DEF InFront
  <2>4. Handled(s)' = Handled(s)
    <3> DEFINE P == Messages(s) \union (Handed(s)+1..sent[s])
    <3>1. P = Pending(s)'
      BY <1>m, <2>2 DEF FeedStepped, FeedShape
    <3>2. P = {p \in Pending(s) : p <= sent[s]}
      BY <1>t, <2>1
    <3>3. Handled(s) + 1 \in Pending(s) /\ \A p \in Pending(s) : Handled(s) < p
      BY <1>t, <2>3 DEF InFront
    <3>4. InFront(Handled(s), P, fetched'[s])
      <4>1. CASE P = {}
        <5>1. Handed(s) = sent[s]
          BY <1>t, <4>1
        <5>2. Messages(s) = {}
          BY <4>1
        <5>3. Handled(s) + 1 \in sent[s]+1..fetched[s]
          BY <1>t, <3>3, <5>1, <5>2
        <5> QED BY <1>t, <2>2, <2>3, <4>1, <5>3 DEF InFront
      <4>2. CASE P # {}
        <5>1. PICK p \in P : TRUE
          BY <4>2
        <5>2. p \in Nat /\ p <= sent[s] /\ Handled(s) < p
          BY <1>t, <3>3, <3>2, <5>1
        <5>3. Handled(s) + 1 \in P
          BY <1>t, <3>2, <3>3, <5>2
        <5> QED BY <3>2, <3>3, <5>3 DEF InFront
      <4> QED BY <4>1, <4>2
    <3>5. Handled(s) \in Nat
      BY <1>t
    <3> HIDE DEF P
    <3> QED BY <3>1, <3>4, <3>5, HandledBecomes DEF FeedStepped
  <2>5. ASSUME NEW r \in Sessions \ {s} PROVE Handled(r)' = Handled(r)
    <3>1. fetched'[r] = fetched[r]
      BY <1>t, <2>1
    <3> QED BY <1>m, <2>2, <3>1, PositionFrame
  <2>6. H' = H /\ H[s] = Handled(s)
    BY <2>4, <2>5
  <2>7. sent[s] \in H[s]..fetched[s]
    BY <1>t, <2>1, <2>3, <2>6
  <2>8. Feed!Cancel(s)
    BY <1>f, <2>1, <2>6, <2>7 DEF Feed!Cancel
  <2> QED BY <2>8 DEF Feed!Next
<1> QED BY <1>1, <1>2, <1>3, <1>4, <1>5 DEF Goroutine

\* A pump only carries what is pending a step further.
LEMMA PumpFeeds ==
    ASSUME FeedStepped, NEW s \in Sessions, Pump(s)
    PROVE  UNCHANGED Feed!vars
<1>f. UNCHANGED <<view, paused, fetched, forked, lines>>
  BY DEF Pump, PumpRecord, PumpError, uiVars
<1>t. /\ fetched[s] \in Nat /\ Handed(s) \in Nat
      /\ \A r \in Sessions : Pending(r) = Messages(r) \union (Handed(r)+1..fetched[r])
      /\ \A r \in Sessions : Pending(r)' = Messages(r)' \union (Handed(r)'+1..fetched'[r])
  BY DEF FeedStepped, FeedShape
<1>1. ASSUME NEW r \in Sessions PROVE Pending(r)' = Pending(r)
  <2>1. CASE PumpRecord(s)
    <3>1. /\ inflight' = inflight \union {[sess |-> s, off |-> Handed(s) + 1]}
          /\ Handed(s)' = Handed(s) + 1
          /\ \A q \in Sessions \ {s} : Handed(q)' = Handed(q)
      BY <2>1, PumpTakes DEF FeedStepped, FeedInv
    <3>2. CASE r = s
      <4>1. Messages(s)' = Messages(s) \union {Handed(s) + 1}
        <5>1. PICK k : k = [sess |-> s, off |-> Handed(s) + 1]
          OBVIOUS
        <5>2. k.sess = s /\ k.off = Handed(s) + 1 /\ k.off # 0
          BY <1>t, <5>1
        <5> QED BY <3>1, <5>1, <5>2 DEF Messages
      <4>2. Handed(s) + 1 <= fetched[s]
        <5>1. Handed(s)' \in 0..fetched'[s]
          BY DEF FeedStepped, FeedShape
        <5> QED BY <1>f, <1>t, <3>1, <5>1
      <4>3. Handed(s)+1..fetched[s] = {Handed(s) + 1} \union (Handed(s)'+1..fetched[s])
        BY <1>t, <3>1, <4>2
      <4> QED BY <1>f, <1>t, <3>2, <4>1, <4>3
    <3>3. CASE r # s
      <4>1. Messages(r)' = Messages(r)
        BY <3>1, <3>3 DEF Messages
      <4> QED BY <1>f, <1>t, <3>1, <3>3, <4>1
    <3> QED BY <3>2, <3>3
  <2>2. CASE PumpError(s)
    <3>1. Messages(r)' = Messages(r) /\ UNCHANGED <<sent, msgCh>>
      BY <2>2 DEF PumpError, Messages
    <3> QED BY <1>f, <1>t, <3>1, HandedFrame
  <2> QED BY <2>1, <2>2 DEF Pump
<1>2. \A r \in Sessions : Handled(r)' = Handled(r)
  BY <1>f, <1>1, HandledStays DEF FeedStepped
<1> QED BY <1>f, <1>2 DEF Feed!vars

LEMMA FeedSimulates ==
    ASSUME FeedStepped, SinglePump, [Next]_vars
    PROVE  Feed!Next \/ UNCHANGED Feed!vars
<1> DEFINE H == [r \in Sessions |-> Handled(r)]
<1> USE DEF feedVars, startVars, uiVars
<1>1. CASE Calm \/ (\E t \in Topics : Produce(t)) \/ (\E topic \in Targets : Starts(topic))
  <2>1. UNCHANGED <<feedVars, lines>>
    BY <1>1, StartsNew DEF Calm, Produce, FeedStepped, FeedInv
  <2>2. H' = H
    BY <2>1, FeedUnchanged
  <2>3. Feed!Watch
    BY <2>1, <2>2 DEF Feed!Watch
  <2> QED BY <2>3 DEF Feed!Next
<1>2. CASE StartErrorShown
  <2>1. UNCHANGED feedVars /\ lines' = AppendLine(StartError)
    BY <1>2 DEF StartErrorShown
  <2>2. H' = H
    BY <2>1, FeedUnchanged
  <2>3. Feed!Shows([sess |-> 0, off |-> 0])
    <3>1. StartError \in Line
      BY DEF StartError, Line
    <3> QED BY <2>1, <3>1, ShowsLine DEF StartError, FeedStepped, FeedInv
  <2>4. Feed!ShowError
    BY <2>1, <2>2, <2>3 DEF Feed!ShowError
  <2> QED BY <2>4 DEF Feed!Next
<1>3. CASE LinesCleared
  <2>1. H' = H
    BY <1>3, FeedUnchanged DEF LinesCleared
  <2>2. Feed!Clear
    BY <1>3, <2>1 DEF Feed!Clear, LinesCleared
  <2> QED BY <2>2 DEF Feed!Next
<1>4. ASSUME NEW m \in inflight, TailUpdate(m) \/ TailDropped(m), m.off # 0
      PROVE  Feed!Next
  <2>1. /\ inflight' = inflight \ {m} /\ UNCHANGED <<view, paused, fetched, sent, msgCh>>
        /\ forked \subseteq forked'
        /\ IF view = "detail" /\ ~paused THEN lines' = AppendLine(m) ELSE UNCHANGED lines
    BY <1>4 DEF TailUpdate, TailDropped, LinesAfter
  <2>2. Feed!HandleNext(m.sess) \/ Feed!HandleAny(m.sess)
    BY <1>4, <2>1, RecordTaken
  <2>3. m.sess \in Sessions
    BY MessageTypes DEF FeedStepped, FeedInv
  <2> QED BY <2>2, <2>3 DEF Feed!Next
<1>5. ASSUME NEW m \in inflight, TailUpdate(m) \/ TailDropped(m), m.off = 0
      PROVE  Feed!Next \/ UNCHANGED Feed!vars
  <2>1. /\ inflight' = inflight \ {m} /\ UNCHANGED <<view, paused, fetched, sent, msgCh>>
        /\ forked \subseteq forked'
    BY <1>5 DEF TailUpdate, TailDropped
  <2>2. ASSUME NEW r \in Sessions PROVE Handled(r)' = Handled(r)
    <3>1. Messages(r)' = Messages(r)
      BY <1>5, <2>1 DEF Messages
    <3> QED BY <2>1, <3>1, HandedFrame, PositionFrame
  <2>3. H' = H
    BY <2>2
  <2>4. CASE TailUpdate(m)
    <3>1. lines' = AppendLine(m)
      BY <1>5, <2>4 DEF TailUpdate, LinesAfter
    <3>2. m.sess \in Sessions /\ m \in Line /\ m = [sess |-> m.sess, off |-> 0]
      <4>1. m \in TailMsg
        BY FeedTypes DEF FeedStepped, FeedInv
      <4> QED BY <1>5, <4>1, MessageTypes DEF TailMsg, FeedStepped, FeedInv
    <3>3. Feed!Shows([sess |-> m.sess, off |-> 0])
      BY <3>1, <3>2, ShowsLine DEF FeedStepped, FeedInv
    <3>4. Feed!ShowError
      BY <2>1, <2>3, <3>2, <3>3 DEF Feed!ShowError
    <3> QED BY <3>4 DEF Feed!Next
  <2>5. CASE TailDropped(m)
    BY <2>1, <2>3, <2>5 DEF TailDropped, Feed!vars
  <2> QED BY <1>5, <2>4, <2>5
<1>6. ASSUME NEW s \in Sessions, Goroutine(s) \/ Pump(s)
      PROVE  Feed!Next \/ UNCHANGED Feed!vars
  BY <1>6, GoroutineFeeds, PumpFeeds
<1> QED BY <1>1, <1>2, <1>3, <1>4, <1>5, <1>6, StepKinds DEF FeedStepped, FeedInv

LEMMA FeedStarts == Init => Feed!Init
<1> SUFFICES ASSUME Init PROVE Feed!Init
  OBVIOUS
<1>1. /\ view = "topics" /\ forked = {} /\ lines = <<>> /\ inflight = {}
      /\ fetched = [s \in Sessions |-> 0] /\ sent = [s \in Sessions |-> 0]
  BY DEF Init
<1>2. FeedShape
  BY FeedInit, FeedShaped
<1>3. ASSUME NEW s \in Sessions PROVE Handled(s) = 0
  <2>1. fetched[s] = 0 /\ Handled(s) \in 0..fetched[s]
    BY <1>1, <1>2 DEF FeedShape
  <2> QED BY <2>1
<1> QED BY <1>1, <1>3 DEF Feed!Init

\* LiveTail implements TailFeed: each record a session fetched is handled once and
\* in order, whatever channels, pumps, view switches and cancellations do on the way.
THEOREM FeedImplemented == Spec => ImplementsFeed
<1>1. Init => SinglePump
  BY DEF Init, SinglePump
<1>2. FeedInv /\ SinglePump /\ [Next]_vars => SinglePump'
  BY SinglePumpStep
<1>3. FeedInv /\ FeedInv' /\ SinglePump /\ [Next]_vars => [Feed!Next]_(Feed!vars)
  BY FeedShaped, FeedShapedNext, FeedSimulates DEF FeedStepped
<1> QED BY <1>1, <1>2, <1>3, FeedStarts, FeedInvariance, PTL DEF Spec, ImplementsFeed, Feed!Spec
=============================================================================
