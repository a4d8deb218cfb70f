--------------------------- MODULE LiveTailProofs ---------------------------
(***************************************************************************)
(* Proofs about LiveTail, for every number of topics, sessions, records    *)
(* and for every capacity: type correctness, that at most one consumer is  *)
(* live, and that the pump chain of the shown session never breaks.        *)
(***************************************************************************)
EXTENDS LiveTail, SequenceTheorems, TLAPS

\* What type correctness needs to know of a session's life: a session that
\* polls has a topic, and one that delivers has a record left to send.
SessionOK ==
    /\ \A s \in live : topicOf[s] # NoTopic
    /\ \A s \in Sessions : pc[s] = "deliver" => sent[s] < fetched[s]

TypeInv == TypeOK /\ SessionOK

USE BoundsAssumption, TopicsAssumption

\* appendLine keeps the window a sequence of at most MaxLines lines.
LEMMA AppendLineType ==
    ASSUME lines \in Seq(Line), Len(lines) <= MaxLines, NEW line \in Line
    PROVE  AppendLine(line) \in Seq(Line) /\ Len(AppendLine(line)) <= MaxLines
<1> DEFINE all == Append(lines, line)
           n == Len(all)
<1>1. all \in Seq(Line) /\ n = Len(lines) + 1 /\ n \in Nat
  BY AppendProperties, LenProperties
<1>2. CASE n > MaxLines
  <2>1. n - MaxLines + 1 \in 1..n+1
    BY <1>1, <1>2
  <2>2. SubSeq(all, n - MaxLines + 1, n) \in Seq(Line)
    BY <1>1, <2>1, SubSeqProperties
  <2>3. Len(SubSeq(all, n - MaxLines + 1, n)) <= MaxLines
    BY <1>1, <1>2, <2>1, SubSeqProperties
  <2> QED BY <1>2, <2>2, <2>3 DEF AppendLine
<1>3. CASE ~(n > MaxLines)
  BY <1>1, <1>3 DEF AppendLine
<1> QED BY <1>2, <1>3

\* What start() does to the state keeps its types, whether it fails or not.
LEMMA StartTailType ==
    ASSUME TypeInv, NEW topic \in Targets, StartTail(topic),
           UNCHANGED <<feedVars, paused>>, tailTarget' \in Targets
    PROVE  TailType' /\ FeedType' /\ SessionOK'
<1> USE DEF TypeInv, TypeOK, TailType, FeedType, SessionOK, feedVars
<1>1. CASE StartSucceeds(topic)
  <2> DEFINE s == started + 1
  <2>1. s \in Sessions /\ s \in 1..started' /\ started' = s /\ consumer' = s
    BY <1>1 DEF StartSucceeds, FirstPump, Sessions
  <2>2. live' \subseteq 1..started' /\ topicOf' \in [Sessions -> Targets]
        /\ pc' \in [Sessions -> {"idle", "attach", "poll", "deliver", "done"}]
        /\ pumps' \in [Sessions -> Nat]
    BY <1>1, <2>1 DEF StartSucceeds, FirstPump, LiveAfterStop
  <2>3. UNCHANGED lines
    BY <1>1 DEF StartSucceeds, FirstPump
  <2>4. SessionOK'
    <3>1. ASSUME NEW r \in live' PROVE topicOf'[r] # NoTopic
      BY <1>1, <2>1, <3>1 DEF StartSucceeds, FirstPump, LiveAfterStop, Sessions
    <3>2. ASSUME NEW r \in Sessions, pc'[r] = "deliver"
          PROVE  sent'[r] < fetched'[r]
      BY <1>1, <2>1, <3>2 DEF StartSucceeds, FirstPump
    <3> QED BY <3>1, <3>2
  <2>5. TailType'
    BY <2>1, <2>2, <2>3 DEF Sessions
  <2>6. FeedType'
    BY <2>2
  <2> QED BY <2>4, <2>5, <2>6
<1>2. CASE StartFails(topic)
  <2>1. lines' \in Seq(Line) /\ Len(lines') <= MaxLines
    <3>1. StartError \in Line
      BY DEF StartError, Line
    <3> QED BY <1>2, <3>1, AppendLineType DEF StartFails
  <2>2. TailType'
    BY <1>2, <2>1 DEF StartFails, StopTail, LiveAfterStop
  <2>3. FeedType' /\ SessionOK'
    BY <1>2 DEF StartFails, StopTail, LiveAfterStop
  <2> QED BY <2>2, <2>3
<1> QED BY <1>1, <1>2 DEF StartTail

\* Opening the detail view keeps the types of everything.
LEMMA OpenDetailType ==
    ASSUME TypeInv, OpenDetail, switchMsgs' \in 0..MaxOpens
    PROVE  TypeInv'
<1>1. PICK t \in ReadTarget : tailTarget' = t /\ StartTail(t)
  BY DEF OpenDetail
<1>2. t \in Targets
  BY DEF TypeInv, TypeOK, UIType, ReadTarget, Targets
<1>3. TailType' /\ FeedType' /\ SessionOK'
  BY <1>1, <1>2, StartTailType DEF OpenDetail
<1>4. UIType'
  BY DEF OpenDetail, SwitchTo, TypeInv, TypeOK, UIType, Views
<1> QED BY <1>3, <1>4 DEF TypeInv, TypeOK

\* The initial state has the types.
LEMMA InitType == Init => TypeInv
<1> SUFFICES ASSUME Init PROVE TypeInv
  OBVIOUS
<1>1. UIType
  <2>1. "topics" \in Views \ {"help"}
    BY DEF Views
  <2>2. switchMsgs \in 0..MaxOpens /\ log \in [Topics \union {Torn} -> 0..MaxOffset]
    BY DEF Init
  <2> QED BY <2>1, <2>2 DEF Init, UIType, Targets
<1>2. TailType
  <2>1. lines \in Seq(Line) /\ Len(lines) = 0
    BY EmptySeq DEF Init
  <2>2. started \in 0..MaxSessions /\ consumer \in 0..started /\ live = {}
    BY DEF Init
  <2>3. topicOf \in [Sessions -> Targets] /\ tailTarget \in Targets
    BY DEF Init, Targets
  <2>4. Len(lines) <= MaxLines
    BY <2>1
  <2>5. paused \in BOOLEAN
    BY DEF Init
  <2> QED BY <2>1, <2>2, <2>3, <2>4, <2>5 DEF TailType
<1>3. FeedType
  BY EmptySeq DEF Init, FeedType, TailMsg
<1>4. SessionOK
  BY DEF Init, SessionOK
<1> QED BY <1>1, <1>2, <1>3, <1>4 DEF TypeInv, TypeOK

\* A key press keeps the types.
LEMMA KeyType == TypeInv /\ Key => TypeInv'
<1> SUFFICES ASSUME TypeInv, Key PROVE TypeInv'
  OBVIOUS
<1> USE DEF TypeInv, TypeOK
<1>1. CASE KeyPause
  BY <1>1 DEF KeyPause, UIType, TailType, FeedType, SessionOK, uiVars, openVars,
     startVars, feedVars
<1>2. CASE KeyClear
  BY <1>2, EmptySeq DEF KeyClear, UIType, TailType, FeedType, SessionOK, uiVars,
     openVars, startVars, feedVars
<1>3. CASE KeyTab
  BY <1>3 DEF KeyTab, UIType, TailType, FeedType, SessionOK, openVars,
     startVars, feedVars
<1>4. CASE KeyReload
  <2>1. TailType' /\ FeedType' /\ SessionOK'
    <3>1. tailTarget \in Targets
      BY DEF TailType
    <3> QED BY <1>4, <3>1, StartTailType DEF KeyReload
  <2>2. UIType'
    BY <1>4 DEF KeyReload, UIType, uiVars, openVars
  <2> QED BY <2>1, <2>2
<1>5. CASE KeyBackFromDetail
  BY <1>5 DEF KeyBackFromDetail, StopTail, LiveAfterStop, SwitchTo, UIType, Views,
     TailType, FeedType, SessionOK, openVars, feedVars
<1>6. CASE LeaveHelp
  <2>1. CASE OpenDetail /\ UNCHANGED switchMsgs
    BY <2>1, OpenDetailType DEF UIType
  <2>2. CASE ~OpenDetail
    BY <1>6, <2>2 DEF LeaveHelp, SwitchTo, UIType, Views, TailType, FeedType,
       SessionOK, openVars, startVars, feedVars
  <2> QED BY <1>6, <2>1, <2>2 DEF LeaveHelp, SwitchTo, UIType, Views, TailType,
             FeedType, SessionOK, openVars, startVars, feedVars
<1>7. CASE Quit
  BY <1>7 DEF Quit, StopTail, LiveAfterStop, UIType, TailType, FeedType, SessionOK,
     openVars, feedVars
<1>8. CASE \E v \in Views \ {"detail"} : LeaveFor(v)
  BY <1>8 DEF LeaveFor, SwitchTo, UIType, Views, TailType, FeedType, SessionOK,
     openVars, startVars, feedVars
<1>9. CASE \E t \in Topics : KeyEnter(t)
  BY <1>9 DEF KeyEnter, UIType, TailType, FeedType, SessionOK, uiVars, startVars,
     feedVars
<1> QED BY <1>1, <1>2, <1>3, <1>4, <1>5, <1>6, <1>7, <1>8, <1>9 DEF Key

\* The messages the event loop delivers keep the types.
LEMMA DeliverType ==
    ASSUME TypeInv, NEW m \in inflight, TailUpdate(m) \/ TailDropped(m)
    PROVE  TypeInv'
<1> USE DEF TypeInv, TypeOK
<1>1. m \in TailMsg /\ m \in Line
  BY DEF FeedType, TailMsg, Line, Sessions
<1>2. UIType' /\ SessionOK'
  BY DEF TailUpdate, TailDropped, UIType, SessionOK, uiVars, openVars, startVars
<1>3. TailType'
  <2>1. LinesAfter(m) \in Seq(Line) /\ Len(LinesAfter(m)) <= MaxLines
    BY <1>1, AppendLineType DEF LinesAfter, TailType
  <2> QED BY <2>1 DEF TailUpdate, TailDropped, TailType, uiVars, openVars, startVars
<1>4. FeedType'
  <2>1. consumer \in Sessions \union {0}
    BY DEF TailType, Sessions
  <2> QED BY <2>1 DEF TailUpdate, TailDropped, HandlerPump, FeedType, startVars
<1> QED BY <1>2, <1>3, <1>4

\* A step of a session's goroutine or of one of its pumps keeps the types.
LEMMA SessionStepType ==
    ASSUME TypeInv, NEW s \in Sessions, Goroutine(s) \/ Pump(s)
    PROVE  TypeInv'
<1> USE DEF TypeInv, TypeOK
<1>1. UIType'
  BY DEF Goroutine, Pump, Attach, Fetch, FetchError, PollCancelled, Send,
     SendCancelled, PumpRecord, PumpError, UIType, uiVars, openVars
<1>2. TailType'
  BY DEF Goroutine, Pump, Attach, Fetch, FetchError, PollCancelled, Send,
     SendCancelled, PumpRecord, PumpError, TailType
<1>3. CASE Attach(s)
  <2>1. log[topicOf[s]] \in 0..MaxOffset
    BY <1>3 DEF Attach, UIType, TailType, SessionOK, Targets
  <2>2. FeedType'
    BY <1>3, <2>1 DEF Attach, FeedType
  <2>3. SessionOK'
    BY <1>3 DEF Attach, SessionOK, FeedType
  <2> QED BY <1>1, <1>2, <2>2, <2>3
<1>4. CASE Fetch(s)
  <2>1. PICK n \in fetched[s]+1..log[topicOf[s]] :
             fetched' = [fetched EXCEPT ![s] = n]
    BY <1>4 DEF Fetch
  <2>2. n \in 0..MaxOffset /\ sent[s] < n
    BY <1>4, <2>1 DEF Fetch, UIType, TailType, FeedType, SessionOK, Targets
  <2>3. FeedType'
    BY <1>4, <2>1, <2>2 DEF Fetch, FeedType
  <2>4. SessionOK'
    BY <1>4, <2>1, <2>2 DEF Fetch, SessionOK, FeedType
  <2> QED BY <1>1, <1>2, <2>3, <2>4
<1>5. CASE FetchError(s) \/ PollCancelled(s)
  BY <1>1, <1>2, <1>5 DEF FetchError, PollCancelled, FeedType, SessionOK, feedVars
<1>6. CASE Send(s)
  <2>1. sent[s] + 1 \in 1..MaxOffset /\ sent[s] + 1 <= fetched[s]
    BY <1>6 DEF Send, FeedType, SessionOK
  <2>2. /\ Append(msgCh[s], sent[s] + 1) \in Seq(1..MaxOffset)
        /\ Len(Append(msgCh[s], sent[s] + 1)) <= ChanCap
    <3>1. msgCh[s] \in Seq(1..MaxOffset) /\ Len(msgCh[s]) < ChanCap
      BY <1>6 DEF Send, FeedType
    <3> QED BY <2>1, <3>1, AppendProperties, LenProperties
  <2>3. FeedType'
    BY <1>6, <2>1, <2>2 DEF Send, FeedType
  <2>4. SessionOK'
    BY <1>6, <2>1 DEF Send, SessionOK, FeedType
  <2> QED BY <1>1, <1>2, <2>3, <2>4
<1>7. CASE SendCancelled(s)
  BY <1>1, <1>2, <1>7 DEF SendCancelled, FeedType, SessionOK
<1>8. CASE PumpRecord(s)
  <2>1. msgCh[s] \in Seq(1..MaxOffset) /\ msgCh[s] # <<>>
    BY <1>8 DEF PumpRecord, FeedType
  <2>2. /\ Head(msgCh[s]) \in 1..MaxOffset
        /\ Tail(msgCh[s]) \in Seq(1..MaxOffset)
        /\ Len(Tail(msgCh[s])) = Len(msgCh[s]) - 1
        /\ Len(msgCh[s]) \in Nat
    BY <2>1, HeadTailProperties, LenProperties
  <2>3. [sess |-> s, off |-> Head(msgCh[s])] \in TailMsg
    BY <2>2 DEF TailMsg
  <2>4. FeedType'
    BY <1>8, <2>2, <2>3 DEF PumpRecord, FeedType
  <2>5. SessionOK'
    BY <1>8 DEF PumpRecord, SessionOK
  <2> QED BY <1>1, <1>2, <2>4, <2>5
<1>9. CASE PumpError(s)
  <2>1. [sess |-> s, off |-> 0] \in TailMsg
    BY DEF TailMsg
  <2> QED BY <1>1, <1>2, <1>9, <2>1 DEF PumpError, FeedType, SessionOK
<1> QED BY <1>3, <1>4, <1>5, <1>6, <1>7, <1>8, <1>9 DEF Goroutine, Pump

\* The type invariant with the facts about sessions is inductive.
LEMMA NextType == TypeInv /\ [Next]_vars => TypeInv'
<1> SUFFICES ASSUME TypeInv, [Next]_vars PROVE TypeInv'
  OBVIOUS
<1>1. CASE Key
  BY <1>1, KeyType
<1>2. CASE DeliverSwitch
  BY <1>2, OpenDetailType DEF DeliverSwitch, TypeInv, TypeOK, UIType
<1>3. ASSUME NEW t \in Topics, RunOpen(t) \/ Produce(t) PROVE TypeInv'
  <2>1. UIType'
    BY <1>3 DEF RunOpen, Produce, TypeInv, TypeOK, UIType, Targets, uiVars, openVars
  <2> QED BY <1>3, <2>1 DEF RunOpen, Produce, TypeInv, TypeOK, TailType, FeedType,
             SessionOK, startVars, feedVars
<1>4. ASSUME NEW m \in inflight, TailUpdate(m) \/ TailDropped(m) PROVE TypeInv'
  BY <1>4, DeliverType
<1>5. ASSUME NEW s \in Sessions, Goroutine(s) \/ Pump(s) PROVE TypeInv'
  BY <1>5, SessionStepType
<1>6. CASE UNCHANGED vars
  BY <1>6 DEF vars, uiVars, openVars, startVars, feedVars, TypeInv, TypeOK, UIType,
     TailType, FeedType, SessionOK
<1> QED BY <1>1, <1>2, <1>3, <1>4, <1>5, <1>6 DEF Next

LEMMA TypeInvariance == Spec => []TypeInv
<1>1. Init => TypeInv
  BY InitType
<1>2. TypeInv /\ [Next]_vars => TypeInv'
  BY NextType
<1> QED BY <1>1, <1>2, PTL DEF Spec

\* The program keeps every variable of the tail in its type, every channel
\* within its capacity and every window within its length.
THEOREM TypeCorrect == Spec => []TypeOK
<1>1. TypeInv => TypeOK
  BY DEF TypeInv
<1> QED BY <1>1, TypeInvariance, PTL

-----------------------------------------------------------------------------
(* At most one live consumer: the one the view holds.                      *)

\* Whatever start() does, what it leaves live is the consumer it leaves.
LEMMA StartTailOneLive ==
    ASSUME OneLiveSession, TypeInv, NEW topic, StartTail(topic)
    PROVE  OneLiveSession'
<1>1. CASE StartSucceeds(topic)
  BY <1>1 DEF StartSucceeds, FirstPump, LiveAfterStop, OneLiveSession, TypeInv, TypeOK, TailType
<1>2. CASE StartFails(topic)
  BY <1>2 DEF StartFails, StopTail, LiveAfterStop, OneLiveSession
<1> QED BY <1>1, <1>2 DEF StartTail

LEMMA OneLiveStep ==
    OneLiveSession /\ TypeInv /\ [Next]_vars => OneLiveSession'
<1> SUFFICES ASSUME OneLiveSession, TypeInv, [Next]_vars PROVE OneLiveSession'
  OBVIOUS
<1>1. CASE UNCHANGED <<live, consumer>>
  BY <1>1 DEF OneLiveSession
<1>2. CASE OpenDetail \/ KeyReload
  BY <1>2, StartTailOneLive DEF OpenDetail, KeyReload
<1>3. CASE KeyBackFromDetail \/ Quit
  BY <1>3 DEF KeyBackFromDetail, Quit, StopTail, LiveAfterStop, OneLiveSession
<1>4. CASE Key
  BY <1>1, <1>2, <1>3, <1>4 DEF Key, KeyPause, KeyClear, KeyTab, LeaveHelp,
     LeaveFor, KeyEnter, startVars
<1>5. CASE DeliverSwitch
  BY <1>2, <1>5 DEF DeliverSwitch
<1>6. ASSUME NEW t \in Topics, RunOpen(t) \/ Produce(t) PROVE OneLiveSession'
  BY <1>1, <1>6 DEF RunOpen, Produce, startVars
<1>7. ASSUME NEW m \in inflight, TailUpdate(m) \/ TailDropped(m)
      PROVE  OneLiveSession'
  BY <1>1, <1>7 DEF TailUpdate, TailDropped, startVars
<1>8. ASSUME NEW s \in Sessions, Goroutine(s) \/ Pump(s) PROVE OneLiveSession'
  BY <1>1, <1>8 DEF Goroutine, Pump, Attach, Fetch, FetchError, PollCancelled, Send,
     SendCancelled, PumpRecord, PumpError
<1>9. CASE UNCHANGED vars
  BY <1>1, <1>9 DEF vars, startVars
<1> QED BY <1>4, <1>5, <1>6, <1>7, <1>8, <1>9 DEF Next

\* At every moment the consumers that poll are exactly the one the view holds
\* and will stop, if it holds one.
THEOREM OneLive == Spec => []OneLiveSession
<1>1. Init => OneLiveSession
  BY DEF Init, OneLiveSession
<1> QED BY <1>1, OneLiveStep, TypeInvariance, PTL DEF Spec

-----------------------------------------------------------------------------
(* The pump chain of the session on display.                               *)

\* start() leaves no consumer, or one with its first pump.
LEMMA StartTailPumps ==
    ASSUME TypeInv, NEW topic, StartTail(topic)
    PROVE  PumpAlive'
<1>1. CASE StartSucceeds(topic)
  <2>1. started + 1 \in Sessions
    BY <1>1 DEF StartSucceeds, FirstPump, TypeInv, TypeOK, TailType, Sessions
  <2> QED BY <1>1, <2>1 DEF StartSucceeds, FirstPump, PumpAlive, TypeInv, TypeOK, FeedType
<1>2. CASE StartFails(topic)
  BY <1>2 DEF StartFails, StopTail, PumpAlive
<1> QED BY <1>1, <1>2 DEF StartTail

LEMMA PumpAliveStep == PumpAlive /\ TypeInv /\ [Next]_vars => PumpAlive'
<1> SUFFICES ASSUME PumpAlive, TypeInv, [Next]_vars PROVE PumpAlive'
  OBVIOUS
<1>1. CASE UNCHANGED <<view, consumer, pumps, inflight>>
  BY <1>1 DEF PumpAlive
<1>2. CASE OpenDetail \/ KeyReload
  BY <1>2, StartTailPumps DEF OpenDetail, KeyReload
<1>3. CASE KeyBackFromDetail \/ Quit
  BY <1>3 DEF KeyBackFromDetail, Quit, StopTail, PumpAlive
<1>4. CASE view' # "detail"
  BY <1>4 DEF PumpAlive
<1>5. CASE Key
  BY <1>1, <1>2, <1>3, <1>4, <1>5 DEF Key, KeyPause, KeyClear, KeyTab, LeaveHelp,
     LeaveFor, KeyEnter, SwitchTo, uiVars, startVars, feedVars
<1>6. CASE DeliverSwitch
  BY <1>2, <1>6 DEF DeliverSwitch
<1>7. ASSUME NEW t \in Topics, RunOpen(t) \/ Produce(t) PROVE PumpAlive'
  BY <1>1, <1>7 DEF RunOpen, Produce, uiVars, startVars, feedVars
<1>8. ASSUME NEW m \in inflight, TailUpdate(m) PROVE PumpAlive'
  <2>1. consumer \in Sessions \union {0}
    BY DEF TypeInv, TypeOK, TailType, Sessions
  <2>2. consumer # 0 => pumps'[consumer] > 0
    BY <1>8, <2>1 DEF TailUpdate, HandlerPump, TypeInv, TypeOK, FeedType
  <2> QED BY <1>8, <2>2 DEF TailUpdate, PumpAlive
<1>9. ASSUME NEW m \in inflight, TailDropped(m) PROVE PumpAlive'
  BY <1>4, <1>9 DEF TailDropped, uiVars
<1>10. ASSUME NEW s \in Sessions, Goroutine(s) PROVE PumpAlive'
  BY <1>1, <1>10 DEF Goroutine, Attach, Fetch, FetchError, PollCancelled, Send,
     SendCancelled, uiVars, feedVars
<1>11. ASSUME NEW s \in Sessions, Pump(s) PROVE PumpAlive'
  <2>1. UNCHANGED <<view, consumer>>
    BY <1>11 DEF Pump, PumpRecord, PumpError, uiVars
  <2>2. inflight \subseteq inflight'
    BY <1>11 DEF Pump, PumpRecord, PumpError
  <2>3. \E m \in inflight' : m.sess = s
    <3>1. CASE PumpRecord(s)
      <4>1. [sess |-> s, off |-> Head(msgCh[s])] \in inflight'
        BY <3>1 DEF PumpRecord
      <4> QED BY <4>1
    <3>2. CASE PumpError(s)
      <4>1. [sess |-> s, off |-> 0] \in inflight'
        BY <3>2 DEF PumpError
      <4> QED BY <4>1
    <3> QED BY <1>11, <3>1, <3>2 DEF Pump
  <2>4. \A r \in Sessions \ {s} : pumps'[r] = pumps[r]
    BY <1>11 DEF Pump, PumpRecord, PumpError, TypeInv, TypeOK, FeedType
  <2>5. consumer # 0 => consumer \in Sessions
    BY DEF TypeInv, TypeOK, TailType, Sessions
  <2> QED BY <2>1, <2>2, <2>3, <2>4, <2>5 DEF PumpAlive
<1>12. CASE UNCHANGED vars
  BY <1>1, <1>12 DEF vars, uiVars, startVars, feedVars
<1> QED BY <1>5, <1>6, <1>7, <1>8, <1>9, <1>10, <1>11, <1>12 DEF Next

\* While the detail view is shown, its session's chain of pumps and messages
\* never breaks, for any number of sessions and any channel capacity.
THEOREM PumpChain == Spec => []PumpAlive
<1>1. Init => PumpAlive
  BY DEF Init, PumpAlive
<1> QED BY <1>1, PumpAliveStep, TypeInvariance, PTL DEF Spec
=============================================================================
