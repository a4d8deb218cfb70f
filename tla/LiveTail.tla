------------------------------ MODULE LiveTail ------------------------------
(***************************************************************************)
(* The live tail of the topic detail view: the App's view switching, the   *)
(* TailView, the consumer session each start() creates, the Run goroutine  *)
(* of that session and the pump commands that carry its records to the     *)
(* single-threaded bubbletea Update loop.                                  *)
(*                                                                         *)
(* A session is one call of TailView.start that got a consumer: it owns a  *)
(* kgo client, a context, a buffered record channel and a one-slot error   *)
(* channel.  The view only remembers the latest session; older ones keep   *)
(* their goroutine, their channels and their waiting pumps until each      *)
(* notices that it is over, which is where the interleavings live.         *)
(*                                                                         *)
(* Data: a topic is one partition whose records are its offsets 1..log[t]; *)
(* a tail message is the session and offset it came from, offset 0 being   *)
(* tailErrorMsg.  The handler does not see the session (tailRecordMsg      *)
(* carries only the record): it is there for the properties.               *)
(***************************************************************************)
EXTENDS Naturals, Sequences, FiniteSets

CONSTANTS
    Topics,       \* topics that exist on the cluster
    Torn,         \* what a read of target racing with a write may return
    NoTopic,      \* the empty target
    OtherViews,   \* views that keep their hands off the tail: groups, brokers...
    ChanCap,      \* capacity of msgCh (256 in the code)
    MaxLines,     \* lines the view keeps (5000 in the code)
    MaxSessions,  \* bound: consumers started in a behaviour
    MaxOffset,    \* bound: records produced to a topic
    MaxOpens      \* bound: enter keys whose switchViewMsg is outstanding

ASSUME TopicsAssumption ==
    /\ Torn \notin Topics
    /\ NoTopic \notin Topics \union {Torn}
    /\ OtherViews \subseteq {"groups", "contexts", "brokers"}
ASSUME BoundsAssumption ==
    /\ ChanCap \in Nat \ {0}
    /\ MaxLines \in Nat \ {0}
    /\ MaxSessions \in Nat
    /\ MaxOffset \in Nat
    /\ MaxOpens \in Nat

VARIABLES
    view, prev,   \* App.current, App.prev
    messagesTab,  \* TopicDetailView.tab = tabMessages
    target,       \* TopicDetailView.target
    opening,      \* enter commands whose goroutine has not run: topics
    switchMsgs,   \* switchViewMsg{viewTopicDetail} not yet delivered
    quit,         \* the program has left its event loop and exits
    tailTarget,   \* TailView.target
    paused,       \* TailView.paused
    lines,        \* TailView.lines
    consumer,     \* session of TailView.consumer, 0 when it is nil
    started,      \* sessions created so far
    live,         \* sessions whose context is not cancelled and client open
    topicOf,      \* topic the session consumes
    pc,           \* where the session's Run goroutine is
    fetched,      \* last offset PollFetches gave the goroutine
    sent,         \* last offset it put into msgCh
    msgCh,        \* the session's record channel
    errCh,        \* the session's error channel holds an error
    pumps,        \* pump commands waiting on the session's channels
    inflight,     \* tail messages on their way to Update
    forked,       \* sessions a stale message of another session gave a pump
    log           \* records produced to each topic

uiVars    == <<view, prev, messagesTab, quit>>
openVars  == <<target, opening, switchMsgs>>
startVars == <<consumer, started, live, topicOf, pc, pumps>>
feedVars  == <<fetched, sent, msgCh, errCh, inflight, forked>>
vars == <<uiVars, openVars, tailTarget, paused, lines, startVars, feedVars, log>>

Sessions == 1..MaxSessions
Targets == Topics \union {Torn, NoTopic}
Views == {"topics", "help", "detail"} \union OtherViews
Line == [sess : 0..MaxSessions, off : 0..MaxOffset]
TailMsg == [sess : Sessions, off : 0..MaxOffset]

\* A line of an error met when no session could be created.
StartError == [sess |-> 0, off |-> 0]

UIType ==
    /\ view \in Views /\ prev \in Views \ {"help"}
    /\ messagesTab \in BOOLEAN /\ quit \in BOOLEAN
    /\ target \in Targets
    /\ opening \subseteq Topics
    /\ switchMsgs \in 0..MaxOpens
    /\ log \in [Topics \union {Torn} -> 0..MaxOffset]

TailType ==
    /\ tailTarget \in Targets /\ paused \in BOOLEAN
    /\ lines \in Seq(Line) /\ Len(lines) <= MaxLines
    /\ started \in 0..MaxSessions /\ consumer \in 0..started
    /\ live \subseteq 1..started
    /\ topicOf \in [Sessions -> Targets]

FeedType ==
    /\ pc \in [Sessions -> {"idle", "attach", "poll", "deliver", "done"}]
    /\ fetched \in [Sessions -> 0..MaxOffset]
    /\ sent \in [Sessions -> 0..MaxOffset]
    /\ \A s \in Sessions : sent[s] <= fetched[s]
    /\ msgCh \in [Sessions -> Seq(1..MaxOffset)]
    /\ \A s \in Sessions : Len(msgCh[s]) <= ChanCap
    /\ errCh \in [Sessions -> BOOLEAN]
    /\ pumps \in [Sessions -> Nat]
    /\ inflight \subseteq TailMsg
    /\ forked \subseteq Sessions

\* Every variable has its type; no channel and no window exceeds its capacity.
TypeOK == UIType /\ TailType /\ FeedType

Init ==
    /\ view = "topics" /\ prev = "topics" /\ messagesTab = TRUE /\ quit = FALSE
    /\ target = NoTopic /\ opening = {} /\ switchMsgs = 0
    /\ tailTarget = NoTopic /\ paused = FALSE /\ lines = <<>>
    /\ consumer = 0 /\ started = 0 /\ live = {}
    /\ topicOf = [s \in Sessions |-> NoTopic]
    /\ pc = [s \in Sessions |-> "idle"]
    /\ fetched = [s \in Sessions |-> 0] /\ sent = [s \in Sessions |-> 0]
    /\ msgCh = [s \in Sessions |-> <<>>] /\ errCh = [s \in Sessions |-> FALSE]
    /\ pumps = [s \in Sessions |-> 0]
    /\ inflight = {} /\ forked = {}
    /\ log = [t \in Topics \union {Torn} |-> 0]

-----------------------------------------------------------------------------
(* TailView *)

\* Mutant: the window is trimmed one line late.
AppendLineLate(line) ==
    LET all == Append(lines, line)
        n == Len(all)
    IN  IF n > MaxLines + 1 THEN SubSeq(all, n - MaxLines + 1, n) ELSE all

AppendLine(line) ==
    LET all == Append(lines, line)
        n == Len(all)
    IN  IF n > MaxLines THEN SubSeq(all, n - MaxLines + 1, n) ELSE all

\* Mutant: stop() forgets the session without cancelling it.
LiveAfterForget == live

\* stop() cancels the context and closes the client of the current session.
LiveAfterStop == live \ {consumer}

StopTail ==
    /\ live' = LiveAfterStop
    /\ consumer' = 0
    /\ UNCHANGED <<started, topicOf, pc, pumps>>

FirstPump(s) == [pumps EXCEPT ![s] = 1]

StartSucceeds(topic) ==
    /\ topic # NoTopic
    /\ started < MaxSessions
    /\ LET s == started + 1 IN
       /\ started' = s
       /\ consumer' = s
       /\ live' = LiveAfterStop \union {s}
       /\ topicOf' = [topicOf EXCEPT ![s] = topic]
       /\ pc' = [pc EXCEPT ![s] = "attach"]
       /\ pumps' = FirstPump(s)
    /\ UNCHANGED lines

\* No topic, or NewTailConsumer fails: the previous session is stopped anyway.
StartFails(topic) ==
    /\ StopTail
    /\ lines' = IF topic = NoTopic THEN lines ELSE AppendLine(StartError)

StartTail(topic) == StartSucceeds(topic) \/ StartFails(topic)

KeyPause ==
    /\ ~quit /\ view = "detail" /\ messagesTab
    /\ paused' = ~paused
    /\ UNCHANGED <<uiVars, openVars, tailTarget, lines, startVars, feedVars, log>>

KeyClear ==
    /\ ~quit /\ view = "detail" /\ messagesTab
    /\ lines' = <<>>
    /\ UNCHANGED <<uiVars, openVars, tailTarget, paused, startVars, feedVars, log>>

\* Mutant: a paused view does not ask for more.
HandlerPumpUnlessPaused ==
    IF consumer = 0 \/ paused THEN pumps ELSE [pumps EXCEPT ![consumer] = @ + 1]

\* The view is the addressee of every tail message, whichever session sent it,
\* and answers with a pump on the channels of the session it has now.
HandlerPump ==
    IF consumer = 0 THEN pumps ELSE [pumps EXCEPT ![consumer] = @ + 1]

LinesAfter(m) == IF m.off # 0 /\ paused THEN lines ELSE AppendLine(m)

TailUpdate(m) ==
    /\ ~quit /\ view = "detail"
    /\ m \in inflight
    /\ inflight' = inflight \ {m}
    /\ lines' = LinesAfter(m)
    /\ pumps' = HandlerPump
    /\ forked' = IF consumer \notin {0, m.sess}
                 THEN forked \union {consumer} ELSE forked
    /\ UNCHANGED <<uiVars, openVars, tailTarget, paused, consumer, started, live,
                   topicOf, pc, fetched, sent, msgCh, errCh, log>>

\* Any other view ignores the message and returns no command.
TailDropped(m) ==
    /\ ~quit /\ view # "detail"
    /\ m \in inflight
    /\ inflight' = inflight \ {m}
    /\ UNCHANGED <<uiVars, openVars, tailTarget, paused, lines, startVars,
                   fetched, sent, msgCh, errCh, forked, log>>

-----------------------------------------------------------------------------
(* App: view switching *)

\* switchView: on its own it never stops the tail.
SwitchTo(v) ==
    /\ prev' = IF view = "help" THEN prev ELSE view
    /\ view' = v

\* TopicDetailView.target is written by the goroutine of the enter command and
\* read here with no synchronisation: both halves of the string may mix.
ReadTarget == {target} \union (IF opening = {} THEN {} ELSE {Torn})

\* switchView(viewTopicDetail): TopicDetailView.Init, which starts the tail.
OpenDetail ==
    /\ SwitchTo("detail")
    /\ messagesTab' = TRUE
    /\ \E t \in ReadTarget : tailTarget' = t /\ StartTail(t)
    /\ UNCHANGED <<target, opening, quit, paused, feedVars, log>>

KeyEnter(t) ==
    /\ ~quit /\ view = "topics"
    /\ Cardinality(opening) + switchMsgs < MaxOpens
    /\ opening' = opening \union {t}
    /\ UNCHANGED <<uiVars, target, switchMsgs, tailTarget, paused, lines,
                   startVars, feedVars, log>>

\* The goroutine of the enter command, racing with any other such goroutine.
RunOpen(t) ==
    /\ ~quit /\ t \in opening /\ switchMsgs < MaxOpens
    /\ opening' = opening \ {t}
    /\ target' \in {t} \union (IF opening = {t} THEN {} ELSE {Torn})
    /\ switchMsgs' = switchMsgs + 1
    /\ UNCHANGED <<uiVars, tailTarget, paused, lines, startVars, feedVars, log>>

DeliverSwitch ==
    /\ ~quit /\ switchMsgs > 0
    /\ switchMsgs' = switchMsgs - 1
    /\ OpenDetail

\* esc in the detail view: the one way out that stops the tail.
KeyBackFromDetail ==
    /\ ~quit /\ view = "detail"
    /\ StopTail
    /\ SwitchTo("topics")
    /\ UNCHANGED <<messagesTab, quit, openVars, tailTarget, paused, lines,
                   feedVars, log>>

\* esc in the groups, brokers and contexts views, the :topics, :groups,
\* :brokers and :ctx commands from any view, and ? or :help outside help.
LeaveFor(v) ==
    /\ ~quit
    /\ \/ v = "help" /\ view # "help"
       \/ v \in {"topics"} \union OtherViews
    /\ SwitchTo(v)
    /\ UNCHANGED <<messagesTab, quit, openVars, tailTarget, paused, lines,
                   startVars, feedVars, log>>

\* esc, ? or :help in the help view go back to the view it was opened from.
LeaveHelp ==
    /\ ~quit /\ view = "help"
    /\ \/ /\ prev = "detail"
          /\ OpenDetail
          /\ UNCHANGED switchMsgs
       \/ /\ prev # "detail"
          /\ SwitchTo(prev)
          /\ UNCHANGED <<messagesTab, quit, openVars, tailTarget, paused, lines,
                         startVars, feedVars, log>>

\* setTab: the tail goes on under the other tabs.
KeyTab ==
    /\ ~quit /\ view = "detail"
    /\ messagesTab' = ~messagesTab
    /\ UNCHANGED <<view, prev, quit, openVars, tailTarget, paused, lines,
                   startVars, feedVars, log>>

\* r on the messages tab restarts the tail on the topic it already had.
KeyReload ==
    /\ ~quit /\ view = "detail" /\ messagesTab
    /\ StartTail(tailTarget)
    /\ UNCHANGED <<uiVars, openVars, tailTarget, paused, feedVars, log>>

\* The event loop ends, App.Close stops the tail and the process exits.
Quit ==
    /\ ~quit
    /\ quit' = TRUE
    /\ StopTail
    /\ UNCHANGED <<view, prev, messagesTab, openVars, tailTarget, paused, lines,
                   feedVars, log>>

-----------------------------------------------------------------------------
(* The session's goroutines *)

\* A pump takes whatever its select finds ready.
PumpRecord(s) ==
    /\ ~quit /\ pumps[s] > 0 /\ msgCh[s] # <<>>
    /\ inflight' = inflight \union {[sess |-> s, off |-> Head(msgCh[s])]}
    /\ msgCh' = [msgCh EXCEPT ![s] = Tail(@)]
    /\ pumps' = [pumps EXCEPT ![s] = @ - 1]
    /\ UNCHANGED <<uiVars, openVars, tailTarget, paused, lines, consumer, started,
                   live, topicOf, pc, fetched, sent, errCh, forked, log>>

PumpError(s) ==
    /\ ~quit /\ pumps[s] > 0 /\ errCh[s]
    /\ inflight' = inflight \union {[sess |-> s, off |-> 0]}
    /\ errCh' = [errCh EXCEPT ![s] = FALSE]
    /\ pumps' = [pumps EXCEPT ![s] = @ - 1]
    /\ UNCHANGED <<uiVars, openVars, tailTarget, paused, lines, consumer, started,
                   live, topicOf, pc, fetched, sent, msgCh, forked, log>>

\* Mutant: the tail begins at the oldest record (FromStart).
AttachAtStart(s) ==
    /\ ~quit /\ pc[s] = "attach" /\ s \in live
    /\ pc' = [pc EXCEPT ![s] = "poll"]
    /\ UNCHANGED <<uiVars, openVars, tailTarget, paused, lines, consumer, started,
                   live, topicOf, pumps, feedVars, log>>

\* The client resolves "the end" of the topic when it first lists offsets.
Attach(s) ==
    /\ ~quit /\ pc[s] = "attach" /\ s \in live
    /\ fetched' = [fetched EXCEPT ![s] = log[topicOf[s]]]
    /\ sent' = [sent EXCEPT ![s] = log[topicOf[s]]]
    /\ pc' = [pc EXCEPT ![s] = "poll"]
    /\ UNCHANGED <<uiVars, openVars, tailTarget, paused, lines, consumer, started,
                   live, topicOf, pumps, msgCh, errCh, inflight, forked, log>>

\* PollFetches returns some of the records produced since the last one.
Fetch(s) ==
    /\ ~quit /\ pc[s] = "poll" /\ s \in live
    /\ \E n \in fetched[s]+1..log[topicOf[s]] :
          fetched' = [fetched EXCEPT ![s] = n]
    /\ pc' = [pc EXCEPT ![s] = "deliver"]
    /\ UNCHANGED <<uiVars, openVars, tailTarget, paused, lines, consumer, started,
                   live, topicOf, pumps, sent, msgCh, errCh, inflight, forked, log>>

\* A fetch with an error ends Run; the records it also carried are lost.
FetchError(s) ==
    /\ ~quit /\ pc[s] \in {"attach", "poll"} /\ s \in live
    /\ pc' = [pc EXCEPT ![s] = "done"]
    /\ errCh' = [errCh EXCEPT ![s] = TRUE]
    /\ UNCHANGED <<uiVars, openVars, tailTarget, paused, lines, consumer, started,
                   live, topicOf, pumps, fetched, sent, msgCh, inflight, forked, log>>

PollCancelled(s) ==
    /\ ~quit /\ pc[s] \in {"attach", "poll"} /\ s \notin live
    /\ pc' = [pc EXCEPT ![s] = "done"]
    /\ UNCHANGED <<uiVars, openVars, tailTarget, paused, lines, consumer, started,
                   live, topicOf, pumps, feedVars, log>>

\* Mutant: a full msgCh makes the handler skip the record (select default).
SendOrSkip(s) ==
    /\ ~quit /\ pc[s] = "deliver"
    /\ msgCh' = [msgCh EXCEPT ![s] =
                    IF Len(@) < ChanCap THEN Append(@, sent[s] + 1) ELSE @]
    /\ sent' = [sent EXCEPT ![s] = @ + 1]
    /\ pc' = [pc EXCEPT ![s] = IF sent[s] + 1 = fetched[s] THEN "poll" ELSE "deliver"]
    /\ UNCHANGED <<uiVars, openVars, tailTarget, paused, lines, consumer, started,
                   live, topicOf, pumps, fetched, errCh, inflight, forked, log>>

\* The handler's select takes either ready case, also after the cancellation.
Send(s) ==
    /\ ~quit /\ pc[s] = "deliver" /\ Len(msgCh[s]) < ChanCap
    /\ msgCh' = [msgCh EXCEPT ![s] = Append(@, sent[s] + 1)]
    /\ sent' = [sent EXCEPT ![s] = @ + 1]
    /\ pc' = [pc EXCEPT ![s] = IF sent[s] + 1 = fetched[s] THEN "poll" ELSE "deliver"]
    /\ UNCHANGED <<uiVars, openVars, tailTarget, paused, lines, consumer, started,
                   live, topicOf, pumps, fetched, errCh, inflight, forked, log>>

\* Mutant: the handler waits for room in msgCh only.
SendCancelledIgnored(s) == FALSE

\* ctx.Done: the rest of the batch is dropped and no error is reported.
SendCancelled(s) ==
    /\ ~quit /\ pc[s] = "deliver" /\ s \notin live
    /\ fetched' = [fetched EXCEPT ![s] = sent[s]]
    /\ pc' = [pc EXCEPT ![s] = "done"]
    /\ UNCHANGED <<uiVars, openVars, tailTarget, paused, lines, consumer, started,
                   live, topicOf, pumps, sent, msgCh, errCh, inflight, forked, log>>

Produce(t) ==
    /\ ~quit /\ log[t] < MaxOffset
    /\ log' = [log EXCEPT ![t] = @ + 1]
    /\ UNCHANGED <<uiVars, openVars, tailTarget, paused, lines, startVars, feedVars>>

-----------------------------------------------------------------------------

Key ==
    \/ KeyPause \/ KeyClear \/ KeyTab \/ KeyReload
    \/ KeyBackFromDetail \/ LeaveHelp \/ Quit
    \/ \E v \in Views \ {"detail"} : LeaveFor(v)
    \/ \E t \in Topics : KeyEnter(t)

Goroutine(s) ==
    \/ Attach(s) \/ Fetch(s) \/ FetchError(s) \/ PollCancelled(s)
    \/ Send(s) \/ SendCancelled(s)

Pump(s) == PumpRecord(s) \/ PumpError(s)

Next ==
    \/ Key
    \/ DeliverSwitch
    \/ \E t \in Topics : RunOpen(t) \/ Produce(t)
    \/ \E m \in inflight : TailUpdate(m) \/ TailDropped(m)
    \/ \E s \in Sessions : Goroutine(s) \/ Pump(s)

\* The Go scheduler runs every goroutine that can go on, and the event loop
\* takes every message handed to it; nothing makes a user, a producer or a
\* broker act.
Fairness ==
    /\ \A s \in Sessions : /\ WF_vars(PollCancelled(s))
                           /\ WF_vars(Send(s) \/ SendCancelled(s))
                           /\ WF_vars(Pump(s))
    /\ \A m \in TailMsg : WF_vars(TailUpdate(m) \/ TailDropped(m))

Spec == Init /\ [][Next]_vars
FairSpec == Spec /\ Fairness

-----------------------------------------------------------------------------
(* Properties *)

\* Offsets a session's goroutine has fetched and Update has not yet taken.
Pending(s) ==
    {m.off : m \in {x \in inflight : x.sess = s /\ x.off # 0}}
      \union {msgCh[s][i] : i \in DOMAIN msgCh[s]}
      \union sent[s]+1..fetched[s]

\* At most one consumer is polling, and it is the one the view will stop: the
\* stop() at the head of start() leaves no client running that nobody can
\* close, however views are switched and reloaded.
OneLiveSession == live = {consumer} \ {0}

\* While the detail view is shown, the running session always has a pump
\* waiting or a message on its way that will bring the next pump: the chain
\* tailRecordMsg -> Update -> pump never breaks there, not even by a pause, an
\* error, a tab change or a message of an older session.
PumpAlive ==
    view = "detail" /\ consumer # 0 =>
        \/ pumps[consumer] > 0
        \/ \E m \in inflight : m.sess = consumer

\* A record is shown at most once, also across sessions on the same topic: a
\* restarted tail begins after everything the session before it had fetched.
ShownOnce ==
    \A i, j \in DOMAIN lines :
        /\ i # j
        /\ lines[i].off # 0
        /\ lines[j].off # 0
        /\ topicOf[lines[i].sess] = topicOf[lines[j].sess]
        => lines[i].off # lines[j].off

\* A record the current session fetched comes to the handler as long as the
\* user stays in the detail view with that session, even with msgCh full.
FetchedIsHandled ==
    \A s \in Sessions : \A o \in 1..MaxOffset :
        o \in Pending(s) ~> o \notin Pending(s) \/ consumer # s \/ view # "detail"

\* The goroutine of a session that is stopped ends, wherever the cancellation
\* finds it: in the poll, or blocked on a full msgCh nobody reads any more.
StoppedRunEnds ==
    \A s \in Sessions :
        s \in 1..started /\ s \notin live ~> pc[s] = "done" \/ quit
=============================================================================
