------------------------------ MODULE AppShell ------------------------------
(***************************************************************************)
(* The App's event loop and the asynchronous loads of its views: view      *)
(* switching, the command bar, the refresh chains (load, then a 5 s tick,  *)
(* then the next load) of the list views, the three loads of the topic     *)
(* detail view, errorMsg, and the switch to another profile with its new   *)
(* admin client.                                                           *)
(*                                                                         *)
(* Update is single-threaded; what is concurrent is the commands it        *)
(* returns.  A load is outstanding from the command that starts it until   *)
(* its message comes to Update, which may be any later view's.  Its answer *)
(* is data of the client and topic it was started with, or an error; when  *)
(* on the way it was settled makes no difference to Update.                *)
(*                                                                         *)
(* Data: what a view shows is the client, or the topic, it was loaded      *)
(* from.  A client stands for its profile too.  The tabs of the detail     *)
(* view and the row filters only decide which keys do what, and are left   *)
(* out; the live tail is LiveTail.                                         *)
(***************************************************************************)
EXTENDS Naturals, FiniteSets, Functions

CONSTANTS
    Lists,           \* list views: "topics" and any of "groups", "brokers"
    Topics,          \* topics that can be opened
    None,            \* no topic
    MaxClients,      \* bound: admin clients created
    MaxOutstanding   \* bound on outstanding commands and messages at a key

ASSUME ListsAssumption == "topics" \in Lists /\ Lists \subseteq {"topics", "groups", "brokers"}
ASSUME NoneAssumption == None \notin Topics
ASSUME MaxAssumption == MaxClients \in Nat \ {0} /\ MaxOutstanding \in Nat

Clients == 1..MaxClients

\* DescribeTopic, GroupsForTopic and TopicACLs.
DetailKinds == {"describe", "groupsOf", "acls"}
ListLoads == [kind : Lists, client : Clients, topic : {None}]
DetailLoads == [kind : DetailKinds, client : Clients, topic : Topics]
Loads == ListLoads \union DetailLoads
Views == Lists \union {"detail", "contexts", "help"}

VARIABLES
    view, prev,   \* App.current, App.prev
    cmdMode,      \* App.cmdMode
    connected,    \* App.connected
    admin,        \* App.admin: the latest client created
    closed,       \* clients closed
    shown,        \* list view: client its rows come from, 0 before any
    errored,      \* list views whose errored is set
    target,       \* TopicDetailView.target
    detail,       \* kind of load: topic of the loaded data, None when not loaded
    detailErr,    \* TopicDetailView.err # nil
    cleared,      \* history: since Init a describe has taken an error away
    loads,        \* outstanding loads
    ticks,        \* outstanding tickMsgs; they do not say whose they are
    opening,      \* enter commands on a topic that have not run
    switchMsgs,   \* switchViewMsg{viewTopicDetail} to be delivered
    profileMsgs   \* profileSwitchedMsg to be delivered

where == <<view, prev, cmdMode>>
clientVars == <<connected, admin, closed>>
listVars == <<shown, errored>>
detailVars == <<target, detail, detailErr, cleared>>
queues == <<loads, ticks, opening, switchMsgs, profileMsgs>>
vars == <<where, clientVars, listVars, detailVars, queues>>

\* Every variable has its type, and the views shown are views there are.
TypeOK ==
    /\ view \in Views /\ prev \in Views /\ cmdMode \in BOOLEAN
    /\ connected \in BOOLEAN /\ admin \in Clients /\ closed \subseteq 1..admin
    /\ shown \in [Lists -> 0..admin] /\ errored \subseteq Lists
    /\ target \in Topics \union {None}
    /\ detail \in [DetailKinds -> Topics \union {None}]
    /\ detailErr \in BOOLEAN /\ cleared \in BOOLEAN
    /\ loads \in [Loads -> Nat]
    /\ \A l \in Loads : loads[l] > 0 => l.client <= admin
    /\ ticks \in Nat /\ switchMsgs \in Nat /\ profileMsgs \in Nat
    /\ opening \in [Topics -> Nat]
    /\ view = "detail" \/ prev = "detail" \/ switchMsgs > 0 => target # None

NothingLoaded == [k \in DetailKinds |-> None]

\* load() of a list view, and the loads of the detail view's Init.
ListLoad(v, c) == [kind |-> v, client |-> c, topic |-> None]
LoadsOf(v, c) ==
    {l \in Loads : /\ l.client = c
                   /\ IF v = "detail" THEN l.kind \in DetailKinds /\ l.topic = target
                                      ELSE l.kind = v}

Issue(from, ls) == [l \in Loads |-> IF l \in ls THEN from[l] + 1 ELSE from[l]]

Init ==
    /\ view = "topics" /\ prev = "topics" /\ cmdMode = FALSE
    /\ connected = TRUE /\ admin = 1 /\ closed = {}
    /\ shown = [v \in Lists |-> 0] /\ errored = {}
    /\ target = None /\ detail = NothingLoaded /\ detailErr = FALSE /\ cleared = FALSE
    /\ loads = Issue([l \in Loads |-> 0], {ListLoad("topics", 1)})
    /\ ticks = 0 /\ switchMsgs = 0 /\ profileMsgs = 0
    /\ opening = [t \in Topics |-> 0]

Sum(f) == FoldFunction(LAMBDA x, y : x + y, 0, f)
Outstanding == Sum(loads) + ticks + Sum(opening) + switchMsgs + profileMsgs

\* The bound on keys: a user who waits for the App to catch up.
Room == Outstanding < MaxOutstanding

-----------------------------------------------------------------------------
(* switchView *)

\* Mutant: a list view that has rows is shown as it is.
SwitchViewCached(v, c) ==
    /\ prev' = IF view = "help" THEN prev ELSE view
    /\ view' = v
    /\ loads' = IF v \in {w \in Lists : shown[w] # 0} THEN loads
                ELSE Issue(loads, LoadsOf(v, c))
    /\ detail' = IF v = "detail" THEN NothingLoaded ELSE detail
    /\ detailErr' = IF v = "detail" THEN FALSE ELSE detailErr
    /\ cleared' = IF v = "detail" THEN FALSE ELSE cleared

\* The new view's Init loads, and the detail view's resets what it shows.  The
\* list views keep their rows and errored.
SwitchView(v, c) ==
    /\ prev' = IF view = "help" THEN prev ELSE view
    /\ view' = v
    /\ loads' = Issue(loads, LoadsOf(v, c))
    /\ detail' = IF v = "detail" THEN NothingLoaded ELSE detail
    /\ detailErr' = IF v = "detail" THEN FALSE ELSE detailErr
    /\ cleared' = IF v = "detail" THEN FALSE ELSE cleared

KeyCommand ==
    /\ ~cmdMode
    /\ cmdMode' = TRUE
    /\ UNCHANGED <<view, prev, clientVars, listVars, detailVars, queues>>

\* esc, or enter on an unknown command.
CommandEnds ==
    /\ cmdMode
    /\ cmdMode' = FALSE
    /\ UNCHANGED <<view, prev, clientVars, listVars, detailVars, queues>>

\* ? and :help; the view help was opened from is initialised again.
HelpTarget == IF view = "help" THEN prev ELSE "help"

RunCommand(v) ==
    /\ cmdMode
    /\ v \in Lists \union {"contexts", HelpTarget}
    /\ cmdMode' = FALSE
    /\ SwitchView(v, admin)
    /\ UNCHANGED <<clientVars, listVars, target, ticks, opening, switchMsgs, profileMsgs>>

KeyHelp ==
    /\ ~cmdMode
    /\ SwitchView(HelpTarget, admin)
    /\ UNCHANGED <<cmdMode, clientVars, listVars, target, ticks, opening, switchMsgs,
                   profileMsgs>>

\* esc: App.handleKey takes it in every view but the topics view.
KeyBack ==
    /\ ~cmdMode /\ view # "topics"
    /\ SwitchView(IF view = "help" THEN prev ELSE "topics", admin)
    /\ UNCHANGED <<cmdMode, clientVars, listVars, target, ticks, opening, switchMsgs,
                   profileMsgs>>

-----------------------------------------------------------------------------
(* Keys of the views *)

\* r in a list view.
KeyRefresh ==
    /\ ~cmdMode /\ view \in Lists
    /\ errored' = errored \ {view}
    /\ loads' = Issue(loads, LoadsOf(view, admin))
    /\ UNCHANGED <<where, clientVars, shown, detailVars, ticks, opening, switchMsgs,
                   profileMsgs>>

\* r on a tab of the detail view other than the messages tab; err stays.
KeyReload(k) ==
    /\ ~cmdMode /\ view = "detail"
    /\ detail' = [detail EXCEPT ![k] = None]
    /\ loads' = Issue(loads, {[kind |-> k, client |-> admin, topic |-> target]})
    /\ UNCHANGED <<where, clientVars, listVars, target, detailErr, cleared, ticks, opening,
                   switchMsgs, profileMsgs>>

\* enter on the row of a topic: there are rows once a list has been loaded.
KeyEnterTopic(t) ==
    /\ ~cmdMode /\ view = "topics" /\ shown["topics"] # 0
    /\ opening' = [opening EXCEPT ![t] = @ + 1]
    /\ UNCHANGED <<where, clientVars, listVars, detailVars, loads, ticks, switchMsgs,
                   profileMsgs>>

KeyEnterContext ==
    /\ ~cmdMode /\ view = "contexts"
    /\ profileMsgs' = profileMsgs + 1
    /\ UNCHANGED <<where, clientVars, listVars, detailVars, loads, ticks, opening,
                   switchMsgs>>

-----------------------------------------------------------------------------
(* Commands and messages *)

\* Mutant: the message overtakes the assignment.
RunOpenUntargeted(t) ==
    /\ opening[t] > 0
    /\ opening' = [opening EXCEPT ![t] = @ - 1]
    /\ switchMsgs' = switchMsgs + 1
    /\ UNCHANGED <<where, clientVars, listVars, detailVars, loads, ticks, profileMsgs>>

\* The enter command sets target from its goroutine, then sends switchViewMsg.
RunOpen(t) ==
    /\ opening[t] > 0
    /\ opening' = [opening EXCEPT ![t] = @ - 1]
    /\ target' = t
    /\ switchMsgs' = switchMsgs + 1
    /\ UNCHANGED <<where, clientVars, listVars, detail, detailErr, cleared, loads, ticks,
                   profileMsgs>>

DeliverSwitch ==
    /\ switchMsgs > 0
    /\ switchMsgs' = switchMsgs - 1
    /\ SwitchView("detail", admin)
    /\ UNCHANGED <<cmdMode, clientVars, listVars, target, ticks, opening, profileMsgs>>

\* Mutant: the client of the profile that is left stays open.
ProfileSwitchedLeaky ==
    /\ profileMsgs > 0 /\ admin < MaxClients
    /\ profileMsgs' = profileMsgs - 1
    /\ admin' = admin + 1
    /\ connected' = TRUE
    /\ SwitchView("topics", admin + 1)
    /\ UNCHANGED <<cmdMode, closed, listVars, target, ticks, opening, switchMsgs>>

\* applyProfileSwitch with a client that could be created.
ProfileSwitched ==
    /\ profileMsgs > 0 /\ admin < MaxClients
    /\ profileMsgs' = profileMsgs - 1
    /\ closed' = closed \union {admin}
    /\ admin' = admin + 1
    /\ connected' = TRUE
    /\ SwitchView("topics", admin + 1)
    /\ UNCHANGED <<cmdMode, listVars, target, ticks, opening, switchMsgs>>

\* AdminFactory fails: the old client is closed all the same, and stays in use.
ProfileSwitchFails ==
    /\ profileMsgs > 0
    /\ profileMsgs' = profileMsgs - 1
    /\ closed' = closed \union {admin}
    /\ connected' = FALSE
    /\ UNCHANGED <<where, admin, listVars, detailVars, loads, ticks, opening, switchMsgs>>

Done(l) == [loads EXCEPT ![l] = @ - 1]

\* Mutant: the timer is not armed again.
ListLoadedOnce(l) ==
    /\ loads[l] > 0 /\ l.kind \in Lists /\ view = l.kind
    /\ loads' = Done(l)
    /\ shown' = [shown EXCEPT ![view] = l.client]
    /\ errored' = errored \ {view}
    /\ UNCHANGED <<where, clientVars, detailVars, ticks, opening, switchMsgs, profileMsgs>>

\* A list view's own loaded message: new rows, and the tick for the next load.
ListLoaded(l) ==
    /\ loads[l] > 0 /\ l.kind \in Lists /\ view = l.kind
    /\ loads' = Done(l)
    /\ shown' = [shown EXCEPT ![view] = l.client]
    /\ errored' = errored \ {view}
    /\ ticks' = ticks + 1
    /\ UNCHANGED <<where, clientVars, detailVars, opening, switchMsgs, profileMsgs>>

\* Mutant: any loaded message clears the error.
DetailLoadedClears(l) ==
    /\ loads[l] > 0 /\ l.kind \in DetailKinds /\ view = "detail"
    /\ loads' = Done(l)
    /\ detail' = [detail EXCEPT ![l.kind] = l.topic]
    /\ detailErr' = FALSE /\ cleared' = (cleared \/ detailErr)
    /\ UNCHANGED <<where, clientVars, listVars, target, ticks, opening, switchMsgs,
                   profileMsgs>>

\* The detail view takes the message whatever topic it is of.
DetailLoaded(l) ==
    /\ loads[l] > 0 /\ l.kind \in DetailKinds /\ view = "detail"
    /\ loads' = Done(l)
    /\ detail' = [detail EXCEPT ![l.kind] = l.topic]
    /\ detailErr' = (detailErr /\ l.kind # "describe")
    /\ cleared' = (cleared \/ (detailErr /\ l.kind = "describe"))
    /\ UNCHANGED <<where, clientVars, listVars, target, ticks, opening, switchMsgs,
                   profileMsgs>>

\* Any other view ignores the loaded message, and the chain ends.
LoadedIgnored(l) ==
    /\ loads[l] > 0
    /\ IF l.kind \in Lists THEN view # l.kind ELSE view # "detail"
    /\ loads' = Done(l)
    /\ UNCHANGED <<where, clientVars, listVars, detailVars, ticks, opening, switchMsgs,
                   profileMsgs>>

\* Mutant: the App leaves the error to the view.
LoadFailsQuietly(l) ==
    /\ loads[l] > 0 /\ l.kind # "acls"
    /\ loads' = Done(l)
    /\ errored' = errored \union ({view} \intersect Lists)
    /\ detailErr' = (detailErr \/ view = "detail")
    /\ UNCHANGED <<where, clientVars, shown, target, detail, cleared, ticks, opening,
                   switchMsgs, profileMsgs>>

\* errorMsg does not say whose it is: it pauses the view that is shown.  The
\* ACL load has no errorMsg, its error is part of what is loaded.
LoadFails(l) ==
    /\ loads[l] > 0 /\ l.kind # "acls"
    /\ loads' = Done(l)
    /\ connected' = FALSE
    /\ errored' = errored \union ({view} \intersect Lists)
    /\ detailErr' = (detailErr \/ view = "detail")
    /\ UNCHANGED <<where, admin, closed, shown, target, detail, cleared, ticks, opening,
                   switchMsgs, profileMsgs>>

\* The view shown takes the tick for its own.
Tick ==
    /\ ticks > 0
    /\ ticks' = ticks - 1
    /\ loads' = IF view \in Lists \ errored
                THEN Issue(loads, LoadsOf(view, admin)) ELSE loads
    /\ UNCHANGED <<where, clientVars, listVars, detailVars, opening, switchMsgs,
                   profileMsgs>>

-----------------------------------------------------------------------------
(* What the detail view shows *)

\* refresh: the error goes before what the tab has, or has not yet.
TabShows(k) ==
    IF detailErr THEN "error" ELSE IF detail[k] = None THEN "loading" ELSE "loaded"

-----------------------------------------------------------------------------

Key ==
    /\ Room
    /\ \/ KeyCommand \/ CommandEnds \/ KeyHelp \/ KeyBack \/ KeyRefresh \/ KeyEnterContext
       \/ \E v \in Views : RunCommand(v)
       \/ \E k \in DetailKinds : KeyReload(k)
       \/ \E t \in Topics : KeyEnterTopic(t)

LoadReturns(l) ==
    ListLoaded(l) \/ DetailLoaded(l) \/ LoadedIgnored(l) \/ LoadFails(l)

Next ==
    \/ Key
    \/ \E t \in Topics : RunOpen(t)
    \/ DeliverSwitch \/ ProfileSwitched \/ ProfileSwitchFails \/ Tick
    \/ \E l \in Loads : LoadReturns(l)

\* Every load has a timeout and its goroutine runs; every timer fires; Update
\* takes every message.  Nothing makes a user press a key.  What the list views
\* promise needs this of their own loads only.
Fairness ==
    /\ \A l \in ListLoads : WF_vars(LoadReturns(l))
    /\ WF_vars(Tick)

Spec == Init /\ [][Next]_vars
FairSpec == Spec /\ Fairness

-----------------------------------------------------------------------------
(* Properties *)

Loading(v) == \E c \in Clients : loads[ListLoad(v, c)] > 0
DetailLoading(k) == \E l \in DetailLoads : l.kind = k /\ loads[l] > 0

\* A list view that is shown and not paused by an error goes on refreshing: a
\* load of it or a tick is outstanding, however views, profiles and errors of
\* other views came in between.
RefreshAlive == view \in Lists \ errored => Loading(view) \/ ticks > 0

\* A list view that an error has paused never looks alive: the header says "x
\* error", unless a load of that view is under way that will settle it.
PauseIsSaid == view \in errored /\ connected => Loading(view)

\* No admin client is left open but the one in use, and while the header says
\* "connected" that one is open.
ClientsAccounted ==
    /\ 1..admin \ closed \subseteq {admin}
    /\ connected => admin \notin closed

\* A list view that stays on the screen comes to show the current profile's
\* data or stops with an error, whatever the loads of older profiles bring.
ListCatchesUp ==
    \A v \in Lists :
        view = v ~> view # v \/ v \in errored \/ shown[v] = admin

\* The tabs of the detail view never wait for nothing: they say "loading" only while
\* a load of theirs is under way, whatever loads of other tabs and topics end, and in
\* whichever order; the consumers tab also after the describe took the error of the
\* groups load for its own and cleared it.
TabsAlive ==
    view = "detail" =>
        \A k \in DetailKinds : TabShows(k) = "loading" =>
            DetailLoading(k) \/ (k = "groupsOf" /\ cleared)

\* "Init resets per-topic state" (topic_detail_view.go:89): once its loads are
\* over, the detail view shows nothing of a topic but the one it is open on.
DetailIsOfTarget ==
    /\ view = "detail" /\ switchMsgs + Sum(opening) = 0
    /\ ~\E k \in DetailKinds : DetailLoading(k)
    => \A k \in DetailKinds : detail[k] \in {None, target}
=============================================================================
