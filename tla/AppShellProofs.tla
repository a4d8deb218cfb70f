--------------------------- MODULE AppShellProofs ---------------------------
(***************************************************************************)
(* Proofs about AppShell, for every set of list views and topics and any   *)
(* number of clients, loads, ticks and messages: type correctness, and     *)
(* that the refresh of a list view, the sign of its pause, the detail view *)
(* and the admin clients are what the invariants say.                      *)
(***************************************************************************)
EXTENDS AppShell, TLAPS

USE ListsAssumption, NoneAssumption, MaxAssumption

-----------------------------------------------------------------------------
(* What a step does to the outstanding loads.                              *)

\* Starting loads adds the ones asked for and ends none.
LEMMA IssueType ==
    ASSUME NEW f \in [Loads -> Nat], NEW ls
    PROVE  /\ Issue(f, ls) \in [Loads -> Nat]
           /\ \A l \in Loads : f[l] > 0 => Issue(f, ls)[l] > 0
           /\ \A l \in Loads : l \in ls => Issue(f, ls)[l] > 0
           /\ \A l \in Loads : l \notin ls => Issue(f, ls)[l] = f[l]
BY DEF Issue

\* A load that returns leaves the others as they are.
LEMMA DoneType ==
    ASSUME TypeOK, NEW l \in Loads, loads[l] > 0
    PROVE  /\ Done(l) \in [Loads -> Nat]
           /\ \A m \in Loads \ {l} : Done(l)[m] = loads[m]
           /\ \A m \in Loads : Done(l)[m] > 0 => loads[m] > 0
BY DEF Done, TypeOK

LEMMA ListLoadType ==
    ASSUME NEW v \in Lists, NEW c \in Clients
    PROVE  ListLoad(v, c) \in Loads /\ ListLoad(v, c) \in LoadsOf(v, c)
BY DEF ListLoad, Loads, ListLoads, LoadsOf

\* The views are distinct from one another and from the kinds of load.
LEMMA Names ==
    /\ "detail" \notin Lists /\ "contexts" \notin Lists /\ "help" \notin Lists
    /\ DetailKinds \intersect Lists = {}
    /\ "topics" \in Views /\ "detail" \in Views /\ "help" \in Views
BY DEF DetailKinds, Views

-----------------------------------------------------------------------------
(* Type correctness.                                                       *)

LEMMA InitType == Init => TypeOK
<1> SUFFICES ASSUME Init PROVE TypeOK
  OBVIOUS
<1>1. ListLoad("topics", 1) \in Loads /\ 1 \in Clients
  BY ListLoadType DEF Clients
<1>2. loads \in [Loads -> Nat]
  BY IssueType DEF Init
<1>3. \A l \in Loads : loads[l] > 0 => l.client <= admin
  BY DEF Init, Issue, ListLoad
<1>4. target \in Topics \union {None} /\ detail \in [DetailKinds -> Topics \union {None}]
  BY DEF Init, NothingLoaded
<1>5. shown \in [Lists -> 0..admin] /\ opening \in [Topics -> Nat]
  BY DEF Init
<1>6. ~(view = "detail" \/ prev = "detail" \/ switchMsgs > 0)
  BY DEF Init
<1> QED BY <1>1, <1>2, <1>3, <1>4, <1>5, <1>6, Names DEF Init, TypeOK

\* A switch of view keeps the types, with loads of the client given to it.
LEMMA SwitchViewType ==
    ASSUME TypeOK, NEW v \in Views, NEW c \in Clients, SwitchView(v, c)
    PROVE  /\ view' \in Views /\ prev' \in Views
           /\ loads' \in [Loads -> Nat]
           /\ \A l \in Loads : loads'[l] > 0 => l.client <= admin \/ l.client = c
           /\ detail' \in [DetailKinds -> Topics \union {None}]
           /\ detailErr' \in BOOLEAN /\ cleared' \in BOOLEAN
<1>1. view' \in Views /\ prev' \in Views
  BY DEF SwitchView, TypeOK
<1>2. loads' \in [Loads -> Nat]
  BY IssueType DEF SwitchView, TypeOK
<1>3. \A l \in Loads : loads'[l] > 0 => loads[l] > 0 \/ l \in LoadsOf(v, c)
  BY IssueType DEF SwitchView, TypeOK
<1>4. \A l \in Loads : loads'[l] > 0 => l.client <= admin \/ l.client = c
  BY <1>3 DEF LoadsOf, TypeOK
<1>5. /\ detail' \in [DetailKinds -> Topics \union {None}]
      /\ detailErr' \in BOOLEAN /\ cleared' \in BOOLEAN
  BY DEF SwitchView, NothingLoaded, TypeOK
<1> QED BY <1>1, <1>2, <1>4, <1>5

LEMMA KeyType ==
    ASSUME TypeOK, Key
    PROVE  TypeOK'
<1>1. admin \in Clients /\ admin \in Nat
  BY DEF TypeOK, Clients
<1>2. CASE KeyCommand \/ CommandEnds
  BY <1>2 DEF KeyCommand, CommandEnds, TypeOK, clientVars, listVars, detailVars, queues
<1>3. ASSUME NEW v \in Views \ {"detail"}, SwitchView(v, admin) ,
             cmdMode' \in BOOLEAN, UNCHANGED <<clientVars, listVars, target, ticks,
                                              opening, switchMsgs, profileMsgs>>
      PROVE  TypeOK'
  <2>1. \A l \in Loads : loads'[l] > 0 => l.client <= admin
    BY <1>1, <1>3, SwitchViewType DEF TypeOK
  <2>2. view' # "detail" /\ (prev' = "detail" => prev = "detail" \/ view = "detail")
    BY <1>3 DEF SwitchView
  <2> QED BY <1>1, <1>3, <2>1, <2>2, SwitchViewType DEF TypeOK, clientVars, listVars
<1>4. ASSUME prev = "detail", SwitchView("detail", admin),
             cmdMode' \in BOOLEAN, UNCHANGED <<clientVars, listVars, target, ticks,
                                              opening, switchMsgs, profileMsgs>>
      PROVE  TypeOK'
  <2>1. \A l \in Loads : loads'[l] > 0 => l.client <= admin
    BY <1>1, <1>4, SwitchViewType, Names DEF TypeOK
  <2> QED BY <1>1, <1>4, <2>1, SwitchViewType, Names DEF TypeOK, clientVars, listVars
<1>5. ASSUME NEW v \in Views, RunCommand(v) PROVE TypeOK'
  <2>1. v # "detail" \/ prev = "detail"
    BY <1>5, Names DEF RunCommand, HelpTarget
  <2>2. cmdMode' \in BOOLEAN
    BY <1>5 DEF RunCommand
  <2> QED BY <1>3, <1>4, <1>5, <2>1, <2>2 DEF RunCommand
<1>6. CASE KeyHelp
  <2>1. cmdMode' \in BOOLEAN
    BY <1>6 DEF KeyHelp, TypeOK
  <2>2. HelpTarget \in Views \ {"detail"} \/ (HelpTarget = "detail" /\ prev = "detail")
    BY Names DEF HelpTarget, TypeOK
  <2> QED BY <1>3, <1>4, <1>6, <2>1, <2>2 DEF KeyHelp
<1>7. CASE KeyBack
  <2> DEFINE v == IF view = "help" THEN prev ELSE "topics"
  <2>1. cmdMode' \in BOOLEAN
    BY <1>7 DEF KeyBack, TypeOK
  <2>2. v \in Views \ {"detail"} \/ (v = "detail" /\ prev = "detail")
    BY Names DEF TypeOK
  <2>3. SwitchView(v, admin) /\ UNCHANGED <<clientVars, listVars, target, ticks, opening,
                                           switchMsgs, profileMsgs>>
    BY <1>7 DEF KeyBack
  <2> QED BY <1>3, <1>4, <2>1, <2>2, <2>3
<1>8. CASE KeyRefresh
  <2>1. loads' \in [Loads -> Nat]
    BY <1>8, IssueType DEF KeyRefresh, TypeOK
  <2>2. \A l \in Loads : loads'[l] > 0 => l.client <= admin
    BY <1>1, <1>8, IssueType DEF KeyRefresh, LoadsOf, TypeOK
  <2> QED BY <1>8, <2>1, <2>2 DEF KeyRefresh, TypeOK, where, clientVars, detailVars
<1>9. ASSUME NEW k \in DetailKinds, KeyReload(k) PROVE TypeOK'
  <2>1. loads' \in [Loads -> Nat]
    BY <1>9, IssueType DEF KeyReload, TypeOK
  <2>2. \A l \in Loads : loads'[l] > 0 => l.client <= admin
    BY <1>1, <1>9, IssueType DEF KeyReload, TypeOK
  <2>3. detail' \in [DetailKinds -> Topics \union {None}]
    BY <1>9 DEF KeyReload, TypeOK
  <2> QED BY <1>9, <2>1, <2>2, <2>3 DEF KeyReload, TypeOK, where, clientVars, listVars
<1>10. ASSUME NEW t \in Topics, KeyEnterTopic(t) PROVE TypeOK'
  BY <1>10 DEF KeyEnterTopic, TypeOK, where, clientVars, listVars, detailVars
<1>11. CASE KeyEnterContext
  BY <1>11 DEF KeyEnterContext, TypeOK, where, clientVars, listVars, detailVars
<1> QED BY <1>2, <1>5, <1>6, <1>7, <1>8, <1>9, <1>10, <1>11 DEF Key

LEMMA DeliverType ==
    ASSUME TypeOK, DeliverSwitch \/ ProfileSwitched \/ ProfileSwitchFails \/ Tick
    PROVE  TypeOK'
<1>1. admin \in Clients /\ admin \in Nat
  BY DEF TypeOK, Clients
<1>2. CASE DeliverSwitch
  <2>1. SwitchView("detail", admin)
    BY <1>2 DEF DeliverSwitch
  <2>2. \A l \in Loads : loads'[l] > 0 => l.client <= admin
    BY <1>1, <2>1, SwitchViewType, Names DEF TypeOK
  <2>3. switchMsgs' \in Nat /\ target # None
    BY <1>2 DEF DeliverSwitch, TypeOK
  <2> QED BY <1>1, <1>2, <2>1, <2>2, <2>3, SwitchViewType, Names
          DEF DeliverSwitch, TypeOK, clientVars, listVars
<1>3. CASE ProfileSwitched
  <2>1. SwitchView("topics", admin + 1) /\ admin' = admin + 1 /\ admin + 1 \in Clients
    BY <1>1, <1>3 DEF ProfileSwitched, Clients
  <2>2. \A l \in Loads : loads'[l] > 0 => l.client <= admin'
    <3>1. \A l \in Loads : l.client \in Nat
      BY DEF Loads, ListLoads, DetailLoads, Clients
    <3> QED BY <1>1, <2>1, <3>1, SwitchViewType, Names
  <2>3. closed' \subseteq 1..admin' /\ shown' \in [Lists -> 0..admin']
    <3>1. 0..admin \subseteq 0..admin' /\ 1..admin \subseteq 1..admin' /\ admin \in 1..admin'
      BY <1>1, <2>1 DEF Clients
    <3>2. closed' = closed \union {admin} /\ shown' = shown
      BY <1>3 DEF ProfileSwitched, listVars
    <3> QED BY <3>1, <3>2 DEF TypeOK
  <2>4. view' # "detail" /\ (prev' = "detail" => prev = "detail" \/ view = "detail")
    BY <2>1 DEF SwitchView
  <2>5. profileMsgs' \in Nat /\ connected' \in BOOLEAN
    BY <1>3 DEF ProfileSwitched, TypeOK
  <2> QED BY <1>3, <2>1, <2>2, <2>3, <2>4, <2>5, SwitchViewType, Names
          DEF ProfileSwitched, TypeOK, listVars
<1>4. CASE ProfileSwitchFails
  <2>1. closed' \subseteq 1..admin
    BY <1>1, <1>4 DEF ProfileSwitchFails, TypeOK, Clients
  <2>2. profileMsgs' \in Nat
    BY <1>4 DEF ProfileSwitchFails, TypeOK
  <2>4. connected' \in BOOLEAN
    BY <1>4 DEF ProfileSwitchFails
  <2>3. UNCHANGED <<where, admin, listVars, detailVars, loads, ticks, opening, switchMsgs>>
    BY <1>4 DEF ProfileSwitchFails
  <2> QED BY <2>1, <2>2, <2>3, <2>4 DEF TypeOK, where, listVars, detailVars
<1>5. CASE Tick
  <2>1. loads' \in [Loads -> Nat]
    BY <1>5, IssueType DEF Tick, TypeOK
  <2>2. \A l \in Loads : loads'[l] > 0 => l.client <= admin
    BY <1>1, <1>5, IssueType DEF Tick, LoadsOf, TypeOK
  <2>3. ticks' \in Nat
    BY <1>5 DEF Tick, TypeOK
  <2> QED BY <1>5, <2>1, <2>2, <2>3
          DEF Tick, TypeOK, where, clientVars, listVars, detailVars
<1> QED BY <1>2, <1>3, <1>4, <1>5

LEMMA LoadType ==
    ASSUME TypeOK, NEW l \in Loads, LoadReturns(l)
    PROVE  TypeOK'
<1>1. loads[l] > 0 /\ loads' = Done(l)
  BY DEF LoadReturns, ListLoaded, DetailLoaded, LoadedIgnored, LoadFails
<1>2. loads' \in [Loads -> Nat] /\ \A m \in Loads : loads'[m] > 0 => m.client <= admin
  BY <1>1, DoneType DEF TypeOK
<1>3. l.client \in 0..admin
  BY <1>1 DEF TypeOK, Loads, ListLoads, DetailLoads, Clients
<1>4. CASE ListLoaded(l)
  <2>1. shown' \in [Lists -> 0..admin]
    BY <1>3, <1>4 DEF ListLoaded, TypeOK
  <2>2. errored' \subseteq Lists
    BY <1>4 DEF ListLoaded, TypeOK
  <2>4. ticks' \in Nat
    BY <1>4 DEF ListLoaded, TypeOK
  <2>3. UNCHANGED <<where, clientVars, detailVars, opening, switchMsgs, profileMsgs>>
    BY <1>4 DEF ListLoaded
  <2> QED BY <1>2, <2>1, <2>2, <2>3, <2>4 DEF TypeOK, where, clientVars, detailVars
<1>5. CASE DetailLoaded(l)
  <2>1. l.topic \in Topics
    BY <1>5, Names DEF DetailLoaded, Loads, ListLoads, DetailLoads
  <2> QED BY <1>2, <1>5, <2>1 DEF DetailLoaded, TypeOK, where, clientVars, listVars
<1>6. CASE LoadedIgnored(l)
  BY <1>2, <1>6 DEF LoadedIgnored, TypeOK, where, clientVars, listVars, detailVars
<1>7. CASE LoadFails(l)
  BY <1>2, <1>7 DEF LoadFails, TypeOK, where
<1> QED BY <1>4, <1>5, <1>6, <1>7 DEF LoadReturns

LEMMA TypeStep == TypeOK /\ [Next]_vars => TypeOK'
<1> SUFFICES ASSUME TypeOK, [Next]_vars PROVE TypeOK'
  OBVIOUS
<1>1. ASSUME NEW t \in Topics, RunOpen(t) PROVE TypeOK'
  BY <1>1 DEF RunOpen, TypeOK, where, clientVars, listVars
<1>2. CASE UNCHANGED vars
  BY <1>2 DEF vars, where, clientVars, listVars, detailVars, queues, TypeOK
<1> QED BY <1>1, <1>2, KeyType, DeliverType, LoadType DEF Next

\* Every reachable state has its type: in particular the detail view is never
\* shown, nor about to be, without a topic to load.
THEOREM TypeCorrect == Spec => []TypeOK
<1> QED BY InitType, TypeStep, PTL DEF Spec

-----------------------------------------------------------------------------
(* Invariants of the refresh chains, the detail view and the clients.      *)
(* Each is inductive together with TypeOK.                                 *)

\* A switch of view starts the load of a list view, or all loads of the detail view.
LEMMA SwitchViewLoads ==
    ASSUME TypeOK, NEW v \in Views, NEW c \in Clients, SwitchView(v, c),
           v = "detail" => target # None
    PROVE  /\ view' = v
           /\ v \in Lists => Loading(v)'
           /\ v = "detail" => \A k \in DetailKinds : DetailLoading(k)'
<1>1. view' = v
  BY DEF SwitchView
<1>2. ASSUME v \in Lists PROVE Loading(v)'
  <2>1. ListLoad(v, c) \in Loads /\ ListLoad(v, c) \in LoadsOf(v, c)
    BY <1>2, ListLoadType
  <2>2. loads'[ListLoad(v, c)] > 0
    BY <2>1, IssueType DEF SwitchView, TypeOK
  <2> QED BY <2>2 DEF Loading
<1>3. ASSUME v = "detail", NEW k \in DetailKinds PROVE DetailLoading(k)'
  <2> DEFINE l == [kind |-> k, client |-> c, topic |-> target]
  <2>1. l \in DetailLoads /\ l \in Loads /\ l \in LoadsOf(v, c)
    BY <1>3 DEF DetailLoads, Loads, LoadsOf, TypeOK
  <2>2. loads'[l] > 0
    BY <2>1, IssueType DEF SwitchView, TypeOK
  <2> QED BY <2>1, <2>2 DEF DetailLoading
<1> QED BY <1>1, <1>2, <1>3

\* The steps that switch the view, and the one that may change the client.
Switching == \E v \in Views : \E c \in Clients :
    /\ SwitchView(v, c)
    /\ v = "detail" => target # None
    /\ errored' = errored
    /\ \/ connected' = connected
       \/ v = "topics" /\ connected' = TRUE

\* Steps after which nothing of a view or a load is less than before.
Quiet ==
    /\ UNCHANGED <<view, connected, errored, detail, detailErr, cleared, ticks>>
    /\ loads' \in [Loads -> Nat]
    /\ \A l \in Loads : loads[l] > 0 => loads'[l] > 0

\* Every step is a switch of view, a quiet step, or one of five others.
LEMMA StepCases ==
    ASSUME TypeOK, [Next]_vars
    PROVE  \/ Switching \/ Quiet
           \/ KeyRefresh \/ Tick \/ ProfileSwitchFails
           \/ \E k \in DetailKinds : KeyReload(k)
           \/ \E l \in Loads : LoadReturns(l)
<1>1. admin \in Clients
  BY DEF TypeOK
<1>2. ASSUME NEW v \in Views, RunCommand(v) PROVE Switching
  <2>1. v = "detail" => prev = "detail"
    BY <1>2, Names DEF RunCommand, HelpTarget
  <2>2. v = "detail" => target # None
    BY <2>1 DEF TypeOK
  <2>3. SwitchView(v, admin) /\ errored' = errored /\ connected' = connected
    BY <1>2 DEF RunCommand, listVars, clientVars
  <2> QED BY <1>1, <2>2, <2>3 DEF Switching
<1>3. CASE KeyHelp
  <2>1. HelpTarget \in Views /\ (HelpTarget = "detail" => prev = "detail")
    BY Names DEF HelpTarget, TypeOK
  <2>2. HelpTarget = "detail" => target # None
    BY <2>1 DEF TypeOK
  <2>3. SwitchView(HelpTarget, admin) /\ errored' = errored /\ connected' = connected
    BY <1>3 DEF KeyHelp, listVars, clientVars
  <2> QED BY <1>1, <2>1, <2>2, <2>3 DEF Switching
<1>4. CASE KeyBack
  <2> DEFINE v == IF view = "help" THEN prev ELSE "topics"
  <2>1. v \in Views /\ (v = "detail" => prev = "detail")
    BY Names DEF TypeOK
  <2>2. v = "detail" => target # None
    BY <2>1 DEF TypeOK
  <2>3. SwitchView(v, admin) /\ errored' = errored /\ connected' = connected
    BY <1>4 DEF KeyBack, listVars, clientVars
  <2> HIDE DEF v
  <2> QED BY <1>1, <2>1, <2>2, <2>3 DEF Switching
<1>5. CASE DeliverSwitch
  <2>1. SwitchView("detail", admin) /\ errored' = errored /\ connected' = connected
        /\ target # None
    BY <1>5 DEF DeliverSwitch, listVars, clientVars, TypeOK
  <2> QED BY <1>1, <2>1, Names DEF Switching
<1>6. CASE ProfileSwitched
  <2>1. SwitchView("topics", admin + 1) /\ errored' = errored /\ connected' = TRUE
        /\ admin + 1 \in Clients
    BY <1>1, <1>6 DEF ProfileSwitched, listVars, Clients
  <2> QED BY <2>1, Names DEF Switching
<1>7. CASE KeyCommand \/ CommandEnds \/ KeyEnterContext \/ UNCHANGED vars
  BY <1>7 DEF KeyCommand, CommandEnds, KeyEnterContext, Quiet, TypeOK, vars, where,
     clientVars, listVars, detailVars, queues
<1>8. ASSUME NEW t \in Topics, KeyEnterTopic(t) \/ RunOpen(t) PROVE Quiet
  BY <1>8 DEF KeyEnterTopic, RunOpen, Quiet, TypeOK, where, clientVars, listVars,
     detailVars
<1> QED BY <1>2, <1>3, <1>4, <1>5, <1>6, <1>7, <1>8 DEF Next, Key

\* A list view goes on loading if the load that returns is not its own.
LEMMA OtherLoadReturns ==
    ASSUME TypeOK, NEW l \in Loads, LoadReturns(l), NEW v \in Lists,
           l.kind # v, Loading(v)
    PROVE  Loading(v)'
<1>1. PICK c \in Clients : loads[ListLoad(v, c)] > 0
  BY DEF Loading
<1>2. ListLoad(v, c) \in Loads \ {l}
  BY ListLoadType DEF ListLoad
<1>3. loads' = Done(l) /\ loads[l] > 0
  BY DEF LoadReturns, ListLoaded, DetailLoaded, LoadedIgnored, LoadFails
<1>4. loads'[ListLoad(v, c)] > 0
  BY <1>1, <1>2, <1>3, DoneType
<1> QED BY <1>4 DEF Loading

\* A load of a list view goes on through a quiet step.
LEMMA QuietLoading ==
    ASSUME Quiet, NEW v \in Lists, Loading(v)
    PROVE  Loading(v)'
<1>1. PICK c \in Clients : loads[ListLoad(v, c)] > 0
  BY DEF Loading
<1>2. loads'[ListLoad(v, c)] > 0
  BY <1>1, ListLoadType DEF Quiet
<1> QED BY <1>2 DEF Loading

\* Starting the load of the view shown leaves it loading.
LEMMA IssueLoading ==
    ASSUME TypeOK, NEW v \in Lists, loads' = Issue(loads, LoadsOf(v, admin))
    PROVE  Loading(v)'
<1>1. ListLoad(v, admin) \in Loads /\ ListLoad(v, admin) \in LoadsOf(v, admin)
  BY ListLoadType DEF TypeOK
<1>2. loads'[ListLoad(v, admin)] > 0
  BY <1>1, IssueType DEF TypeOK
<1> QED BY <1>2 DEF Loading, TypeOK

RefreshInv == RefreshAlive /\ PauseIsSaid

LEMMA RefreshStep == TypeOK /\ RefreshInv /\ [Next]_vars => RefreshInv'
<1> SUFFICES ASSUME TypeOK, RefreshInv, [Next]_vars PROVE RefreshInv'
  OBVIOUS
<1>1. CASE Switching
  <2>1. PICK v \in Views, c \in Clients :
           /\ SwitchView(v, c)
           /\ v = "detail" => target # None
           /\ errored' = errored
    BY <1>1 DEF Switching
  <2>2. view' = v /\ (v \in Lists => Loading(v)')
    BY <2>1, SwitchViewLoads
  <2>3. errored' \subseteq Lists
    BY <2>1 DEF TypeOK
  <2>4. view' \in Lists => Loading(view)'
    BY <2>2
  <2> QED BY <2>3, <2>4 DEF RefreshInv, RefreshAlive, PauseIsSaid
<1>2. CASE Quiet
  <2>1. view \in Lists /\ Loading(view) => Loading(view)'
    <3>1. \A v \in Lists : Loading(v) => Loading(v)'
      BY <1>2, QuietLoading
    <3> QED BY <1>2, <3>1 DEF Quiet, Loading
  <2> QED BY <1>2, <2>1 DEF Quiet, RefreshInv, RefreshAlive, PauseIsSaid, TypeOK
<1>3. CASE KeyRefresh
  <2>1. view' = view /\ view \in Lists /\ Loading(view)'
    <3>1. view \in Lists /\ view' = view /\ loads' = Issue(loads, LoadsOf(view, admin))
      BY <1>3 DEF KeyRefresh, where
    <3>2. \A v \in Lists : loads' = Issue(loads, LoadsOf(v, admin)) => Loading(v)'
      BY IssueLoading
    <3> QED BY <3>1, <3>2 DEF Loading
  <2> QED BY <2>1 DEF RefreshInv, RefreshAlive, PauseIsSaid
<1>4. CASE Tick
  <2>1. UNCHANGED <<view, errored, connected>>
    BY <1>4 DEF Tick, where, listVars, clientVars
  <2>2. CASE view \in Lists \ errored
    <3>1. loads' = Issue(loads, LoadsOf(view, admin))
      BY <1>4, <2>2 DEF Tick
    <3>2. \A v \in Lists : loads' = Issue(loads, LoadsOf(v, admin)) => Loading(v)'
      BY IssueLoading
    <3>3. Loading(view)'
      BY <2>1, <2>2, <3>1, <3>2 DEF Loading
    <3> QED BY <3>3 DEF RefreshInv, RefreshAlive, PauseIsSaid
  <2>3. CASE view \notin Lists \ errored
    <3>1. loads' = loads
      BY <1>4, <2>3 DEF Tick
    <3> QED BY <2>1, <2>3, <3>1 DEF RefreshInv, RefreshAlive, PauseIsSaid, Loading
  <2> QED BY <2>2, <2>3
<1>5. CASE ProfileSwitchFails
  BY <1>5 DEF ProfileSwitchFails, RefreshInv, RefreshAlive, PauseIsSaid, Loading,
     where, listVars
<1>6. ASSUME NEW k \in DetailKinds, KeyReload(k) PROVE RefreshInv'
  BY <1>6, Names DEF KeyReload, RefreshInv, RefreshAlive, PauseIsSaid, where, listVars,
     TypeOK
<1>7. ASSUME NEW l \in Loads, LoadReturns(l) PROVE RefreshInv'
  <2>1. UNCHANGED view
    BY <1>7 DEF LoadReturns, ListLoaded, DetailLoaded, LoadedIgnored, LoadFails, where
  <2>2. view \in Lists /\ Loading(view) /\ l.kind # view => Loading(view)'
    <3>1. \A v \in Lists : l.kind # v /\ Loading(v) => Loading(v)'
      BY <1>7, OtherLoadReturns
    <3> QED BY <2>1, <3>1 DEF Loading
  <2>3. CASE ListLoaded(l)
    <3>1. ticks' > 0 /\ view \notin errored'
      BY <2>3 DEF ListLoaded, TypeOK
    <3> QED BY <2>1, <3>1 DEF RefreshInv, RefreshAlive, PauseIsSaid
  <2>4. CASE DetailLoaded(l)
    BY <2>1, <2>4, Names DEF DetailLoaded, RefreshInv, RefreshAlive, PauseIsSaid,
       listVars, TypeOK
  <2>5. CASE LoadedIgnored(l)
    <3>1. UNCHANGED <<errored, connected, ticks>>
      BY <2>5 DEF LoadedIgnored, listVars, clientVars
    <3>2. view \in Lists => l.kind # view
      BY <2>5 DEF LoadedIgnored
    <3> QED BY <2>1, <2>2, <3>1, <3>2 DEF RefreshInv, RefreshAlive, PauseIsSaid, TypeOK
  <2>6. CASE LoadFails(l)
    <3>1. view \in Lists => view \in errored'
      BY <2>6 DEF LoadFails
    <3>2. ~connected'
      BY <2>6 DEF LoadFails
    <3> QED BY <2>1, <3>1, <3>2 DEF RefreshInv, RefreshAlive, PauseIsSaid
  <2> QED BY <1>7, <2>3, <2>4, <2>5, <2>6 DEF LoadReturns
<1> QED BY <1>1, <1>2, <1>3, <1>4, <1>5, <1>6, <1>7, StepCases

LEMMA RefreshInit == Init => RefreshInv
<1> SUFFICES ASSUME Init PROVE RefreshInv
  OBVIOUS
<1>1. ListLoad("topics", 1) \in Loads /\ 1 \in Clients
  BY ListLoadType DEF Clients
<1>2. loads[ListLoad("topics", 1)] > 0
  BY <1>1 DEF Init, Issue
<1> QED BY <1>1, <1>2 DEF Init, RefreshInv, RefreshAlive, PauseIsSaid, Loading

\* A list view that is shown and not paused always has a load or a tick coming.
THEOREM RefreshGoesOn == Spec => []RefreshAlive
<1>1. RefreshInv => RefreshAlive
  BY DEF RefreshInv
<1> QED BY <1>1, RefreshInit, RefreshStep, TypeCorrect, PTL DEF Spec

\* A paused list view never stands under a "connected" header with nothing on
\* its way to change either.
THEOREM PauseShows == Spec => []PauseIsSaid
<1>1. RefreshInv => PauseIsSaid
  BY DEF RefreshInv
<1> QED BY <1>1, RefreshInit, RefreshStep, TypeCorrect, PTL DEF Spec

LEMMA ClientsStep == TypeOK /\ ClientsAccounted /\ [Next]_vars => ClientsAccounted'
<1> SUFFICES ASSUME TypeOK, ClientsAccounted, [Next]_vars PROVE ClientsAccounted'
  OBVIOUS
<1>1. CASE UNCHANGED clientVars
  BY <1>1 DEF ClientsAccounted, clientVars
<1>2. CASE ProfileSwitched
  <2>1. admin \in Nat /\ admin' = admin + 1 /\ closed' = closed \union {admin}
    BY <1>2 DEF ProfileSwitched, TypeOK, Clients
  <2>2. 1..admin' = 1..admin \union {admin'}
    BY <2>1 DEF TypeOK, Clients
  <2>3. admin' \notin closed'
    BY <2>1 DEF TypeOK, Clients
  <2> QED BY <2>1, <2>2, <2>3 DEF ClientsAccounted
<1>3. CASE ProfileSwitchFails
  BY <1>3 DEF ProfileSwitchFails, ClientsAccounted
<1>4. ASSUME NEW l \in Loads, LoadFails(l) PROVE ClientsAccounted'
  BY <1>4 DEF LoadFails, ClientsAccounted
<1>5. CASE Key
  BY <1>1, <1>5 DEF Key, KeyCommand, CommandEnds, KeyHelp, KeyBack, KeyRefresh,
     KeyEnterContext, RunCommand, KeyReload, KeyEnterTopic
<1>6. ASSUME NEW t \in Topics, RunOpen(t) PROVE ClientsAccounted'
  BY <1>1, <1>6 DEF RunOpen
<1>7. CASE DeliverSwitch \/ Tick
  BY <1>1, <1>7 DEF DeliverSwitch, Tick
<1>8. ASSUME NEW l \in Loads, ListLoaded(l) \/ DetailLoaded(l) \/ LoadedIgnored(l)
      PROVE  ClientsAccounted'
  BY <1>1, <1>8 DEF ListLoaded, DetailLoaded, LoadedIgnored
<1>9. CASE UNCHANGED vars
  BY <1>1, <1>9 DEF vars
<1> QED BY <1>2, <1>3, <1>4, <1>5, <1>6, <1>7, <1>8, <1>9 DEF Next, LoadReturns

\* No admin client leaks over any number of profile switches, failed ones
\* included, and "connected" is never said of a closed one.
THEOREM ClientsKept == Spec => []ClientsAccounted
<1>1. Init => ClientsAccounted
  BY DEF Init, ClientsAccounted
<1> QED BY <1>1, ClientsStep, TypeCorrect, PTL DEF Spec

\* A detail load goes on if it is not the one that returns.
LEMMA OtherDetailReturns ==
    ASSUME TypeOK, NEW l \in Loads, LoadReturns(l), NEW k \in DetailKinds,
           l.kind # k, DetailLoading(k)
    PROVE  DetailLoading(k)'
<1>1. PICK m \in DetailLoads : m.kind = k /\ loads[m] > 0
  BY DEF DetailLoading
<1>2. m \in Loads \ {l}
  BY <1>1 DEF Loads
<1>3. loads' = Done(l) /\ loads[l] > 0
  BY DEF LoadReturns, ListLoaded, DetailLoaded, LoadedIgnored, LoadFails
<1>4. loads'[m] > 0
  BY <1>1, <1>2, <1>3, DoneType
<1> QED BY <1>1, <1>4 DEF DetailLoading

\* A step that ends no load ends none of the detail view's.
LEMMA DetailGoesOn ==
    ASSUME \A l \in Loads : loads[l] > 0 => loads'[l] > 0,
           NEW k, DetailLoading(k)
    PROVE  DetailLoading(k)'
BY DEF DetailLoading, Loads

\* A load of ACLs never fails, so that no error stands in for them; an error that
\* stands in for the groups goes only when a describe clears it.
TabsInv ==
    view = "detail" =>
        /\ detail["describe"] = None /\ ~detailErr => DetailLoading("describe")
        /\ detail["acls"] = None => DetailLoading("acls")
        /\ detail["groupsOf"] = None /\ ~detailErr /\ ~cleared => DetailLoading("groupsOf")

LEMMA DetailStep == TypeOK /\ TabsInv /\ [Next]_vars => TabsInv'
<1> SUFFICES ASSUME TypeOK, TabsInv, [Next]_vars PROVE TabsInv'
  OBVIOUS
<1> DetailKinds = {"describe", "groupsOf", "acls"}
  BY DEF DetailKinds
<1>1. CASE Switching
  <2>1. PICK v \in Views, c \in Clients :
           SwitchView(v, c) /\ (v = "detail" => target # None)
    BY <1>1 DEF Switching
  <2> QED BY <2>1, SwitchViewLoads DEF TabsInv
<1>2. CASE Quiet
  <2>1. \A k : DetailLoading(k) => DetailLoading(k)'
    BY <1>2, DetailGoesOn DEF Quiet
  <2> QED BY <1>2, <2>1 DEF Quiet, TabsInv
<1>3. CASE KeyRefresh
  BY <1>3, Names DEF KeyRefresh, TabsInv, where
<1>4. CASE Tick
  <2>1. UNCHANGED <<view, detail, detailErr, cleared>>
    BY <1>4 DEF Tick, where, detailVars
  <2>2. view = "detail" => loads' = loads
    BY <1>4, Names DEF Tick
  <2> QED BY <2>1, <2>2 DEF TabsInv, DetailLoading
<1>5. CASE ProfileSwitchFails
  BY <1>5 DEF ProfileSwitchFails, TabsInv, DetailLoading, where, detailVars
<1>6. ASSUME NEW j \in DetailKinds, KeyReload(j) PROVE TabsInv'
  <2> DEFINE l == [kind |-> j, client |-> admin, topic |-> target]
  <2>1. l \in DetailLoads /\ l \in Loads
    BY <1>6 DEF KeyReload, DetailLoads, Loads, TypeOK
  <2>2. loads' = Issue(loads, {l})
    BY <1>6 DEF KeyReload
  <2>3. DetailLoading(j)'
    <3>1. loads'[l] > 0
      BY <2>1, <2>2, IssueType DEF TypeOK
    <3> QED BY <2>1, <3>1 DEF DetailLoading
  <2>4. \A k : DetailLoading(k) => DetailLoading(k)'
    <3>1. \A m \in Loads : loads[m] > 0 => loads'[m] > 0
      BY <2>2, IssueType DEF TypeOK
    <3> QED BY <3>1, DetailGoesOn
  <2>5. \A k \in DetailKinds \ {j} : detail'[k] = detail[k]
    BY <1>6 DEF KeyReload, TypeOK
  <2>6. UNCHANGED <<view, detailErr, cleared>> /\ view = "detail"
    BY <1>6 DEF KeyReload, where
  <2> QED BY <2>3, <2>4, <2>5, <2>6 DEF TabsInv
<1>7. ASSUME NEW l \in Loads, LoadReturns(l) PROVE TabsInv'
  <2>1. UNCHANGED view
    BY <1>7 DEF LoadReturns, ListLoaded, DetailLoaded, LoadedIgnored, LoadFails, where
  <2>2. \A k \in DetailKinds : l.kind # k /\ DetailLoading(k) => DetailLoading(k)'
    BY <1>7, OtherDetailReturns
  <2>3. CASE ListLoaded(l)
    BY <2>1, <2>3, Names DEF ListLoaded, TabsInv
  <2>4. CASE DetailLoaded(l)
    <3>1. l.topic # None /\ l.kind \in DetailKinds
      BY <2>4, Names DEF DetailLoaded, Loads, ListLoads, DetailLoads
    <3>2. detail'[l.kind] # None /\ \A k \in DetailKinds \ {l.kind} : detail'[k] = detail[k]
      BY <2>4, <3>1 DEF DetailLoaded, TypeOK
    <3>3. /\ l.kind # "describe" => detailErr' = detailErr
          /\ ~detailErr' /\ ~cleared' => ~detailErr /\ ~cleared
      BY <2>4 DEF DetailLoaded, TypeOK
    <3> QED BY <2>1, <2>2, <3>1, <3>2, <3>3 DEF TabsInv
  <2>5. CASE LoadedIgnored(l)
    <3>1. UNCHANGED <<detail, detailErr, cleared>>
      BY <2>5 DEF LoadedIgnored, detailVars
    <3>2. view = "detail" => l.kind \notin DetailKinds
      BY <2>5, Names DEF LoadedIgnored
    <3> QED BY <2>1, <2>2, <3>1, <3>2 DEF TabsInv
  <2>6. CASE LoadFails(l)
    <3>1. detail' = detail /\ l.kind # "acls"
      BY <2>6 DEF LoadFails
    <3>2. view = "detail" => detailErr'
      BY <2>6 DEF LoadFails
    <3> QED BY <2>1, <2>2, <3>1, <3>2 DEF TabsInv
  <2> QED BY <1>7, <2>3, <2>4, <2>5, <2>6 DEF LoadReturns
<1> QED BY <1>1, <1>2, <1>3, <1>4, <1>5, <1>6, <1>7, StepCases

\* No tab of the detail view says "loading" with nothing under way to end it, for any
\* number of topics opened and left in any order, but the consumers tab after a
\* describe cleared an error.
THEOREM TabsGetThere == Spec => []TabsAlive
<1>1. Init => TabsInv
  BY DEF Init, TabsInv
<1>2. TabsInv => TabsAlive
  BY DEF TabsInv, TabsAlive, TabShows, DetailKinds
<1> QED BY <1>1, <1>2, DetailStep, TypeCorrect, PTL DEF Spec
=============================================================================
