------------------------------ MODULE Producer -------------------------------
(***************************************************************************)
(* What a program may expect of rp.Producer (pkg/rp/rp.go), whichever of   *)
(* its implementations it holds: a message is settled once (its callback   *)
(* has run, or its synchronous Publish is about to return), and when Flush *)
(* returns nil the messages published before it are settled.               *)
(***************************************************************************)
EXTENDS FiniteSets

CONSTANTS
    Msgs,       \* messages a program may publish
    Callers     \* its goroutines

VARIABLES
    published,  \* messages handed to Publish or PublishAsync
    returned,   \* ... whose call has returned
    settled,    \* ... whose callback or synchronous Publish is done
    due,        \* what the Flush under way of each goroutine has to wait for
    flushed     \* what some Flush that returned nil has waited for

vars == <<published, returned, settled, due, flushed>>

Init ==
    /\ published = {} /\ returned = {} /\ settled = {} /\ flushed = {}
    /\ due = [c \in Callers |-> {}]

Publish(m) ==
    /\ m \notin published
    /\ published' = published \union {m}
    /\ returned' \in {returned, returned \union {m}}
    /\ settled' \in {settled, settled \union {m}}
    /\ UNCHANGED <<due, flushed>>

Return(m) ==
    /\ m \in published \ returned
    /\ returned' = returned \union {m}
    /\ settled' \in {settled, settled \union {m}}
    /\ UNCHANGED <<published, due, flushed>>

Settle(m) ==
    /\ m \in published \ settled
    /\ settled' = settled \union {m}
    /\ UNCHANGED <<published, returned, due, flushed>>

FlushBegins(c) ==
    /\ due' = [due EXCEPT ![c] = returned]
    /\ UNCHANGED <<published, returned, settled, flushed>>

\* A Flush that need not wait begins and ends in one step.
FlushEnds(c) ==
    \E waitedFor \in {due[c], returned} :
        /\ waitedFor \subseteq settled
        /\ flushed' = flushed \union waitedFor
        /\ due' = [due EXCEPT ![c] = {}]
        /\ UNCHANGED <<published, returned, settled>>

FlushGivesUp(c) ==
    /\ due' = [due EXCEPT ![c] = {}]
    /\ UNCHANGED <<published, returned, settled, flushed>>

Next ==
    \/ \E m \in Msgs : Publish(m) \/ Return(m) \/ Settle(m)
    \/ \E c \in Callers : FlushBegins(c) \/ FlushEnds(c) \/ FlushGivesUp(c)

Spec == Init /\ [][Next]_vars
=============================================================================
