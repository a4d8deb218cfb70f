------------------------------ MODULE TailFeed ------------------------------
(***************************************************************************)
(* What a tail promises, with no channel, pump or message in it: each      *)
(* session is a feed of consecutive offsets; the records it fetched are    *)
(* handled one by one, in order and each exactly once; one that is handled *)
(* while the user is watching becomes the newest line.  A session that     *)
(* forked (got a second pump) only promises to handle what it fetched.     *)
(***************************************************************************)
EXTENDS Naturals, Sequences

CONSTANTS Sessions, MaxLines, MaxOffset

VARIABLES
    watching,  \* the detail view is shown and not paused
    fetched,   \* last offset the session has fetched
    handled,   \* every fetched offset up to this one has been handled
    forked,    \* sessions whose records may overtake each other
    lines      \* what is shown: session and offset, offset 0 for an error

vars == <<watching, fetched, handled, forked, lines>>

Init ==
    /\ watching = FALSE
    /\ fetched = [s \in Sessions |-> 0] /\ handled = [s \in Sessions |-> 0]
    /\ forked = {} /\ lines = <<>>

Shows(line) ==
    LET all == Append(lines, line)
    IN  lines' = IF Len(all) > MaxLines THEN Tail(all) ELSE all

Position(s) ==
    /\ fetched[s] = 0
    /\ \E n \in 0..MaxOffset : /\ fetched' = [fetched EXCEPT ![s] = n]
                      /\ handled' = [handled EXCEPT ![s] = n]
    /\ UNCHANGED <<watching, forked, lines>>

Fetch(s) ==
    /\ \E n \in 0..MaxOffset : n > fetched[s] /\ fetched' = [fetched EXCEPT ![s] = n]
    /\ UNCHANGED <<watching, handled, forked, lines>>

\* The session is stopped: what it has not handed over yet is forgotten.
Cancel(s) ==
    /\ \E n \in handled[s]..fetched[s] : fetched' = [fetched EXCEPT ![s] = n]
    /\ UNCHANGED <<watching, handled, forked, lines>>

HandleNext(s) ==
    /\ s \notin forked
    /\ handled[s] < fetched[s]
    /\ handled' = [handled EXCEPT ![s] = @ + 1]
    /\ IF watching THEN Shows([sess |-> s, off |-> handled[s] + 1])
                   ELSE UNCHANGED lines
    /\ forked \subseteq forked'
    /\ UNCHANGED <<watching, fetched>>

HandleAny(s) ==
    /\ s \in forked
    /\ \E n \in handled[s]..fetched[s] : handled' = [handled EXCEPT ![s] = n]
    /\ IF watching
       THEN \E o \in handled[s]+1..fetched[s] : Shows([sess |-> s, off |-> o])
       ELSE UNCHANGED lines
    /\ forked \subseteq forked'
    /\ UNCHANGED <<watching, fetched>>

ShowError ==
    /\ \E s \in Sessions \union {0} : Shows([sess |-> s, off |-> 0])
    /\ watching' \in BOOLEAN
    /\ forked \subseteq forked'
    /\ UNCHANGED <<fetched, handled>>

Clear ==
    /\ lines' = <<>>
    /\ UNCHANGED <<watching, fetched, handled, forked>>

Watch ==
    /\ watching' \in BOOLEAN
    /\ UNCHANGED <<fetched, handled, forked, lines>>

Next ==
    \/ \E s \in Sessions : \/ Position(s) \/ Fetch(s) \/ Cancel(s)
                           \/ HandleNext(s) \/ HandleAny(s)
    \/ ShowError \/ Clear \/ Watch

Spec == Init /\ [][Next]_vars
=============================================================================
