---------------------------- MODULE LiveTailFeed ----------------------------
(***************************************************************************)
(* LiveTail implements TailFeed: the offsets in the goroutine's batch, in  *)
(* msgCh and in messages under way are exactly those fetched and not yet   *)
(* handled, so the last handled one is below the first of them.            *)
(***************************************************************************)
EXTENDS LiveTail

Handled(s) ==
    IF Pending(s) = {} THEN fetched[s]
    ELSE (CHOOSE o \in Pending(s) : \A p \in Pending(s) : o <= p) - 1

Feed == INSTANCE TailFeed WITH
    watching <- view = "detail" /\ ~paused,
    handled  <- [s \in Sessions |-> Handled(s)]

\* The tail hands every record a session fetched to the view once and in
\* order, and shows it if the user is watching, as TailFeed specifies.
ImplementsFeed == Feed!Spec
=============================================================================
