------------------------------ MODULE TopicTree ------------------------------
(***************************************************************************)
(* The topics view: the tree of topic names it builds from every load, the *)
(* branches the user opened, the row filter and the rows these give.       *)
(*                                                                         *)
(* Data: a topic name is the sequence of its dot-separated segments, none  *)
(* of them empty; a segment is one letter, a number in the order of        *)
(* sort.Strings.  A node is the path to it.  Loads that fail, the keys     *)
(* App.handleKey takes and enter on a topic are in AppShell.  Case,        *)
(* surrounding blanks, the table's cursor and the columns are left out.    *)
(***************************************************************************)
EXTENDS Integers, Sequences, FiniteSets, SequencesExt

CONSTANTS
    Names,      \* names a topic can have
    Dot,        \* the separator, a character of a name's text
    Chars,      \* characters the user types into the filter
    MaxQuery    \* bound: length of the filter

ASSUME NamesAssumption == Names \subseteq Seq(Nat) \ {<<>>} /\ Dot \notin Nat
ASSUME FilterAssumption == MaxQuery \in Nat

FiniteTopics == {ts \in SUBSET Names : IsFiniteSet(ts)}

VARIABLES
    topics,    \* topics the tree was built from
    expanded,  \* topicTree.expanded, a function on the paths it has an entry for
    active,    \* filter.active
    query,     \* filter.query
    rows,      \* TopicsView.rows
    collapsed  \* history: O was pressed since the last load

filterVars == <<active, query>>
vars == <<topics, expanded, filterVars, rows, collapsed>>

-----------------------------------------------------------------------------
(* The tree *)

Root == <<>>

\* The paths to ts, and to what is above them.
Upwards(ts) == UNION {Prefixes(t) : t \in ts}

\* insert: a topic's node and the nodes above it.  A node with a topic is a
\* leaf, also when the name of another topic goes on from it.
Nodes(ts) == Upwards(ts) \ {Root}
Branches(ts) == Nodes(ts) \ ts

\* childKeys: in the order of the segments.
Children(ts, n) ==
    LET below == {c \in Nodes(ts) : Front(c) = n}
    IN  CHOOSE keys \in [1..Cardinality(below) -> below] :
          \A i, j \in DOMAIN keys : i < j => Last(keys[i]) < Last(keys[j])

\* The walk does not go below a leaf.
WalkVisible(ts, open) ==
    LET walk[n \in Nodes(ts) \union {Root}] ==
          (IF n = Root THEN <<>> ELSE <<n>>)
            \o IF n \in ts \/ n \notin open \union {Root} THEN <<>>
               ELSE LET keys == Children(ts, n)
                    IN  FlattenSeq([i \in DOMAIN keys |-> walk[keys[i]]])
    IN  walk[Root]

\* The dotted name, and strings.Contains.
Text(t) == Tail(FlattenSeq([i \in DOMAIN t |-> <<Dot, t[i]>>]))
Matches(t, q) ==
    \E i \in 1..Len(Text(t)) : IsPrefix(q, SubSeq(Text(t), i, Len(Text(t))))

\* Topics walkMatch finds: like walkVisible, it stops at a leaf.
Matched(ts, q) ==
    LET found[n \in Nodes(ts) \union {Root}] ==
          IF n \in ts THEN {t \in {n} : Matches(t, q)}
          ELSE UNION {found[c] : c \in ToSet(Children(ts, n))}
    IN  found[Root]

Kept(rs, keep) == FoldLeft(LAMBDA out, n : IF n \in keep THEN Append(out, n) ELSE out,
                           <<>>, rs)

\* Mutant: the branches above a match are opened but not kept.
VisibleRowsFlat(ts, open, q) ==
    IF q = <<>> THEN WalkVisible(ts, open)
    ELSE LET matched == Matched(ts, q)
             above == Upwards(matched) \ matched
         IN  Kept(WalkVisible(ts, above), matched)

\* With a filter the branches above the matches are open, and only they and the
\* matches are kept.
VisibleRows(ts, open, q) ==
    IF q = <<>> THEN WalkVisible(ts, open)
    ELSE LET matched == Matched(ts, q)
             above == Upwards(matched) \ matched
         IN  Kept(WalkVisible(ts, above), matched \union above)

-----------------------------------------------------------------------------
(* TopicsView *)

Open == {p \in DOMAIN expanded : expanded[p]}

\* Entries, and for what they say nothing of others.
Over(entries, others) ==
    [p \in DOMAIN entries \union DOMAIN others |->
       IF p \in DOMAIN entries THEN entries[p] ELSE others[p]]

\* Every variable has its type, and the rows are nodes of the present tree.
TypeOK ==
    /\ topics \in FiniteTopics
    /\ DOMAIN expanded \subseteq Nodes(Names)
    /\ \A p \in DOMAIN expanded : expanded[p] \in BOOLEAN
    /\ active \in BOOLEAN
    /\ query \in Seq(Chars) /\ Len(query) <= MaxQuery
    /\ rows \in Seq(Nodes(topics))
    /\ collapsed \in BOOLEAN

Init ==
    /\ topics = {} /\ expanded = <<>> /\ rows = <<>>
    /\ active = FALSE /\ query = <<>> /\ collapsed = FALSE

RefreshRows == rows' = VisibleRows(topics', {p \in DOMAIN expanded' : expanded'[p]}, query')

\* The branches newTopicTree opens: those of the first level.
OpenAtFirst(ts) == [p \in {n \in Branches(ts) : Len(n) = 1} |-> TRUE]

\* Mutant: what is open at first prevails over what the user did.
LoadedOverrides(ts) ==
    /\ topics' = ts
    /\ expanded' = Over(OpenAtFirst(ts), expanded)
    /\ collapsed' = FALSE
    /\ UNCHANGED filterVars
    /\ RefreshRows

\* Mutant: the rows go on pointing into the old tree.
LoadedStale(ts) ==
    /\ topics' = ts
    /\ expanded' = Over(expanded, OpenAtFirst(ts))
    /\ collapsed' = FALSE
    /\ UNCHANGED <<filterVars, rows>>

\* topicsLoadedMsg: a new tree, on which the old entries are laid.
Loaded(ts) ==
    /\ topics' = ts
    /\ expanded' = Over(expanded, OpenAtFirst(ts))
    /\ collapsed' = FALSE
    /\ UNCHANGED filterVars
    /\ RefreshRows

\* Mutant: the rows are those of before the key.
ToggleStale(n) ==
    /\ ~active /\ n \in ToSet(rows) \ topics
    /\ expanded' = Over([p \in {n} |-> n \notin Open], expanded)
    /\ UNCHANGED <<topics, filterVars, rows, collapsed>>

\* enter on a branch.
Toggle(n) ==
    /\ ~active /\ n \in ToSet(rows) \ topics
    /\ expanded' = Over([p \in {n} |-> n \notin Open], expanded)
    /\ UNCHANGED <<topics, filterVars, collapsed>>
    /\ RefreshRows

\* o: also the branches below a leaf.
ExpandAll ==
    /\ ~active
    /\ expanded' = Over([n \in Branches(topics) |-> TRUE], expanded)
    /\ UNCHANGED <<topics, filterVars, collapsed>>
    /\ RefreshRows

\* O drops the entries, it does not make them FALSE.
CollapseAll ==
    /\ ~active
    /\ expanded' = <<>>
    /\ collapsed' = TRUE
    /\ UNCHANGED <<topics, filterVars>>
    /\ RefreshRows

\* / and esc both empty the filter.
FilterKey(on) ==
    /\ active = ~on
    /\ active' = on /\ query' = <<>>
    /\ UNCHANGED <<topics, expanded, collapsed>>
    /\ RefreshRows

FilterEnter ==
    /\ active
    /\ active' = FALSE
    /\ UNCHANGED <<topics, expanded, query, rows, collapsed>>

FilterType(q) ==
    /\ active
    /\ query' = q
    /\ UNCHANGED <<topics, expanded, active, collapsed>>
    /\ RefreshRows

FilterChar(c) == Len(query) < MaxQuery /\ FilterType(Append(query, c))
FilterBackspace == query # <<>> /\ FilterType(Front(query))

Next ==
    \/ \E ts \in FiniteTopics : Loaded(ts)
    \/ \E n \in Nodes(topics) : Toggle(n)
    \/ ExpandAll \/ CollapseAll
    \/ \E on \in BOOLEAN : FilterKey(on)
    \/ FilterEnter \/ FilterBackspace
    \/ \E c \in Chars : FilterChar(c)

Spec == Init /\ [][Next]_vars

-----------------------------------------------------------------------------
(* Properties *)

Above(n) == Prefixes(n) \ {Root, n}
Hidden == {t \in topics : Above(t) \intersect topics # {}}

\* The rows are a tree: none twice, each below its parent's row with only that
\* parent's other descendants in between, and siblings in order; this is what
\* the indentation of treeRows relies on, filtered or not.
RowsAreTree ==
    \A i \in DOMAIN rows :
        /\ Front(rows[i]) # Root => Front(rows[i]) \in ToSet(SubSeq(rows, 1, i - 1))
        /\ \A j \in 1..i-1 :
              /\ rows[j] # rows[i]
              /\ Front(rows[j]) = Front(rows[i]) => Last(rows[j]) < Last(rows[i])
              /\ IsPrefix(rows[j], rows[i]) =>
                    \A k \in j..i : IsPrefix(rows[j], rows[k])

\* Without a filter a node is shown exactly when every branch above it is open,
\* however tree, entries and filter got where they are; with one, exactly the
\* matching topics and the branches above them are.  A topic below another
\* topic's node is the exception: it is never shown.
RowsAreWhatIsOpen ==
    LET shown == IF query = <<>>
                 THEN {n \in Nodes(topics) : Above(n) \subseteq Open}
                 ELSE UNION {Above(t) \union {t} :
                                t \in {x \in topics \ Hidden : Matches(x, query)}}
    IN  ToSet(rows) = {n \in shown : Above(n) \intersect topics = {}}

\* A refresh closes no branch, and unless O was pressed since the one before it
\* opens none that was there and closed, so that what enter opened or closed stays.
RefreshKeepsChoices ==
    [][Loaded(topics') =>
          /\ Open \subseteq Open'
          /\ ~collapsed => Branches(topics) \intersect Open' \subseteq Open]_vars

\* topic_tree.go:141, "every ancestor branch implicitly expanded so matches are
\* reachable": a filter shows every topic that matches it.
MatchesAreReachable ==
    query # <<>> => {t \in topics : Matches(t, query)} \subseteq ToSet(rows)
=============================================================================
