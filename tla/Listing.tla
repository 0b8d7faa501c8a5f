------------------------------- MODULE Listing ------------------------------
(***************************************************************************)
(* The listings of the REST interfaces and of the repositories below them: *)
(* a WHERE of the filters given, ORDER BY the column and the direction the *)
(* client asks for, LIMIT and OFFSET, and a COUNT for the total, in two    *)
(* statements.  The Sigma engine counts first, the connection manager      *)
(* lists first.  A client walks the pages as long as the answer says there *)
(* is more, while rows are added, change the columns that are filtered and *)
(* sorted by, and come in any order where those are equal.                 *)
(***************************************************************************)
EXTENDS Integers, FiniteSets

CONSTANTS
    Rows,          \* rows, numbered by a column that is unique and stays: created_at, hostname
    Key,           \* what a row begins with in a column that does neither: health_score, last_seen
    Kind,          \* what a row begins with in the column that status filters compare
    Other,         \* the column that the filters Count leaves out compare
    MaxChanges,    \* bound: rows changed or removed during a walk
    Asked,         \* limits a client asks for
    MaxLimit,      \* 1000
    DefaultLimit,  \* 100 in the Sigma engine, 50 in the manager
    None

VARIABLES
    table,         \* the rows there are
    key, kind,     \* their two columns that change
    of,            \* the table that is listed
    sort, order,   \* sort_by, sort_order
    filter,        \* [kind, other], None where not given
    asked,         \* the limit the client asks for
    pc,            \* "first", "second" statement of the page; "done"
    offset,
    page,          \* rows of the page, when listed first
    total,         \* the count, when counted first
    start,         \* matching rows when the walk began
    seen,          \* rows the client has been shown
    broken,        \* a row has stopped to match during the walk, or its last COUNT has failed
    changes

vars == <<table, key, kind, of, sort, order, filter, asked, pc, offset, page, total, start, seen,
          broken, changes>>

rows == <<table, key, kind, changes>>
walk == <<of, sort, order, filter, asked>>

Sigma == {"rules", "alerts"}
Manager == {"agents"}
Uncalled == {"audit"}               \* its handler answers an empty list for now

(* WHERE: each repository adds a condition for each filter given. *)
Where(f, S) == {r \in S : f.kind \in {None, kind[r]} /\ f.other \in {None, Other[r]}}

ListRulesWhere(f) == Where(f, table)
QueryAlertsWhere(f) == Where(f, table)
AgentsWhere(f) == Where(f, table)
AuditWhere(f) == Where(f, table)

Matching ==
    CASE of = "rules" -> ListRulesWhere(filter)
      [] of = "alerts" -> QueryAlertsWhere(filter)
      [] of = "agents" -> AgentsWhere(filter)
      [] of = "audit" -> AuditWhere(filter)

(* COUNT of the agents looks at the status only, COUNT of the audit log
   leaves out filters too. *)
CountAgents(f) == Cardinality(Where([f EXCEPT !.other = None], table))
CountAudit(f) == Cardinality(Where([f EXCEPT !.other = None], table))
Count ==
    CASE of \in Sigma -> Cardinality(Matching)
      [] of = "agents" -> CountAgents(filter)
      [] of = "audit" -> CountAudit(filter)

(* ORDER BY sort_by sort_order. *)
Before(r, s) ==
    LET less(x, y) == IF sort = "unique" THEN x < y ELSE key[x] < key[y] IN
    IF order = "asc" THEN less(r, s) ELSE less(s, r)

(* The orders the database may answer in: ties in any order. *)
Orders(S) ==
    {q \in [1 .. Cardinality(S) -> S] :
        \A i, j \in 1 .. Cardinality(S) : i < j => q[i] # q[j] /\ ~Before(q[j], q[i])}

(* The Sigma handlers keep a limit of 1 to MaxLimit; ListAgents replaces 0
   only, and a limit below 1 is no LIMIT at all. *)
sigmaLimit == IF asked > 0 /\ asked <= MaxLimit THEN asked ELSE DefaultLimit
agentsLimit == IF asked = 0 THEN DefaultLimit ELSE asked
Limit == IF of \in Sigma THEN sigmaLimit ELSE IF of = "agents" THEN agentsLimit ELSE asked

Slice(q, n) ==
    {q[i] : i \in {j \in 1 .. n : offset < j /\ (Limit > 0 => j <= offset + Limit)}}

Pages == {Slice(q, Cardinality(Matching)) : q \in Orders(Matching)}
RulesPages == Pages
AlertsPages == Pages

-----------------------------------------------------------------------------
TypeOK ==
    /\ table \subseteq Rows /\ start \subseteq Rows /\ seen \subseteq Rows /\ page \subseteq Rows
    /\ key \in [Rows -> {1, 2}] /\ kind \in [Rows -> {1, 2}]
    /\ of \in Sigma \cup Manager \cup Uncalled
    /\ sort \in {"unique", "changing"} /\ order \in {"asc", "desc"}
    /\ asked \in Asked
    /\ pc \in {"first", "second", "done"}
    /\ offset \in Nat /\ total \in Nat
    /\ broken \in BOOLEAN /\ changes \in 0 .. MaxChanges

Init ==
    /\ \E n \in 0 .. Cardinality(Rows) : table = 1 .. n
    /\ key = Key /\ kind = Kind
    /\ of \in Sigma \cup Manager \cup Uncalled
    /\ sort \in {"unique", "changing"} /\ order \in {"asc", "desc"}
    /\ of = "audit" => sort = "unique" /\ order = "desc"
    /\ filter \in [kind : {None, 1}, other : {None, 1}]
    /\ asked \in Asked
    /\ pc = "first" /\ offset = 0 /\ page = {} /\ total = 0
    /\ start = Matching
    /\ seen = {}
    /\ broken = FALSE /\ changes = 0

(* A row is added; the statements that create two rows may run in another
   order than their times say. *)
Insert ==
    /\ pc # "done"
    /\ \E r \in Rows \ table : table' = table \cup {r}
    /\ UNCHANGED <<key, kind, broken, changes, walk, pc, offset, page, total, start, seen>>

Changes ==
    /\ pc # "done" /\ changes < MaxChanges
    /\ changes' = changes + 1
    /\ UNCHANGED <<walk, pc, offset, page, total, start, seen>>
    /\ broken' = (broken \/ ~(Matching \subseteq Matching'))

(* A heartbeat writes the health of its agent, an analyst edits a rule.  It
   matters where the list is sorted by it. *)
UpdateKey(r) ==
    /\ r \in table /\ sort = "changing"
    /\ key' = [key EXCEPT ![r] = 3 - @]
    /\ UNCHANGED <<table, kind>>
    /\ Changes

(* A status changes, which matters where it is asked for; an agent is
   deleted by its status. *)
UpdateStatus(r) ==
    /\ r \in table /\ of # "audit" /\ filter.kind # None
    /\ kind' = [kind EXCEPT ![r] = 3 - @]
    /\ UNCHANGED <<table, key>>
    /\ Changes

(* Rules and alerts are removed for good. *)
Delete(r) ==
    /\ r \in table /\ of \in Sigma
    /\ table' = table \ {r}
    /\ UNCHANGED <<key, kind>>
    /\ Changes

CountFirst ==
    /\ pc = "first" /\ of \in Sigma
    /\ total' = Count
    /\ pc' = "second"
    /\ UNCHANGED <<rows, broken, walk, offset, page, start, seen>>

ListFirst ==
    /\ pc = "first" /\ of \notin Sigma
    /\ page' \in Pages
    /\ pc' = "second"
    /\ UNCHANGED <<rows, broken, walk, offset, total, start, seen>>

(* Faulty variant: one row too few is expected. *)
HasMoreShort(n) == offset + Limit + 1 < n
HasMore(n) == offset + Limit < n

(* The client is answered; it asks for the next page if there is one.  A
   limit below 1 is not walked. *)
Answered(shown, n) ==
    /\ seen' = seen \cup shown
    /\ IF HasMore(n) /\ Limit > 0
       THEN pc' = "first" /\ offset' = offset + Limit
       ELSE pc' = "done" /\ UNCHANGED offset
    /\ page' = {} /\ total' = 0
    /\ UNCHANGED <<rows, walk, start>>

ListRules ==
    /\ pc = "second" /\ of = "rules"
    /\ \E shown \in RulesPages : Answered(shown, total)
    /\ UNCHANGED broken

QueryAlerts ==
    /\ pc = "second" /\ of = "alerts"
    /\ \E shown \in AlertsPages : Answered(shown, total)
    /\ UNCHANGED broken

(* A COUNT that fails makes the page the total. *)
ListAgents ==
    /\ pc = "second" /\ of \notin Sigma
    /\ Answered(page, Count)
    /\ UNCHANGED broken

CountFails ==
    /\ pc = "second" /\ of = "agents"
    /\ Answered(page, Cardinality(page))
    /\ broken' = TRUE

Next ==
    \/ Insert \/ \E r \in Rows : UpdateKey(r) \/ UpdateStatus(r) \/ Delete(r)
    \/ CountFirst \/ ListFirst \/ ListRules \/ QueryAlerts \/ ListAgents \/ CountFails

Spec == Init /\ [][Next]_vars

-----------------------------------------------------------------------------
(***************************************************************************)
(* A walk over the agents, or over the audit log, sorted by a column that  *)
(* is unique and stays (created_at, which is the default, or hostname), in *)
(* either direction, shows every row that matched when it began, unless a  *)
(* row stops to match on the way: whatever is enrolled or comes to match   *)
(* meanwhile only pushes the others to later pages, and the total is       *)
(* counted after the page is read.  (A COUNT that fails ends the walk.)    *)
(***************************************************************************)
PagesCover ==
    [][pc' = "done" /\ of \notin Sigma /\ sort = "unique" /\ ~broken' => start \subseteq seen']_vars

(***************************************************************************)
(* Not so: the same for every column.  The dashboard sorts by              *)
(* health_score, which many agents share and every heartbeat writes; two   *)
(* agents that change places between two pages are shown as one.           *)
(***************************************************************************)
PagesAlwaysCover == [][pc' = "done" /\ of \in Manager /\ ~broken' => start \subseteq seen']_vars

(* The same for rules and alerts.  It does not hold: a row added between the
   count and the page pushes one out that the total does not include, and
   rules with one title may change places between two pages. *)
PagesCoverSigma == [][pc' = "done" /\ of \in Sigma => start \subseteq seen']_vars

(* An answer says there is more only if there is.  It does not hold for the
   agents, whose COUNT looks at one of the filters. *)
MoreIsMore ==
    [][pc = "second" /\ pc' = "first" /\ of \in Manager => Cardinality(Matching) > offset']_vars
=============================================================================
