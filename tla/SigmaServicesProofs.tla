------------------------ MODULE SigmaServicesProofs -------------------------
(***************************************************************************)
(* Proofs about the services around the Sigma engine, for any number of    *)
(* rules, alerts, requests, clients, workers, callers and rows.  A step of *)
(* ServicesNext is a step of one part and a stutter of every other         *)
(* (PartsMove), so each part has an inductive invariant of its own.  The   *)
(* theorems are about ServicesSpec, the specification that the run         *)
(* SigmaServices checks.                                                   *)
(***************************************************************************)
EXTENDS MCSigmaServices, FiniteSetTheorems, SequenceTheorems, TLAPS

\* A step of the services is a step or a stutter of each part.
LEMMA PartsMove ==
    ASSUME [ServicesNext]_servicesVars
    PROVE  /\ [Next]_vars /\ [F!Next]_(F!vars) /\ [W!Next]_(W!vars) /\ [A!Next]_(A!vars)
           /\ [I!Next]_(I!vars) /\ [P!Next]_(P!vars) /\ [B!Next]_(B!vars) /\ [T!Next]_(T!vars)
           /\ part' = part
<1>1. /\ [Next]_vars /\ [F!Next]_fVars /\ [W!Next]_wVars /\ [A!Next]_aVars /\ [I!Next]_iVars
      /\ [P!Next]_pVars /\ [B!Next]_bVars /\ [T!Next]_tVars /\ part' = part
  BY DEF ServicesNext, Moves, servicesVars, I!Next, B!Next
<1>2. UNCHANGED fVars => UNCHANGED F!vars
  BY DEF fVars, F!vars, F!program
<1>5. UNCHANGED wVars => UNCHANGED W!vars
  BY DEF wVars, W!vars
<1>6. UNCHANGED aVars => UNCHANGED A!vars
  BY DEF aVars, A!vars
<1>3. /\ UNCHANGED iVars => UNCHANGED I!vars
      /\ UNCHANGED pVars => UNCHANGED P!vars
      /\ UNCHANGED tVars => UNCHANGED T!vars
  BY DEF iVars, I!vars, pVars, P!vars, tVars, T!vars
<1>4. UNCHANGED bVars => UNCHANGED B!vars
  BY DEF bVars, B!vars, B!customVars, B!profileVars, B!correlationVars, B!baselineVars
<1> QED
  BY <1>1, <1>2, <1>3, <1>4, <1>5, <1>6
-----------------------------------------------------------------------------
(* The rows the API writes.                                                  *)

Asked ==
    [op : RuleOps, id : Rules, read : RuleRow \cup {None}] \cup [op : AlertOps, id : Alerts, read : {None}]
    \cup [op : {"import"}, id : {None}, read : SUBSET Rules] \cup {Free}

\* An update has read a row, and the row the writer has found has room to count.
ApiInv ==
    /\ rules \in [Rules -> RuleRow \cup {None}] /\ alerts \in [Alerts -> AlertRow \cup {None}]
    /\ req \in [Requests -> Asked] /\ recent \in Alerts \cup {None} /\ starts \in 0 .. MaxStarts
    /\ \A r \in Requests : req[r].op = "update" => req[r].read \in RuleRow
    /\ recent # None /\ alerts[recent] # None => alerts[recent].count < MaxCount

\* A row of the table with other values in it is a row.
LEMMA RowsEdited ==
    /\ \A row \in RuleRow, b \in BOOLEAN : [row EXCEPT !.enabled = b] \in RuleRow
    /\ \A row \in RuleRow, t \in {"file", "edited"} : [row EXCEPT !.text = t] \in RuleRow
    /\ \A row \in RuleRow, v \in 1 .. MaxVersion : [row EXCEPT !.version = v] \in RuleRow
    /\ \A t \in {"file", "edited"} : New(t) \in RuleRow
BY ApiAssumption DEF RuleRow, New

\* The first states have the invariant.
LEMMA ApiInit == Init => ApiInv
BY ApiAssumption DEF Init, ApiInv, Asked, Free, RuleOps

\* A statement on the rules leaves rows.
LEMMA RuleStatements ==
    ASSUME ApiInv, NEW i \in Rules
    PROVE  /\ InsertRule(i) => rules' \in [Rules -> RuleRow \cup {None}]
           /\ \A row \in RuleRow : UpdateRow(i, row) => rules' \in [Rules -> RuleRow \cup {None}]
           /\ DeleteRow(i) => rules' \in [Rules -> RuleRow \cup {None}]
           /\ \A b \in BOOLEAN : SetEnabled(i, b) => rules' \in [Rules -> RuleRow \cup {None}]
           /\ Upsert(i) \in RuleRow
<1> USE DEF ApiInv
<1>1. InsertRule(i) => rules' \in [Rules -> RuleRow \cup {None}]
  BY RowsEdited, ApiAssumption DEF InsertRule
<1>2. ASSUME NEW row \in RuleRow, UpdateRow(i, row) PROVE rules' \in [Rules -> RuleRow \cup {None}]
  <2>1. CASE rules[i] = None
    BY <1>2, <2>1 DEF UpdateRow
  <2>2. CASE rules[i] # None
    <3>1. rules[i].version + 1 \in 1 .. MaxVersion
      BY <1>2, <2>2, ApiAssumption DEF UpdateRow, RuleRow
    <3>2. [row EXCEPT !.version = rules[i].version + 1] \in RuleRow
      BY <3>1, RowsEdited
    <3> QED
      BY <1>2, <2>2, <3>2 DEF UpdateRow
  <2> QED
    BY <2>1, <2>2
<1>3. DeleteRow(i) => rules' \in [Rules -> RuleRow \cup {None}]
  BY DEF DeleteRow
<1>4. ASSUME NEW b \in BOOLEAN, SetEnabled(i, b) PROVE rules' \in [Rules -> RuleRow \cup {None}]
  <2>1. rules[i] # None => [rules[i] EXCEPT !.enabled = b] \in RuleRow
    BY RowsEdited
  <2> QED
    BY <1>4, <2>1 DEF SetEnabled
<1>5. Upsert(i) \in RuleRow
  BY RowsEdited, ApiAssumption DEF Upsert
<1> QED
  BY <1>1, <1>2, <1>3, <1>4, <1>5


\* A step of a request on the rules keeps the invariant, since it leaves rows.
LEMMA RuleRequestEnds ==
    ASSUME ApiInv, NEW r \in Requests, rules' \in [Rules -> RuleRow \cup {None}], Ends(r),
           UNCHANGED <<alerts, recent, starts>>
    PROVE  ApiInv'
BY ApiAssumption DEF ApiInv, Ends, Asked, Free, RuleOps

\* The same for a step on the alerts that leaves the counts.
LEMMA AlertRequestEnds ==
    ASSUME ApiInv, alerts' \in [Alerts -> AlertRow \cup {None}],
           \A a \in Alerts : alerts'[a] # None => alerts[a] # None /\ alerts'[a].count = alerts[a].count,
           req' = req \/ \E r \in Requests : Ends(r),
           UNCHANGED <<rules, recent, starts>>
    PROVE  ApiInv'
<1>1. req' \in [Requests -> Asked] /\ \A r \in Requests : req'[r].op = "update" => req'[r].read \in RuleRow
  BY ApiAssumption DEF ApiInv, Ends, Asked, Free, RuleOps
<1> QED
  BY <1>1 DEF ApiInv

\* The statements on the alerts leave the counts.
LEMMA AlertStatements ==
    ASSUME ApiInv
    PROVE  /\ \A a \in Alerts, s \in validStatuses, n \in BOOLEAN : UpdateStatus(a, s, n) =>
                /\ alerts' \in [Alerts -> AlertRow \cup {None}]
                /\ \A b \in Alerts : alerts'[b] # None => alerts[b] # None /\ alerts'[b].count = alerts[b].count
           /\ \A ids, s : s \in validStatuses /\ BulkUpdateStatus(ids, s) =>
                /\ alerts' \in [Alerts -> AlertRow \cup {None}]
                /\ \A b \in Alerts : alerts'[b] # None => alerts[b] # None /\ alerts'[b].count = alerts[b].count
<1>1. \A row \in AlertRow, s \in validStatuses, n \in BOOLEAN :
         /\ [row EXCEPT !.status = s, !.notes = n] \in AlertRow
         /\ [row EXCEPT !.status = s, !.notes = n].count = row.count
         /\ [row EXCEPT !.status = s] \in AlertRow /\ [row EXCEPT !.status = s].count = row.count
  BY DEF AlertRow
<1>2. ASSUME NEW a \in Alerts, NEW s \in validStatuses, NEW n \in BOOLEAN, UpdateStatus(a, s, n)
      PROVE  /\ alerts' \in [Alerts -> AlertRow \cup {None}]
             /\ \A b \in Alerts : alerts'[b] # None => alerts[b] # None /\ alerts'[b].count = alerts[b].count
  <2> DEFINE row == [alerts[a] EXCEPT !.status = s, !.notes = n]
  <2>1. alerts[a] # None => row \in AlertRow /\ row.count = alerts[a].count
    BY <1>1 DEF ApiInv
  <2>2. alerts' = [alerts EXCEPT ![a] = IF alerts[a] = None THEN None ELSE row]
    BY <1>2 DEF UpdateStatus
  <2> HIDE DEF row
  <2> QED
    BY <2>1, <2>2 DEF ApiInv
<1>3. ASSUME NEW ids, NEW s \in validStatuses, BulkUpdateStatus(ids, s)
      PROVE  /\ alerts' \in [Alerts -> AlertRow \cup {None}]
             /\ \A b \in Alerts : alerts'[b] # None => alerts[b] # None /\ alerts'[b].count = alerts[b].count
  BY <1>1, <1>3 DEF BulkUpdateStatus, ApiInv
<1> QED
  BY <1>2, <1>3

\* The invariant is inductive.
LEMMA ApiStep ==
    ASSUME ApiInv, [Next]_vars
    PROVE  ApiInv'
<1>1. CASE seedRulesToDB
  <2>1. rules' \in [Rules -> RuleRow \cup {None}]
    <3>1. PICK S \in SUBSET Official : rules' = [i \in Rules |-> IF i \in S THEN Upsert(i) ELSE rules[i]]
      BY <1>1 DEF seedRulesToDB
    <3> QED
      BY <3>1, RuleStatements DEF ApiInv
  <2> QED
    BY <1>1, <2>1, ApiAssumption DEF seedRulesToDB, ApiInv, Asked, Free, RuleOps
<1>2. ASSUME NEW r \in Requests, NEW op \in RuleOps, NEW i \in Rules, Looks(r, op, i) PROVE ApiInv'
  <2>1. [op |-> op, id |-> i, read |-> IF op = "update" THEN rules[i] ELSE None] \in Asked
    BY DEF ApiInv, Asked
  <2>2. op = "update" => rules[i] \in RuleRow
    BY <1>2 DEF Looks, RuleByID, ApiInv
  <2> QED
    BY <1>2, <2>1, <2>2 DEF Looks, RuleByID, ApiInv
<1>3. ASSUME NEW r \in Requests, NEW op \in AlertOps, NEW a \in Alerts, LooksAlert(r, op, a) PROVE ApiInv'
  <2>1. [op |-> op, id |-> a, read |-> None] \in Asked /\ op # "update"
    BY DEF Asked, AlertOps
  <2> QED
    BY <1>3, <2>1 DEF LooksAlert, ApiInv
<1>4. ASSUME NEW r \in Requests,
             \/ CreateRule(r) \/ UpdateRule(r) \/ DeleteRule(r) \/ EnableRule(r) \/ DisableRule(r)
             \/ TestRule(r) \/ BadRequest(r)
      PROVE  ApiInv'
  <2>1. req[r].op \in RuleOps => req[r].id \in Rules
    BY ApiAssumption DEF ApiInv, Asked, RuleOps, AlertOps, Free
  <2>2. req[r].op = "update" => [req[r].read EXCEPT !.text = "edited"] \in RuleRow
    BY RowsEdited DEF ApiInv
  <2>3. rules' \in [Rules -> RuleRow \cup {None}]
    <3>1. CASE CreateRule(r)
      BY <3>1, <2>1, RuleStatements DEF CreateRule, Does, RuleOps
    <3>2. CASE UpdateRule(r)
      BY <3>2, <2>1, <2>2, RuleStatements DEF UpdateRule, Does, RuleOps
    <3>3. CASE DeleteRule(r)
      BY <3>3, <2>1, RuleStatements DEF DeleteRule, Does, RuleOps
    <3>4. CASE EnableRule(r) \/ DisableRule(r)
      BY <3>4, <2>1, RuleStatements DEF EnableRule, DisableRule, Does, RuleOps
    <3>5. CASE TestRule(r) \/ BadRequest(r)
      BY <3>5 DEF TestRule, BadRequest, ApiInv
    <3> QED
      BY <1>4, <3>1, <3>2, <3>3, <3>4, <3>5
  <2>4. Ends(r) /\ UNCHANGED <<alerts, recent, starts>>
    BY <1>4 DEF CreateRule, UpdateRule, DeleteRule, EnableRule, DisableRule, TestRule, BadRequest, Does
  <2> QED
    BY <2>3, <2>4, RuleRequestEnds
<1>5. ASSUME NEW r \in Requests, BulkImportRules(r) PROVE ApiInv'
  <2>1. CASE req[r].op # "import"
    <3>1. PICK ids \in SUBSET Rules : req' = [req EXCEPT ![r] = [op |-> "import", id |-> None, read |-> ids]]
      BY <1>5, <2>1 DEF BulkImportRules
    <3>2. [op |-> "import", id |-> None, read |-> ids] \in Asked
      BY DEF Asked
    <3>3. UNCHANGED <<rules, alerts, recent, starts>>
      BY <1>5, <2>1 DEF BulkImportRules
    <3> QED
      BY <3>1, <3>2, <3>3 DEF ApiInv
  <2>2. CASE req[r].op = "import"
    <3>1. req[r].id = None /\ req[r].read \in SUBSET Rules
      BY <2>2, ApiAssumption DEF ApiInv, Asked, RuleOps, AlertOps, Free
    <3>2. PICK i \in req[r].read :
              InsertRule(i) /\ IF req[r].read = {i} THEN Ends(r) ELSE req' = [req EXCEPT ![r].read = @ \ {i}]
      BY <1>5, <2>2, ApiAssumption DEF BulkImportRules, Free
    <3>3. rules' \in [Rules -> RuleRow \cup {None}] /\ UNCHANGED <<alerts, recent, starts>>
      BY <1>5, <2>2, <3>1, <3>2, RuleStatements, ApiAssumption DEF BulkImportRules, Free
    <3>4. CASE Ends(r)
      BY <3>3, <3>4, RuleRequestEnds
    <3>5. CASE req' = [req EXCEPT ![r].read = @ \ {i}]
      <4>1. [req[r] EXCEPT !.read = @ \ {i}] \in Asked /\ [req[r] EXCEPT !.read = @ \ {i}].op = "import"
        BY <2>2, <3>1, ApiAssumption DEF ApiInv, Asked, RuleOps, AlertOps, Free
      <4> QED
        BY <3>3, <3>5, <4>1 DEF ApiInv
    <3> QED
      BY <3>2, <3>4, <3>5
  <2> QED
    BY <2>1, <2>2
<1>6. ASSUME NEW r \in Requests, UpdateAlertStatus(r) \/ AcknowledgeAlert(r) \/ DeleteAlert(r) PROVE ApiInv'
  <2>1. req[r].op \in AlertOps => req[r].id \in Alerts
    BY ApiAssumption DEF ApiInv, Asked, RuleOps, AlertOps, Free
  <2>2. Ends(r) /\ UNCHANGED <<rules, recent, starts>> /\ req[r].op \in AlertOps
    BY <1>6 DEF UpdateAlertStatus, AcknowledgeAlert, DeleteAlert, DoesAlert, AlertOps
  <2>3. CASE DeleteAlert(r) \/ alerts' = alerts
    BY <2>1, <2>2, <2>3, AlertRequestEnds DEF DeleteAlert, ApiInv
  <2>4. CASE \E s \in validStatuses, n \in BOOLEAN : UpdateStatus(req[r].id, s, n)
    BY <2>1, <2>2, <2>4, AlertStatements, AlertRequestEnds
  <2> QED
    BY <1>6, <2>3, <2>4 DEF UpdateAlertStatus, AcknowledgeAlert, validStatuses
<1>7. CASE BulkUpdateAlertStatus
  BY <1>7, AlertStatements, AlertRequestEnds DEF BulkUpdateAlertStatus
<1>8. CASE IncrementEventCount
  <2>1. recent \in Alerts
    BY <1>8 DEF IncrementEventCount, ApiInv
  <2>3. MaxCount \in Nat
    BY ApiAssumption
  <2>2. alerts' \in [Alerts -> AlertRow \cup {None}]
    BY <1>8, <2>1, <2>3 DEF IncrementEventCount, ApiInv, AlertRow
  <2> QED
    BY <1>8, <2>2 DEF IncrementEventCount, ApiInv
<1>9. ASSUME NEW a \in Alerts, FindRecent(a) PROVE ApiInv'
  BY <1>9 DEF FindRecent, ApiInv
<1>10. ASSUME NEW a \in Alerts, CreateAlert(a) PROVE ApiInv'
  <2>1. [status |-> "open", notes |-> FALSE, count |-> 1] \in AlertRow
    BY ApiAssumption DEF AlertRow, validStatuses
  <2> QED
    BY <1>10, <2>1 DEF CreateAlert, ApiInv
<1>11. CASE UNCHANGED vars
  BY <1>11 DEF vars, ApiInv
<1> QED
  BY <1>1, <1>2, <1>3, <1>4, <1>5, <1>6, <1>7, <1>8, <1>9, <1>10, <1>11 DEF Next

\* A step that is no enabling and no update of a row leaves what is disabled so.
LEMMA DisabledStep ==
    ASSUME ApiInv, [Next]_vars, NEW i \in Rules,
           rules[i] # None, rules'[i] # None, ~rules[i].enabled, rules'[i].enabled
    PROVE  \E r \in Requests : /\ req[r].id = i
                               /\ \/ req[r].op = "enable"
                                  \/ req[r].op = "update" /\ req[r].read.enabled
<1>1. rules' # rules /\ rules[i] \in RuleRow
  BY DEF ApiInv
<1>2. CASE seedRulesToDB
  <2>1. Upsert(i).enabled = rules[i].enabled
    BY <1>1 DEF Upsert, RuleRow
  <2> QED
    BY <1>2, <2>1 DEF seedRulesToDB, ApiInv
<1>3. ASSUME NEW r \in Requests, CreateRule(r) \/ BulkImportRules(r) \/ DeleteRule(r) \/ DisableRule(r) PROVE FALSE
  <2>1. ASSUME NEW j, InsertRule(j) \/ DeleteRow(j) \/ SetEnabled(j, FALSE) PROVE FALSE
    <3>1. CASE InsertRule(j)
      BY <3>1 DEF InsertRule, ApiInv
    <3>2. CASE DeleteRow(j)
      BY <3>2 DEF DeleteRow, ApiInv
    <3>3. CASE SetEnabled(j, FALSE)
      BY <1>1, <3>3 DEF SetEnabled, ApiInv, RuleRow
    <3> QED
      BY <2>1, <3>1, <3>2, <3>3
  <2> QED
    BY <1>1, <1>3, <2>1 DEF CreateRule, BulkImportRules, DeleteRule, DisableRule
<1>4. ASSUME NEW r \in Requests, UpdateRule(r) \/ EnableRule(r)
      PROVE  /\ req[r].id = i
             /\ \/ req[r].op = "enable"
                \/ req[r].op = "update" /\ req[r].read.enabled
  <2>1. req[r].id = i
    BY <1>1, <1>4 DEF UpdateRule, EnableRule, UpdateRow, SetEnabled, ApiInv
  <2>2. CASE EnableRule(r)
    BY <2>1, <2>2 DEF EnableRule, Does
  <2>3. CASE UpdateRule(r)
    <3>1. req[r].op = "update" /\ req[r].read \in RuleRow
      BY <2>3 DEF UpdateRule, Does, ApiInv
    <3> DEFINE row == [req[r].read EXCEPT !.text = "edited"]
    <3>2. row \in RuleRow /\ row.enabled = req[r].read.enabled
      BY <3>1 DEF RuleRow
    <3>3. rules'[i] = [row EXCEPT !.version = rules[i].version + 1]
      BY <2>1, <2>3 DEF UpdateRule, UpdateRow, ApiInv
    <3> HIDE DEF row
    <3>4. rules'[i].enabled = row.enabled
      BY <3>2, <3>3 DEF RuleRow
    <3> QED
      BY <2>1, <3>1, <3>2, <3>4
  <2> QED
    BY <1>4, <2>2, <2>3
<1>5. ASSUME NEW r \in Requests, TestRule(r) \/ BadRequest(r) PROVE FALSE
  BY <1>1, <1>5 DEF TestRule, BadRequest
<1>6. ASSUME NEW r \in Requests, \/ \E op \in RuleOps, j \in Rules : Looks(r, op, j)
                                 \/ \E op \in AlertOps, a \in Alerts : LooksAlert(r, op, a)
                                 \/ UpdateAlertStatus(r) \/ AcknowledgeAlert(r) \/ DeleteAlert(r)
      PROVE  FALSE
  BY <1>1, <1>6 DEF Looks, LooksAlert, UpdateAlertStatus, AcknowledgeAlert, DeleteAlert, DoesAlert
<1>7. ~BulkUpdateAlertStatus /\ ~IncrementEventCount /\ ~UNCHANGED vars
      /\ \A a \in Alerts : ~FindRecent(a) /\ ~CreateAlert(a)
  BY <1>1 DEF BulkUpdateAlertStatus, IncrementEventCount, FindRecent, CreateAlert, vars
<1> QED
  BY <1>2, <1>3, <1>4, <1>5, <1>6, <1>7 DEF Next

\* The rows have their invariant in every state of the services.
LEMMA ApiInvariant == ServicesSpec => []ApiInv
<1>1. ServicesInit => ApiInv
  BY ApiInit DEF ServicesInit
<1>2. ApiInv /\ [ServicesNext]_servicesVars => ApiInv'
  BY ApiStep, PartsMove
<1> QED
  BY <1>1, <1>2, PTL DEF ServicesSpec

(***************************************************************************)
(* For any number of rules, files and overlapping requests: a row of       *)
(* sigma_rules goes from disabled to enabled only by an EnableRule of its  *)
(* id or by an UpdateRule that read it before it was disabled; no upsert   *)
(* of a start, no import and no other handler does it.                     *)
(***************************************************************************)
THEOREM DisabledRulesStay == ServicesSpec => DisabledStays
<1>1. ApiInv /\ [ServicesNext]_servicesVars =>
        [\A i \in Rules :
          rules[i] # None /\ rules'[i] # None /\ ~rules[i].enabled /\ rules'[i].enabled =>
             \E r \in Requests : /\ req[r].id = i
                                 /\ \/ req[r].op = "enable"
                                    \/ req[r].op = "update" /\ req[r].read.enabled]_vars
  BY DisabledStep, PartsMove
<1> QED
  BY <1>1, ApiInvariant, PTL DEF ServicesSpec, DisabledStays
-----------------------------------------------------------------------------
(* The alert stream.                                                         *)

Messages == StreamAlerts \cup {Ping}

StreamTypes ==
    /\ conn \in [Clients -> {"none", "upgraded", "open", "broken"}]
    /\ clients \subseteq Clients /\ todo \subseteq clients /\ pinged \subseteq clients
    /\ closed \in [Clients -> BOOLEAN]
    /\ send \in [Clients -> Seq(Messages)] /\ \A c \in Clients : Len(send[c]) <= SendCap
    /\ broadcast \in Seq(StreamAlerts) /\ Len(broadcast) <= BroadcastCap
    /\ socket \in [Clients -> {"none", "reading", "leaving", "done"}]
    /\ writer \in [Clients -> {"none", "writing", "done"}]
    /\ hub \in {"idle", "adding", "removing", "handing"}
    /\ hub \in {"adding", "removing"} => subject \in Clients
    /\ hub = "handing" => subject \in StreamAlerts

\* The hub hands out under no other work, whoever is in the set or on its way into it has an open
\* channel, and a connection that the hub has not met was never in the set.
StreamInv ==
    /\ StreamTypes
    /\ hub # "handing" => todo = {}
    /\ hub = "adding" => ~closed[subject] /\ conn[subject] \in {"open", "broken"}
    /\ \A c \in clients : ~closed[c]
    /\ \A c \in Clients : conn[c] \in {"none", "upgraded"} => ~closed[c] /\ c \notin clients

\* A message is taken into a client's channel or dropped.
LEMMA OfferedFits ==
    ASSUME StreamTypes, NEW c \in Clients, NEW m \in Messages, W!Offered(c, m)
    PROVE  send' \in [Clients -> Seq(Messages)] /\ \A d \in Clients : Len(send'[d]) <= SendCap
BY StreamAssumption DEF StreamTypes, W!Offered

\* The first states have the invariant.
LEMMA StreamInit == W!Init => StreamInv
<1> SUFFICES ASSUME W!Init PROVE StreamInv
  OBVIOUS
<1>1. closed \in [Clients -> BOOLEAN] /\ \A c \in Clients : ~closed[c]
  BY Zenon DEF W!Init
<1> QED
  BY <1>1, StreamAssumption DEF W!Init, StreamInv, StreamTypes

\* The invariant is inductive: the set changes only under the lock, which the pings hold while
\* they walk it.
LEMMA StreamStep ==
    ASSUME StreamInv, [W!Next]_(W!vars)
    PROVE  StreamInv'
<1> USE DEF StreamInv, StreamTypes
<1>1. ASSUME NEW a \in StreamAlerts, W!BroadcastAlert(a) PROVE StreamInv'
  BY <1>1, StreamAssumption DEF W!BroadcastAlert
<1>2. CASE W!Add
  BY <1>2 DEF W!Add, W!Lockable
<1>3. CASE W!Remove
  <2>1. closed' = [closed EXCEPT ![subject] = closed[subject] \/ subject \in clients] /\ subject \in Clients
    BY <1>3 DEF W!Remove
  <2>2. closed' \in [Clients -> BOOLEAN] /\ \A c \in Clients : c # subject => closed'[c] = closed[c]
    BY <2>1, Zenon
  <2>3. conn[subject] \in {"none", "upgraded"} => closed'[subject] = closed[subject]
    BY <2>1
  <2>4. clients' = clients \ {subject} /\ todo' = {} /\ pinged' = {} /\ hub' = "idle"
    BY <1>3 DEF W!Remove, W!Lockable
  <2>5. UNCHANGED <<conn, send, broadcast, socket, writer>>
    BY <1>3 DEF W!Remove
  <2>6. \A c \in Clients : conn[c] \in {"none", "upgraded"} => ~closed'[c]
    BY <2>2, <2>3
  <2> QED
    BY <2>2, <2>4, <2>5, <2>6
<1>4. CASE W!TakeAlert
  <2>1. broadcast' \in Seq(StreamAlerts) /\ Len(broadcast') <= BroadcastCap /\ Head(broadcast) \in StreamAlerts
    BY <1>4, StreamAssumption DEF W!TakeAlert
  <2>2. /\ todo' = clients /\ UNCHANGED <<conn, clients, send, closed, socket, writer, pinged>>
        /\ IF clients = {} THEN UNCHANGED <<hub, subject>> ELSE hub' = "handing" /\ subject' = Head(broadcast)
        /\ hub = "idle"
    BY <1>4 DEF W!TakeAlert
  <2> QED
    BY <2>1, <2>2
<1>5. CASE W!PingsBegin
  BY <1>5 DEF W!PingsBegin
<1>6. ASSUME NEW c \in Clients, W!Upgrade(c) PROVE StreamInv'
  BY <1>6 DEF W!Upgrade
<1>7. ASSUME NEW c \in Clients, W!Register(c) PROVE StreamInv'
  <2>1. /\ conn' \in [Clients -> {"none", "upgraded", "open", "broken"}]
        /\ \A d \in Clients : conn'[d] \in {"none", "upgraded"} => conn'[d] = conn[d]
    BY <1>7 DEF W!Register
  <2>2. /\ socket' \in [Clients -> {"none", "reading", "leaving", "done"}]
        /\ writer' \in [Clients -> {"none", "writing", "done"}]
    BY <1>7 DEF W!Register
  <2>3. ~closed'[subject'] /\ conn'[subject'] = "open" /\ subject' \in Clients /\ hub' = "adding" /\ todo' = {}
    BY <1>7 DEF W!Register
  <2>4. UNCHANGED <<clients, pinged, closed, send, broadcast>>
    BY <1>7 DEF W!Register
  <2> QED
    BY <2>1, <2>2, <2>3, <2>4
<1>8. ASSUME NEW c \in Clients, W!Unregister(c) PROVE StreamInv'
  BY <1>8 DEF W!Unregister
<1>9. ASSUME NEW c \in Clients, W!HubVisits(c) PROVE StreamInv'
  <2>1. send' \in [Clients -> Seq(Messages)] /\ \A d \in Clients : Len(send'[d]) <= SendCap
    BY <1>9, OfferedFits DEF W!HubVisits, W!HandOut, Messages
  <2> QED
    BY <1>9, <2>1 DEF W!HubVisits
<1>10. ASSUME NEW c \in Clients, W!PingsVisit(c) PROVE StreamInv'
  <2>1. send' \in [Clients -> Seq(Messages)] /\ \A d \in Clients : Len(send'[d]) <= SendCap
    BY <1>10, OfferedFits DEF W!PingsVisit, Messages
  <2> QED
    BY <1>10, <2>1 DEF W!PingsVisit
<1>11. ASSUME NEW c \in Clients, W!Subscribe(c) \/ W!Stored(c) PROVE StreamInv'
  BY <1>11 DEF W!Subscribe, W!Stored
<1>12. ASSUME NEW c \in Clients, W!ReadFails(c) PROVE StreamInv'
  BY <1>12 DEF W!ReadFails
<1>13. ASSUME NEW c \in Clients, W!Write(c) PROVE StreamInv'
  <2>1. /\ conn' \in [Clients -> {"none", "upgraded", "open", "broken"}]
        /\ \A d \in Clients : conn'[d] \in {conn[d], "broken"}
    BY <1>13 DEF W!Write
  <2>2. writer' \in [Clients -> {"none", "writing", "done"}]
    BY <1>13 DEF W!Write
  <2>3. send' \in [Clients -> Seq(Messages)] /\ \A d \in Clients : Len(send'[d]) <= SendCap
    BY <1>13, StreamAssumption DEF W!Write
  <2>4. UNCHANGED <<clients, pinged, todo, hub, subject, closed, broadcast, socket>>
    BY <1>13 DEF W!Write
  <2> QED
    BY <2>1, <2>2, <2>3, <2>4
<1>14. ASSUME NEW c \in Clients, W!WriterEnds(c) \/ W!Break(c) PROVE StreamInv'
  <2>1. /\ conn' \in [Clients -> {"none", "upgraded", "open", "broken"}]
        /\ \A d \in Clients : conn'[d] \in {conn[d], "broken"}
    BY <1>14 DEF W!WriterEnds, W!Break
  <2>2. writer' \in [Clients -> {"none", "writing", "done"}]
    BY <1>14 DEF W!WriterEnds, W!Break
  <2>3. UNCHANGED <<clients, pinged, todo, hub, subject, send, closed, broadcast, socket>>
    BY <1>14 DEF W!WriterEnds, W!Break
  <2> QED
    BY <2>1, <2>2, <2>3
<1>15. CASE UNCHANGED W!vars
  BY <1>15 DEF W!vars
<1> QED
  BY <1>1, <1>2, <1>3, <1>4, <1>5, <1>6, <1>7, <1>8, <1>9, <1>10, <1>11, <1>12, <1>13, <1>14, <1>15 DEF W!Next
-----------------------------------------------------------------------------
(* The parallel processor.                                                   *)

Queued == [sig : Signatures \cup {None}, nil : BOOLEAN]
Tasks == {P!Idle, P!Ended} \cup [at : {"process", "report"}, event : Queued]
Places == {"idle", "send", "collect", "hand", "returned"}

WorkTypes ==
    /\ events \in Seq(Queued) /\ Len(events) <= ChannelBuffers
    /\ resultChan \in Seq(Queued) /\ Len(resultChan) <= ChannelBuffers
    /\ worker \in [Workers -> Tasks]
    /\ deduplicator \in [Signatures -> Nat \cup {None}] /\ now \in 0 .. MaxNow
    /\ sighted \in [Signatures -> SUBSET Nat] /\ written \subseteq [sig : Signatures, at : Nat]
    /\ shutdown \in {"no", "waits", "done", "timeout"}

\* A batch or a call has yet to get a result when it waits for one; a stream has one result for
\* each event it sent, but for the one it waits for.
CallInv ==
    /\ sender \in [Callers -> Nat] /\ caller \in [Callers -> [at : Places, got : Nat]]
    /\ \A c \in Callers :
          /\ sender[c] <= Len(Events[c]) /\ caller[c].got <= Len(Events[c])
          /\ caller[c].at = "idle" => caller[c].got = 0 /\ sender[c] = 0
          /\ caller[c].at = "collect" =>
                IF Kind[c] = "stream" THEN caller[c].got < sender[c] ELSE caller[c].got < Len(Events[c])
          /\ caller[c].at \in {"send", "hand"} /\ Kind[c] = "stream" => caller[c].got <= sender[c]
          /\ caller[c].at = "send" => caller[c].got < Len(Events[c])
          /\ caller[c].at = "hand" => Kind[c] = "stream"

\* The deduplicator knows the last sighting of a signature until it is a window old.
Remembers ==
    \A s \in Signatures :
        /\ deduplicator[s] # None => deduplicator[s] <= now
        /\ \A t \in sighted[s] : t <= now /\ IF deduplicator[s] # None THEN t <= deduplicator[s] ELSE now - t > Window

WorkInv ==
    /\ WorkTypes /\ CallInv /\ Remembers
    /\ P!WrittenApart /\ \A a \in written : a.at <= now

\* The first states have the invariant.
LEMMA WorkInit == P!Init => WorkInv
BY ProcessorAssumption DEF P!Init, WorkInv, WorkTypes, CallInv, Remembers, P!WrittenApart, Tasks, Places

LEMMA InputsAreQueued == \A c \in Callers : Events[c] \in Seq(Queued) /\ Len(Events[c]) \in Nat
<1>1. \A c \in Callers : Events[c] \in Seq(Queued)
  BY ProcessorAssumption, Zenon DEF Queued
<1> QED
  BY <1>1, LenProperties

\* What the callers do leaves the workers and the deduplicator.
LEMMA CallerMoves ==
    ASSUME WorkInv, NEW c \in Callers, P!CallerStep(c)
    PROVE  WorkInv'
<1>1. UNCHANGED <<worker, deduplicator, sighted, written, now, shutdown>>
  BY DEF P!CallerStep, P!SenderStep, P!ReaderStep, P!Call, P!Send, P!SenderEnds, P!Collect, P!Hand, P!TakeOut,
         P!CtxDone, P!GiveUp, P!workVars
<1>2. /\ events' \in Seq(Queued) /\ Len(events') <= ChannelBuffers
      /\ resultChan' \in Seq(Queued) /\ Len(resultChan') <= ChannelBuffers
  <2>1. CASE P!Send(c)
    <3>1. sender[c] + 1 \in 1 .. Len(Events[c]) /\ Events[c] \in Seq(Queued)
      BY <2>1, InputsAreQueued DEF P!Send, P!Sending, WorkInv, CallInv
    <3>2. Events[c][sender[c] + 1] \in Queued
      BY <3>1
    <3> DEFINE e == Events[c][sender[c] + 1]
               a == Append(events, e)
    <3>3. events' = events \/ (Len(events) < ChannelBuffers /\ events' = a)
      BY <2>1 DEF P!Send
    <3>4. resultChan' = resultChan
      BY <2>1 DEF P!Send
    <3>5. events \in Seq(Queued) /\ Len(events) \in Nat /\ ChannelBuffers \in Nat /\ Len(events) <= ChannelBuffers
      BY ProcessorAssumption DEF WorkInv, WorkTypes
    <3>6. e \in Queued
      BY <3>2
    <3> HIDE DEF e
    <3>7. a \in Seq(Queued) /\ Len(a) = Len(events) + 1
      BY <3>5, <3>6
    <3> HIDE DEF a
    <3>8. events' \in Seq(Queued) /\ Len(events') <= ChannelBuffers
      BY <3>3, <3>5, <3>7
    <3> QED
      BY <3>4, <3>8 DEF WorkInv, WorkTypes
  <2>2. CASE P!Collect(c)
    BY <2>2, ProcessorAssumption DEF P!Collect, WorkInv, WorkTypes
  <2>3. CASE ~P!Send(c) /\ ~P!Collect(c)
    BY <2>3 DEF P!CallerStep, P!SenderStep, P!ReaderStep, P!Call, P!SenderEnds, P!Hand, P!TakeOut, P!CtxDone, P!GiveUp,
                WorkInv, WorkTypes
  <2> QED
    BY <2>1, <2>2, <2>3
<1>3. CallInv'
  <2> USE InputsAreQueued DEF WorkInv, CallInv, Places
  <2>1. CASE P!Call(c)
    BY <2>1 DEF P!Call
  <2>2. CASE P!Send(c)
    <3>1. CASE ~open
      BY <2>2, <3>1 DEF P!Send
    <3>2. CASE open
      <4>1. /\ sender[c] < Len(Events[c]) /\ sender' = [sender EXCEPT ![c] = @ + 1]
            /\ Kind[c] # "batch" => caller[c].at = "send"
            /\ caller' = [caller EXCEPT ![c].at = IF Kind[c] = "batch" THEN @ ELSE "collect"]
            /\ caller[c].at # "idle"
        BY <2>2, <3>2 DEF P!Send, P!Sending
      <4>2. CASE Kind[c] = "batch"
        <5>1. caller' = caller
          BY <4>1, <4>2
        <5> QED
          BY <4>1, <4>2, <5>1
      <4>3. CASE Kind[c] # "batch"
        BY <4>1, <4>3
      <4> QED
        BY <4>2, <4>3
    <3> QED
      BY <3>1, <3>2
  <2>3. CASE P!Collect(c)
    BY <2>3 DEF P!Collect
  <2>4. CASE P!Hand(c)
    BY <2>4 DEF P!Hand
  <2>5. CASE P!GiveUp(c)
    BY <2>5 DEF P!GiveUp
  <2>6. CASE P!TakeOut(c) \/ P!CtxDone(c)
    BY <2>6 DEF P!TakeOut, P!CtxDone
  <2>7. CASE P!SenderEnds(c)
    <3>1. /\ sender' = [sender EXCEPT ![c] = Len(Events[c])] /\ UNCHANGED caller
          /\ Kind[c] = "batch" /\ caller[c].at # "idle"
      BY <2>7 DEF P!SenderEnds, P!Sending
    <3> QED
      BY <3>1
  <2> QED
    BY <2>1, <2>2, <2>3, <2>4, <2>5, <2>6, <2>7 DEF P!CallerStep, P!SenderStep, P!ReaderStep
<1> QED
  BY <1>1, <1>2, <1>3 DEF WorkInv, WorkTypes, Remembers, P!WrittenApart

\* A worker writes only what the deduplicator did not know.
LEMMA ProcessMoves ==
    ASSUME WorkInv, NEW w \in Workers, P!processEvent(w)
    PROVE  WorkInv'
<1> DEFINE s == worker[w].event.sig
           kept == P!cleanOldEntries
<1>1. worker[w] \in [at : {"process"}, event : Queued]
  BY DEF P!processEvent, WorkInv, WorkTypes, Tasks, P!Idle, P!Ended
<1>2. worker' \in [Workers -> Tasks]
  BY <1>1 DEF P!processEvent, WorkInv, WorkTypes, Tasks
<1>3. /\ kept \in [Signatures -> Nat \cup {None}]
      /\ \A u \in Signatures :
            /\ kept[u] # None => kept[u] <= now
            /\ \A t \in sighted[u] : IF kept[u] # None THEN t <= kept[u] ELSE now - t > Window
  BY ProcessorAssumption DEF P!cleanOldEntries, WorkInv, WorkTypes, Remembers
<1>4. UNCHANGED <<events, resultChan, sender, caller, now, shutdown>>
  BY DEF P!processEvent, P!callerVars
<1>5. CASE worker[w].event.nil
  <2>1. UNCHANGED <<deduplicator, sighted, written>>
    BY <1>5 DEF P!processEvent
  <2> QED
    BY <1>2, <1>4, <2>1 DEF WorkInv, WorkTypes, CallInv, Remembers, P!WrittenApart
<1>6. CASE ~worker[w].event.nil /\ s = None
  <2>1. deduplicator' = kept /\ UNCHANGED <<sighted, written>>
    BY <1>6 DEF P!processEvent
  <2> HIDE DEF kept
  <2> QED
    BY <1>2, <1>3, <1>4, <2>1 DEF WorkInv, WorkTypes, CallInv, Remembers, P!WrittenApart
<1>7. CASE ~worker[w].event.nil /\ s # None
  <2>1. s \in Signatures
    BY <1>1, <1>7 DEF Queued
  <2>2. /\ deduplicator' = [kept EXCEPT ![s] = now]
        /\ sighted' = [sighted EXCEPT ![s] = @ \cup {now}]
        /\ written' = IF kept[s] = None THEN written \cup {[sig |-> s, at |-> now]} ELSE written
    BY <1>7 DEF P!processEvent, P!Seen
  <2> HIDE DEF kept, s
  <2>3. WorkTypes'
    BY <1>2, <1>3, <1>4, <2>1, <2>2, ProcessorAssumption DEF WorkInv, WorkTypes
  <2>4. Remembers'
    BY <1>3, <1>4, <2>1, <2>2, ProcessorAssumption DEF WorkInv, WorkTypes, Remembers
  <2>5. \A a \in written' : a.at <= now'
    BY <1>4, <2>2 DEF WorkInv, WorkTypes
  <2>6. P!WrittenApart'
    <3> SUFFICES ASSUME NEW a \in written', NEW t \in sighted'[a.sig], t < a.at PROVE a.at - t > Window
      BY DEF P!WrittenApart
    <3>1. t \in sighted[a.sig]
      BY <2>1, <2>2, <2>5, <1>4 DEF WorkInv, WorkTypes
    <3>2. CASE a \in written
      BY <3>1, <3>2 DEF WorkInv, P!WrittenApart
    <3>3. CASE a = [sig |-> s, at |-> now] /\ kept[s] = None
      BY <1>3, <2>1, <3>1, <3>3
    <3> QED
      BY <2>2, <3>2, <3>3
  <2> QED
    BY <1>4, <2>3, <2>4, <2>5, <2>6 DEF WorkInv, CallInv
<1> QED
  BY <1>5, <1>6, <1>7

\* The invariant is inductive.
LEMMA WorkStep ==
    ASSUME WorkInv, [P!Next]_(P!vars)
    PROVE  WorkInv'
<1>1. ASSUME NEW w \in Workers, P!Take(w) \/ P!Panics(w) \/ P!Report(w) \/ P!WorkerEnds(w) PROVE WorkInv'
  <2>1. UNCHANGED <<sender, caller, deduplicator, sighted, written, now, shutdown>>
    BY <1>1 DEF P!Take, P!Panics, P!Report, P!WorkerEnds, P!callerVars
  <2>2. worker[w].at \in {"process", "report"} => worker[w].event \in Queued
    BY DEF WorkInv, WorkTypes, Tasks, P!Idle, P!Ended
  <2>3. WorkTypes'
    <3> USE ProcessorAssumption DEF WorkInv, WorkTypes, Tasks
    <3>1. CASE P!Take(w)
      BY <2>1, <3>1 DEF P!Take
    <3>2. CASE P!Panics(w)
      BY <2>1, <2>2, <3>2 DEF P!Panics, P!AfterPanic
    <3>3. CASE P!Report(w)
      BY <2>1, <2>2, <3>3 DEF P!Report
    <3>4. CASE P!WorkerEnds(w)
      BY <2>1, <3>4 DEF P!WorkerEnds
    <3> QED
      BY <1>1, <3>1, <3>2, <3>3, <3>4
  <2> QED
    BY <2>1, <2>3 DEF WorkInv, CallInv, Remembers, P!WrittenApart
<1>2. CASE P!Shutdown \/ P!ShutdownEnds
  BY <1>2 DEF P!Shutdown, P!ShutdownEnds, P!callerVars, P!workVars, WorkInv, WorkTypes, CallInv, Remembers, P!WrittenApart
<1>3. CASE P!Tick
  <2>1. UNCHANGED <<events, resultChan, worker, sender, caller, deduplicator, sighted, written, shutdown>> /\ now' = now + 1
        /\ now < MaxNow
    BY <1>3 DEF P!Tick, P!callerVars, P!workVars
  <2>2. WorkTypes' /\ CallInv' /\ P!WrittenApart'
    BY <2>1, ProcessorAssumption DEF WorkInv, WorkTypes, CallInv, P!WrittenApart
  <2>3. Remembers' /\ \A a \in written' : a.at <= now'
    BY <2>1, ProcessorAssumption DEF WorkInv, WorkTypes, Remembers
  <2> QED
    BY <2>2, <2>3 DEF WorkInv
<1>4. CASE UNCHANGED P!vars
  BY <1>4 DEF P!vars, WorkInv, WorkTypes, CallInv, Remembers, P!WrittenApart
<1> QED
  BY <1>1, <1>2, <1>3, <1>4, CallerMoves, ProcessMoves DEF P!Next, P!WorkerStep

(***************************************************************************)
(* For any number of clients, alerts, callers and workers: whoever the hub *)
(* or the pings are about to send to has an open channel, and two alerts   *)
(* of one signature are written more than a window apart.                  *)
(***************************************************************************)
THEOREM StreamsStayApart == ServicesSpec => []StreamsKeepApart
<1>1. ServicesInit => StreamInv /\ WorkInv
  BY StreamInit, WorkInit DEF ServicesInit
<1>2. StreamInv /\ WorkInv /\ [ServicesNext]_servicesVars => (StreamInv /\ WorkInv)'
  BY StreamStep, WorkStep, PartsMove
<1>3. StreamInv /\ WorkInv => StreamsKeepApart
  BY DEF StreamInv, StreamTypes, WorkInv, StreamsKeepApart, W!NoSendOnClosed
<1> QED
  BY <1>1, <1>2, <1>3, PTL DEF ServicesSpec
-----------------------------------------------------------------------------
(* Sequences.                                                                *)

\* The parts count with the one Cardinality.
LEMMA CountsAlike ==
    \A X : I!Cardinality(X) = Cardinality(X) /\ A!Cardinality(X) = Cardinality(X) /\ B!Cardinality(X) = Cardinality(X)
BY DEF I!Cardinality, A!Cardinality, B!Cardinality, Cardinality

\* A function on 1 .. n is a sequence.
LEMMA FunctionIsSeq ==
    ASSUME NEW S, NEW n \in Nat, NEW f \in [1 .. n -> S]
    PROVE  f \in Seq(S) /\ Len(f) = n
<1>1. f \in Seq(S)
  BY SeqDef
<1> QED
  BY <1>1, LenProperties

\* The members of a sequence, and whether they differ.
Members(q) == {q[k] : k \in DOMAIN q}
Distinct(q) == \A i, j \in DOMAIN q : i # j => q[i] # q[j]

\* What is appended to a sequence, or put behind it, joins its members, which go on to differ if
\* what comes is new.
LEMMA MembersJoin ==
    ASSUME NEW S, NEW q \in Seq(S), NEW r \in Seq(S), NEW x \in S
    PROVE  /\ Members(Append(q, x)) = Members(q) \cup {x}
           /\ Distinct(q) /\ x \notin Members(q) => Distinct(Append(q, x))
           /\ Members(q \o r) = Members(q) \cup Members(r)
           /\ Distinct(q) /\ Distinct(r) /\ Members(q) \cap Members(r) = {} => Distinct(q \o r)
<1>1. /\ DOMAIN q = 1 .. Len(q) /\ Len(q) \in Nat /\ DOMAIN r = 1 .. Len(r) /\ Len(r) \in Nat
  BY LenProperties
<1>2. /\ Append(q, x) \in Seq(S) /\ Len(Append(q, x)) = Len(q) + 1
      /\ \A i \in 1 .. Len(q) : Append(q, x)[i] = q[i]
      /\ Append(q, x)[Len(q) + 1] = x
  BY AppendProperties
<1>3. /\ q \o r \in Seq(S) /\ Len(q \o r) = Len(q) + Len(r)
      /\ \A i \in 1 .. Len(q) + Len(r) : (q \o r)[i] = IF i <= Len(q) THEN q[i] ELSE r[i - Len(q)]
  BY ConcatProperties
<1> DEFINE a == Append(q, x)
           c == q \o r
<1>4. /\ DOMAIN a = 1 .. Len(q) + 1 /\ \A i \in 1 .. Len(q) : a[i] = q[i]
      /\ a[Len(q) + 1] = x
  BY <1>2, LenProperties
<1>5. /\ DOMAIN c = 1 .. Len(q) + Len(r)
      /\ \A i \in 1 .. Len(q) + Len(r) : c[i] = IF i <= Len(q) THEN q[i] ELSE r[i - Len(q)]
  BY <1>3, LenProperties
<1> HIDE DEF a, c
<1>6. \A j \in 1 .. Len(r) : c[Len(q) + j] = r[j] /\ Len(q) + j \in DOMAIN c
  BY <1>1, <1>5
<1>7. Members(a) = Members(q) \cup {x}
  BY <1>1, <1>4 DEF Members
<1>8. Distinct(q) /\ x \notin Members(q) => Distinct(a)
  BY <1>1, <1>4 DEF Distinct, Members
<1>9. Members(c) = Members(q) \cup Members(r)
  <2>1. Members(c) \subseteq Members(q) \cup Members(r)
    <3> SUFFICES ASSUME NEW i \in 1 .. Len(q) + Len(r) PROVE c[i] \in Members(q) \cup Members(r)
      BY <1>5 DEF Members
    <3>1. CASE i <= Len(q)
      BY <1>1, <1>5, <3>1 DEF Members
    <3>2. CASE i > Len(q)
      <4>1. i - Len(q) \in 1 .. Len(r) /\ c[i] = r[i - Len(q)]
        BY <1>1, <1>5, <3>2
      <4> QED
        BY <1>1, <4>1 DEF Members
    <3> QED
      BY <1>1, <3>1, <3>2
  <2>2. Members(q) \subseteq Members(c)
    BY <1>1, <1>5 DEF Members
  <2>3. Members(r) \subseteq Members(c)
    BY <1>1, <1>6 DEF Members
  <2> QED
    BY <2>1, <2>2, <2>3
<1>10. ASSUME Distinct(q), Distinct(r), Members(q) \cap Members(r) = {} PROVE Distinct(c)
  <2> SUFFICES ASSUME NEW i \in DOMAIN c, NEW j \in DOMAIN c, i < j PROVE c[i] # c[j]
    BY <1>1, <1>5 DEF Distinct
  <2>1. CASE j <= Len(q)
    BY <1>1, <1>5, <1>10, <2>1 DEF Distinct
  <2>2. CASE i > Len(q)
    <3>1. /\ i - Len(q) \in 1 .. Len(r) /\ c[i] = r[i - Len(q)] /\ j - Len(q) \in 1 .. Len(r)
          /\ c[j] = r[j - Len(q)] /\ i - Len(q) # j - Len(q)
      BY <1>1, <1>5, <2>2
    <3> QED
      BY <1>1, <1>10, <3>1 DEF Distinct
  <2>3. CASE i <= Len(q) /\ j > Len(q)
    <3>1. c[i] \in Members(q) /\ c[j] \in Members(r)
      BY <1>1, <1>5, <2>3 DEF Members
    <3> QED
      BY <1>10, <3>1
  <2> QED
    BY <1>1, <1>5, <2>1, <2>2, <2>3
<1> QED
  BY <1>7, <1>8, <1>9, <1>10 DEF a, c
-----------------------------------------------------------------------------
(* The integrations.                                                         *)

Hooks == Webhooks \cup {I!DefaultRetryPolicy(w) : w \in Webhooks}
Deliveries == [hook : Hooks, alert : I!AlertIds, attempts : Nat, status : {"pending", "delivered", "failed"}, taken : Nat]

\* A delivery is tried within its policy.
HookInv ==
    /\ webhooks \in [Ids -> Hooks \cup {None}] /\ deliveries \in Seq(Deliveries)
    /\ sent \in Seq(Nat) /\ Len(sent) <= MaxKept
    /\ \A n \in 1 .. Len(deliveries) :
          /\ deliveries[n].attempts > 0 => deliveries[n].attempts <= deliveries[n].hook.retries + 1
          /\ deliveries[n].status = "delivered" => deliveries[n].taken >= 1

Flushes == [events : Seq(Nat), pc : {"begin", "send", "done"}]

\* What a flush has taken and not yet ended with.
Held(f) == IF f.pc = "send" THEN Members(f.events) ELSE {}

\* Every event accepted is at one place: in the buffer, with one flush, with Splunk or gone.
SplunkInv ==
    /\ sends \in 0 .. MaxSends /\ eventsSent \in Nat /\ splunkState \in {"unknown", "connected", "error"}
    /\ buffer \in Seq(Nat) /\ flushes \in Seq(Flushes) /\ Len(flushes) <= MaxFlushes /\ splunk \in Seq(Nat)
    /\ eventsSent <= Len(splunk)
    /\ Distinct(buffer) /\ Distinct(splunk) /\ Members(buffer) \cap Members(splunk) = {}
    /\ \A e \in Members(buffer) \cup Members(splunk) : e <= sends
    /\ \A n \in 1 .. Len(flushes) :
          /\ flushes[n].pc = "send" => Distinct(flushes[n].events)
          /\ Held(flushes[n]) \cap Members(buffer) = {} /\ Held(flushes[n]) \cap Members(splunk) = {}
          /\ \A e \in Held(flushes[n]) : e <= sends
          /\ \A m \in 1 .. Len(flushes) : n # m => Held(flushes[n]) \cap Held(flushes[m]) = {}

Creators == [alert : I!AlertIds, pc : {"post", "store", "done"}, incident : Nat]
Incidents == [alert : I!AlertIds, state : {"new", "in progress", "resolved", "closed"}]
ServiceInv ==
    /\ incidents \in Seq(Incidents)
    /\ creators \in Seq(Creators) /\ Len(creators) <= MaxCreates /\ made \in Nat
    /\ serviceState \in {"unknown", "connected", "error"}

IntegrationInv == HookInv /\ SplunkInv /\ ServiceInv

\* A webhook as the manager keeps it has a number of retries.
LEMMA HooksHaveRetries == \A h \in Hooks : h.retries \in Int
<1>1. \A w \in Webhooks : DOMAIN w = {"enabled", "severities", "rules", "retries", "timeout"} /\ w.retries \in Int
  BY IntegrationAssumption, Zenon
<1>2. ASSUME NEW w \in Webhooks PROVE I!DefaultRetryPolicy(w).retries \in Int
  <2>1. DefaultRetries \in Nat /\ w.retries \in Int /\ "retries" \in DOMAIN w
    BY <1>1, IntegrationAssumption
  <2>2. CASE w.retries = 0
    <3> DEFINE v == [w EXCEPT !.retries = DefaultRetries]
    <3>1. v.retries = DefaultRetries /\ [v EXCEPT !.timeout = DefaultTimeout].retries = v.retries
      BY <2>1
    <3> QED
      BY <2>1, <2>2, <3>1 DEF I!DefaultRetryPolicy
  <2> QED
    BY <2>1, <2>2 DEF I!DefaultRetryPolicy
<1> QED
  BY <1>1, <1>2 DEF Hooks

\* The first states have the invariant.
LEMMA IntegrationInit == I!Init => IntegrationInv
<1> SUFFICES ASSUME I!Init PROVE IntegrationInv
  OBVIOUS
<1>1. HookInv
  BY IntegrationAssumption DEF I!Init, HookInv
<1>2. SplunkInv
  BY IntegrationAssumption DEF I!Init, SplunkInv, Distinct, Members
<1>3. ServiceInv
  BY IntegrationAssumption DEF I!Init, ServiceInv
<1> QED
  BY <1>1, <1>2, <1>3 DEF IntegrationInv

\* The log of deliveries is bounded.
LEMMA LogIsBounded ==
    ASSUME HookInv, NEW n \in Nat
    PROVE  I!saveLog(n) \in Seq(Nat) /\ Len(I!saveLog(n)) <= MaxKept
<1>1. sent \in Seq(Nat) /\ Len(sent) \in Nat /\ Len(sent) <= MaxKept /\ MaxKept \in Nat
  BY IntegrationAssumption, LenProperties DEF HookInv
<1>2. Append(sent, n) \in Seq(Nat) /\ Len(Append(sent, n)) = Len(sent) + 1
  BY <1>1, AppendProperties
<1> DEFINE m == IF Len(sent) = MaxKept THEN 2 ELSE 1
<1>3. m \in 1 .. Len(sent) + 2 /\ m \in {1, 2} /\ (m = 1 => Len(sent) < MaxKept)
  BY <1>1
<1>4. I!saveLog(n) = SubSeq(Append(sent, n), m, Len(sent) + 1)
  BY DEF I!saveLog
<1>5. \A i \in m .. Len(sent) + 1 : Append(sent, n)[i] \in Nat
  BY <1>1, <1>2, <1>3, ElementOfSeq
<1> HIDE DEF m
<1> DEFINE q == SubSeq(Append(sent, n), m, Len(sent) + 1)
<1>6. q \in Seq(Nat) /\ Len(q) = IF m <= Len(sent) + 1 THEN Len(sent) + 1 - m + 1 ELSE 0
  BY <1>1, <1>3, <1>5, SubSeqProperties
<1> HIDE DEF q
<1>7. Len(q) <= MaxKept
  BY <1>1, <1>3, <1>6
<1> QED
  BY <1>4, <1>6, <1>7 DEF q

\* A delivery that is replaced by one within the policy leaves the others alone.
LEMMA DeliveryReplaced ==
    ASSUME HookInv, NEW n \in DOMAIN deliveries, NEW new \in Deliveries,
           new.attempts > 0 => new.attempts <= new.hook.retries + 1,
           new.status = "delivered" => new.taken >= 1,
           deliveries' = [deliveries EXCEPT ![n] = new],
           sent' = sent \/ sent' = I!saveLog(n), UNCHANGED webhooks
    PROVE  HookInv'
<1>1. n \in 1 .. Len(deliveries) /\ n \in Nat
  BY LenProperties DEF HookInv
<1>2. /\ deliveries' \in Seq(Deliveries) /\ Len(deliveries') = Len(deliveries)
      /\ \A m \in 1 .. Len(deliveries) : deliveries'[m] = IF m = n THEN new ELSE deliveries[m]
  BY <1>1, ExceptSeq DEF HookInv
<1>3. sent' \in Seq(Nat) /\ Len(sent') <= MaxKept
  BY <1>1, LogIsBounded DEF HookInv
<1> QED
  BY <1>2, <1>3 DEF HookInv

\* One attempt keeps to the policy.
LEMMA AttemptKeepsPolicy ==
    ASSUME HookInv, NEW n \in DOMAIN deliveries, I!Attempt(n)
    PROVE  HookInv'
<1> DEFINE d == deliveries[n]
<1>1. d \in Deliveries /\ d.hook.retries \in Int
  <2>1. d \in Deliveries
    BY LenProperties DEF HookInv
  <2>2. d.hook \in Hooks
    BY <2>1 DEF Deliveries
  <2> QED
    BY <2>1, <2>2, HooksHaveRetries
<1>2. d.status = "pending" /\ d.attempts <= d.hook.retries /\ UNCHANGED webhooks
  BY DEF I!Attempt, I!MayTry
<1>3. PICK o \in I!sendRequest(d.hook) :
        LET status == CASE o[1] = "2xx" -> "delivered" [] o[1] = "4xx" -> "failed" [] OTHER -> "pending"
        IN /\ deliveries' = [deliveries EXCEPT ![n].attempts = @ + 1, ![n].status = status, ![n].taken = @ + o[2]]
           /\ sent' = IF status = "pending" THEN sent ELSE I!saveLog(n)
  BY DEF I!Attempt
<1> DEFINE status == CASE o[1] = "2xx" -> "delivered" [] o[1] = "4xx" -> "failed" [] OTHER -> "pending"
           x == d.attempts + 1
           k == d.taken + o[2]
           new == [d EXCEPT !.attempts = x, !.status = status, !.taken = k]
<1>4. /\ o[2] \in {0, 1} /\ (o[1] = "2xx" => o[2] = 1)
      /\ o[1] \in {"2xx", "4xx", "429", "5xx", "error"}
  BY DEF I!sendRequest
<1>5. status \in {"pending", "delivered", "failed"} /\ (status = "delivered" => o[2] = 1)
  BY <1>4
<1>6. x \in Nat /\ k \in Nat /\ k >= o[2] /\ x <= d.hook.retries + 1
  BY <1>1, <1>2, <1>4 DEF Deliveries
<1>7. sent' = sent \/ sent' = I!saveLog(n)
  BY <1>3
<1>8. deliveries' = [deliveries EXCEPT ![n].attempts = @ + 1, ![n].status = status, ![n].taken = @ + o[2]]
  BY <1>3
<1> HIDE DEF status
<1>9. deliveries' = [deliveries EXCEPT ![n] = new]
  BY <1>8
<1> HIDE DEF d, x, k
<1>10. new \in Deliveries /\ new.hook = d.hook /\ new.attempts = x /\ new.status = status /\ new.taken = k
  BY <1>1, <1>5, <1>6 DEF Deliveries
<1> HIDE DEF new
<1>11. new.status = "delivered" => new.taken >= 1
  BY <1>4, <1>5, <1>6, <1>10
<1>12. new.attempts > 0 => new.attempts <= new.hook.retries + 1
  BY <1>6, <1>10
<1> QED
  BY <1>2, <1>7, <1>9, <1>10, <1>11, <1>12, DeliveryReplaced

\* A delivery without attempts left has failed.
LEMMA GivingUpKeepsPolicy ==
    ASSUME HookInv, NEW n \in DOMAIN deliveries, I!GiveUp(n)
    PROVE  HookInv'
<1> DEFINE new == [deliveries[n] EXCEPT !.status = "failed"]
<1>1. deliveries[n] \in Deliveries /\ (deliveries[n].attempts > 0 => deliveries[n].attempts <= deliveries[n].hook.retries + 1)
  BY LenProperties DEF HookInv
<1>2. /\ new \in Deliveries /\ new.hook = deliveries[n].hook /\ new.attempts = deliveries[n].attempts
      /\ new.status = "failed"
  BY <1>1 DEF Deliveries
<1>3. deliveries' = [deliveries EXCEPT ![n] = new] /\ sent' = I!saveLog(n) /\ UNCHANGED webhooks
  BY DEF I!GiveUp
<1> HIDE DEF new
<1> QED
  BY <1>1, <1>2, <1>3, DeliveryReplaced

\* A goroutine for each webhook that fits starts with all its attempts.
LEMMA DeliveryBegins ==
    ASSUME HookInv, NEW a \in HookAlerts, I!DeliverAlert(a)
    PROVE  HookInv'
<1>1. PICK fit \in I!SetToSeqs(I!Fitting(a)) :
        deliveries' = deliveries \o [k \in DOMAIN fit |->
            [hook |-> webhooks[fit[k]], alert |-> a.id, attempts |-> 0, status |-> "pending", taken |-> 0]]
  BY DEF I!DeliverAlert
<1> DEFINE n == Cardinality(I!Fitting(a))
           new == [k \in DOMAIN fit |->
                     [hook |-> webhooks[fit[k]], alert |-> a.id, attempts |-> 0, status |-> "pending", taken |-> 0]]
<1>2. fit \in [1 .. n -> I!Fitting(a)]
  BY CountsAlike DEF I!SetToSeqs
<1>3. n \in Nat
  <2>1. I!Fitting(a) \subseteq Ids /\ IsFiniteSet(Ids)
    BY IntegrationAssumption DEF I!Fitting
  <2>2. IsFiniteSet(I!Fitting(a))
    BY <2>1, FS_Subset
  <2> QED
    BY <2>2, FS_CardinalityType
<1>4. \A k \in 1 .. n : webhooks[fit[k]] \in Hooks /\ a.id \in I!AlertIds
  BY <1>2 DEF I!Fitting, HookInv, I!AlertIds
<1> HIDE DEF n
<1>5. new \in [1 .. n -> Deliveries]
  BY <1>2, <1>4 DEF Deliveries
<1>6. new \in Seq(Deliveries) /\ Len(new) = n
  BY <1>3, <1>5, FunctionIsSeq
<1>7. \A k \in 1 .. n : new[k].attempts = 0 /\ new[k].status = "pending"
  BY <1>2, <1>4
<1>8. deliveries' = deliveries \o new
  BY <1>1
<1> HIDE DEF new
<1>9. /\ deliveries' \in Seq(Deliveries) /\ Len(deliveries') = Len(deliveries) + n
      /\ \A i \in 1 .. Len(deliveries) + n : deliveries'[i] =
            IF i <= Len(deliveries) THEN deliveries[i] ELSE new[i - Len(deliveries)]
  BY <1>6, <1>8, ConcatProperties DEF HookInv
<1>10. Len(deliveries) \in Nat
  BY LenProperties DEF HookInv
<1>11. ASSUME NEW i \in 1 .. Len(deliveries')
       PROVE  /\ deliveries'[i].attempts > 0 => deliveries'[i].attempts <= deliveries'[i].hook.retries + 1
              /\ deliveries'[i].status = "delivered" => deliveries'[i].taken >= 1
  <2>1. CASE i <= Len(deliveries)
    BY <1>9, <1>10, <2>1 DEF HookInv
  <2>2. CASE i > Len(deliveries)
    <3>1. i - Len(deliveries) \in 1 .. n /\ deliveries'[i] = new[i - Len(deliveries)]
      BY <1>3, <1>9, <1>10, <2>2
    <3> QED
      BY <1>7, <3>1
  <2> QED
    BY <1>9, <1>10, <2>1, <2>2
<1>12. UNCHANGED <<webhooks, sent>>
  BY DEF I!DeliverAlert
<1> QED
  BY <1>9, <1>11, <1>12 DEF HookInv

\* The invariant of the webhooks is inductive.
LEMMA HookStep ==
    ASSUME IntegrationInv, I!HookNext
    PROVE  IntegrationInv'
<1>1. HookInv /\ SplunkInv /\ ServiceInv
  BY DEF IntegrationInv
<1>2. UNCHANGED <<enabled, buffer, sends, flushes, splunk, eventsSent, splunkState, creators, mappings, incidents,
                  made, serviceState>>
  BY DEF I!HookNext, I!WebhookRequests, I!CreateWebhook, I!UpdateWebhook, I!DeleteWebhook, I!DeliverAlert,
         I!Attempt, I!GiveUp, I!splunkVars, I!serviceVars
<1>3. SplunkInv' /\ ServiceInv'
  BY <1>1, <1>2 DEF SplunkInv, ServiceInv
<1>4. HookInv'
  <2>1. CASE I!WebhookRequests
    <3>1. webhooks' \in [Ids -> Hooks \cup {None}]
      BY <1>1, <2>1 DEF I!WebhookRequests, I!CreateWebhook, I!UpdateWebhook, I!DeleteWebhook, HookInv, Hooks
    <3>2. UNCHANGED <<deliveries, sent>>
      BY <2>1 DEF I!WebhookRequests, I!CreateWebhook, I!UpdateWebhook, I!DeleteWebhook
    <3> QED
      BY <1>1, <3>1, <3>2 DEF HookInv
  <2> QED
    BY <1>1, <2>1, DeliveryBegins, AttemptKeepsPolicy, GivingUpKeepsPolicy DEF I!HookNext
<1> QED
  BY <1>3, <1>4 DEF IntegrationInv

\* A flush takes the buffer, which it leaves empty.
LEMMA FlushTakes ==
    ASSUME SplunkInv, NEW n \in 1 .. Len(flushes), I!FlushBegins(n)
    PROVE  SplunkInv'
<1> DEFINE new == [events |-> buffer, pc |-> IF buffer = <<>> THEN "done" ELSE "send"]
<1>1. flushes' = [flushes EXCEPT ![n] = new] /\ buffer' = <<>> /\ UNCHANGED <<sends, splunk, eventsSent, splunkState>>
  BY DEF I!FlushBegins, I!TakeBuffer
<1>2. new \in Flushes /\ Held(new) \subseteq Members(buffer) /\ Distinct(new.events)
  BY DEF SplunkInv, Flushes, Held
<1>3. flushes \in Seq(Flushes) /\ Len(flushes) \in Nat
  BY LenProperties DEF SplunkInv
<1> HIDE DEF new
<1>4. /\ flushes' \in Seq(Flushes) /\ Len(flushes') = Len(flushes)
      /\ \A m \in 1 .. Len(flushes) : flushes'[m] = IF m = n THEN new ELSE flushes[m]
  BY <1>1, <1>2, <1>3, ExceptSeq
<1>5. buffer' \in Seq(Nat) /\ Distinct(buffer') /\ Members(buffer') = {}
  BY <1>1 DEF Distinct, Members
<1>6. /\ Held(new) \cap Members(splunk) = {} /\ \A e \in Held(new) : e <= sends
      /\ \A m \in 1 .. Len(flushes) : Held(new) \cap Held(flushes[m]) = {}
  BY <1>2 DEF SplunkInv
<1>7. ASSUME NEW m \in 1 .. Len(flushes')
      PROVE  /\ flushes'[m].pc = "send" => Distinct(flushes'[m].events)
             /\ Held(flushes'[m]) \cap Members(splunk) = {} /\ \A e \in Held(flushes'[m]) : e <= sends
             /\ \A k \in 1 .. Len(flushes') : m # k => Held(flushes'[m]) \cap Held(flushes'[k]) = {}
  <2>1. CASE m = n
    BY <1>2, <1>4, <1>6, <2>1
  <2>2. CASE m # n
    BY <1>4, <1>6, <2>2 DEF SplunkInv
  <2> QED
    BY <2>1, <2>2
<1> QED
  BY <1>1, <1>4, <1>5, <1>7 DEF SplunkInv

\* A flush that ends has given Splunk its events, or none.
LEMMA FlushGives ==
    ASSUME SplunkInv, NEW n \in 1 .. Len(flushes), I!FlushEnds(n)
    PROVE  SplunkInv'
<1> DEFINE new == [flushes[n] EXCEPT !.pc = "done"]
           given == flushes[n].events
<1>1. flushes \in Seq(Flushes) /\ Len(flushes) \in Nat /\ flushes[n] \in Flushes /\ flushes[n].pc = "send"
  BY LenProperties, ElementOfSeq DEF SplunkInv, I!FlushEnds
<1>2. new \in Flushes /\ Held(new) = {} /\ new.pc # "send"
  BY <1>1 DEF Flushes, Held
<1>3. flushes' = [flushes EXCEPT ![n] = new] /\ UNCHANGED <<buffer, sends>>
  BY <1>1 DEF I!FlushEnds
<1> HIDE DEF new
<1>4. /\ flushes' \in Seq(Flushes) /\ Len(flushes') = Len(flushes)
      /\ \A m \in 1 .. Len(flushes) : flushes'[m] = IF m = n THEN new ELSE flushes[m]
  BY <1>1, <1>2, <1>3, ExceptSeq
<1>5. given \in Seq(Nat) /\ Distinct(given) /\ Held(flushes[n]) = Members(given)
  BY <1>1 DEF Flushes, SplunkInv, Held
<1>6. splunk \in Seq(Nat) /\ Len(splunk) \in Nat /\ Len(given) \in Nat
  BY <1>5, LenProperties DEF SplunkInv
<1>7. Members(given) \cap Members(splunk) = {} /\ Members(given) \cap Members(buffer) = {} /\ \A e \in Members(given) : e <= sends
  BY <1>5 DEF SplunkInv
<1>8. /\ \A m \in 1 .. Len(flushes) : m # n => Members(given) \cap Held(flushes[m]) = {}
  BY <1>5 DEF SplunkInv
<1>9. CASE splunk' = splunk \o given
  <2>1. splunk' \in Seq(Nat) /\ Len(splunk') = Len(splunk) + Len(given)
    BY <1>5, <1>6, <1>9, ConcatProperties
  <2>2. Members(splunk') = Members(splunk) \cup Members(given) /\ Distinct(splunk')
    <3>1. 0 \in Nat /\ Distinct(splunk)
      BY DEF SplunkInv
    <3> HIDE DEF given
    <3> QED
      BY <1>5, <1>6, <1>7, <1>9, <3>1, MembersJoin, SMTT(30)
  <2>3. eventsSent' \in {eventsSent, eventsSent + Len(given)} /\ splunkState' \in {"unknown", "connected", "error"}
    BY DEF I!FlushEnds, SplunkInv
  <2>4. eventsSent' \in Nat /\ eventsSent' <= Len(splunk')
    BY <1>6, <2>1, <2>3, SMTT(30) DEF SplunkInv
  <2> HIDE DEF given
  <2> QED
    BY <1>2, <1>3, <1>4, <1>7, <1>8, <2>1, <2>2, <2>3, <2>4 DEF SplunkInv
<1>10. CASE UNCHANGED <<splunk, eventsSent>>
  <2>1. splunkState' \in {"unknown", "connected", "error"}
    BY DEF I!FlushEnds, SplunkInv
  <2> QED
    BY <1>2, <1>3, <1>4, <1>10, <2>1 DEF SplunkInv
<1> QED
  BY <1>9, <1>10 DEF I!FlushEnds

\* A flush that has just begun holds nothing.
LEMMA FlushStarts ==
    ASSUME SplunkInv, Len(flushes) < MaxFlushes, flushes' = Append(flushes, [events |-> <<>>, pc |-> "begin"])
    PROVE  /\ flushes' \in Seq(Flushes) /\ Len(flushes') <= MaxFlushes
           /\ Len(flushes') = Len(flushes) + 1 /\ Len(flushes) \in Nat
           /\ \A m \in 1 .. Len(flushes') : Held(flushes'[m]) = IF m <= Len(flushes) THEN Held(flushes[m]) ELSE {}
           /\ \A m \in 1 .. Len(flushes') :
                 flushes'[m].pc = "send" => m <= Len(flushes) /\ flushes'[m] = flushes[m]
<1> DEFINE new == [events |-> <<>>, pc |-> "begin"]
<1>1. new \in Flushes /\ Held(new) = {} /\ new.pc # "send"
  BY DEF Flushes, Held
<1>2. flushes \in Seq(Flushes) /\ Len(flushes) \in Nat /\ MaxFlushes \in Nat
  BY LenProperties, IntegrationAssumption DEF SplunkInv
<1>3. flushes' = Append(flushes, new)
  OBVIOUS
<1> HIDE DEF new
<1>4. /\ flushes' \in Seq(Flushes) /\ Len(flushes') = Len(flushes) + 1
      /\ \A m \in 1 .. Len(flushes) : flushes'[m] = flushes[m]
      /\ flushes'[Len(flushes) + 1] = new
  BY <1>1, <1>2, <1>3, AppendProperties
<1>5. \A m \in 1 .. Len(flushes') : (m <= Len(flushes) /\ flushes'[m] = flushes[m]) \/ (m = Len(flushes) + 1 /\ flushes'[m] = new)
  BY <1>2, <1>4
<1>6. \A m \in 1 .. Len(flushes') : Held(flushes'[m]) = IF m <= Len(flushes) THEN Held(flushes[m]) ELSE {}
  <2> SUFFICES ASSUME NEW m \in 1 .. Len(flushes')
               PROVE  Held(flushes'[m]) = IF m <= Len(flushes) THEN Held(flushes[m]) ELSE {}
    OBVIOUS
  <2>1. CASE m <= Len(flushes) /\ flushes'[m] = flushes[m]
    BY <2>1
  <2>2. CASE m = Len(flushes) + 1 /\ flushes'[m] = new
    <3>1. ~(m <= Len(flushes))
      BY <1>2, <2>2
    <3> QED
      BY <1>1, <2>2, <3>1
  <2> QED
    BY <1>5, <2>1, <2>2
<1>7. \A m \in 1 .. Len(flushes') : flushes'[m].pc = "send" => m <= Len(flushes) /\ flushes'[m] = flushes[m]
  BY <1>1, <1>5
<1>8. Len(flushes') <= MaxFlushes
  BY <1>2, <1>4
<1> QED
  BY <1>2, <1>4, <1>6, <1>7, <1>8

\* An event is accepted under a number that is nowhere yet.
LEMMA AlertAccepted ==
    ASSUME SplunkInv, I!SendAlert
    PROVE  SplunkInv'
<1>1. /\ sends \in Nat /\ sends' = sends + 1 /\ sends' \in 0 .. MaxSends /\ buffer' = Append(buffer, sends + 1)
      /\ UNCHANGED <<splunk, eventsSent, splunkState>>
  BY IntegrationAssumption DEF I!SendAlert, SplunkInv
<1> DEFINE x == sends + 1
<1>2. x \in Nat /\ x \notin Members(buffer) /\ x \notin Members(splunk) /\ \A m \in 1 .. Len(flushes) : x \notin Held(flushes[m])
  <2>1. x \in Nat /\ ~(x <= sends)
    BY <1>1
  <2> HIDE DEF x
  <2> QED
    BY <2>1 DEF SplunkInv
<1>3. \A e : e \in Nat /\ e <= sends => e <= x
  BY <1>1
<1>4. /\ Members(buffer) \subseteq Nat /\ Members(splunk) \subseteq Nat
      /\ \A m \in 1 .. Len(flushes) : Held(flushes[m]) \subseteq Nat
  <2>1. \A q \in Seq(Nat) : Members(q) \subseteq Nat
    BY LenProperties, ElementOfSeq DEF Members
  <2>2. \A m \in 1 .. Len(flushes) : flushes[m].events \in Seq(Nat)
    <3>1. \A m \in 1 .. Len(flushes) : flushes[m] \in Flushes
      BY ElementOfSeq DEF SplunkInv
    <3> QED
      BY <3>1 DEF Flushes
  <2> QED
    BY <2>1, <2>2 DEF SplunkInv, Held
<1>5. /\ buffer' \in Seq(Nat) /\ Members(buffer') = Members(buffer) \cup {x} /\ Distinct(buffer')
  <2>1. buffer \in Seq(Nat) /\ Distinct(buffer)
    BY DEF SplunkInv
  <2>2. buffer' = Append(buffer, x)
    BY <1>1
  <2> HIDE DEF x
  <2> QED
    BY <1>2, <2>1, <2>2, MembersJoin, AppendProperties
<1>6. /\ flushes' \in Seq(Flushes) /\ Len(flushes') <= MaxFlushes /\ Len(flushes) \in Nat
      /\ \A m \in 1 .. Len(flushes') : Held(flushes'[m]) = IF m <= Len(flushes) THEN Held(flushes[m]) ELSE {}
      /\ \A m \in 1 .. Len(flushes') :
            flushes'[m].pc = "send" => m <= Len(flushes) /\ flushes'[m] = flushes[m]
  <2>1. CASE UNCHANGED flushes
    BY <2>1, LenProperties DEF SplunkInv
  <2>2. CASE Len(flushes) < MaxFlushes /\ flushes' = Append(flushes, [events |-> <<>>, pc |-> "begin"])
    BY <2>2, FlushStarts
  <2> QED
    BY <2>1, <2>2 DEF I!SendAlert
<1>7. ASSUME NEW m \in 1 .. Len(flushes')
      PROVE  /\ flushes'[m].pc = "send" => Distinct(flushes'[m].events)
             /\ Held(flushes'[m]) \cap Members(buffer') = {} /\ Held(flushes'[m]) \cap Members(splunk') = {}
             /\ \A e \in Held(flushes'[m]) : e <= sends'
             /\ \A k \in 1 .. Len(flushes') : m # k => Held(flushes'[m]) \cap Held(flushes'[k]) = {}
  <2>1. Len(flushes') \in Nat
    BY <1>6, LenProperties
  <2>2. CASE m <= Len(flushes)
    <3>1. m \in 1 .. Len(flushes) /\ Held(flushes'[m]) = Held(flushes[m])
      BY <1>6, <2>1, <2>2
    <3>2. flushes'[m].pc = "send" => Distinct(flushes'[m].events)
      BY <1>6, <3>1 DEF SplunkInv
    <3>3. Held(flushes'[m]) \cap Members(buffer') = {} /\ Held(flushes'[m]) \cap Members(splunk') = {}
      BY <1>1, <1>2, <1>5, <3>1 DEF SplunkInv
    <3>4. \A e \in Held(flushes'[m]) : e <= sends'
      BY <1>1, <1>3, <1>4, <3>1 DEF SplunkInv
    <3>5. ASSUME NEW k \in 1 .. Len(flushes'), m # k PROVE Held(flushes'[m]) \cap Held(flushes'[k]) = {}
      <4>1. CASE k <= Len(flushes)
        <5>1. k \in 1 .. Len(flushes) /\ Held(flushes'[k]) = Held(flushes[k])
          BY <1>6, <2>1, <4>1
        <5> QED
          BY <3>1, <3>5, <5>1 DEF SplunkInv
      <4>2. CASE ~(k <= Len(flushes))
        <5>1. Held(flushes'[k]) = {}
          BY <1>6, <4>2
        <5> QED
          BY <5>1
      <4> QED
        BY <4>1, <4>2
    <3> QED
      BY <3>2, <3>3, <3>4, <3>5
  <2>3. CASE ~(m <= Len(flushes))
    BY <1>6, <2>3
  <2> QED
    BY <2>2, <2>3
<1>8. \A e \in Members(buffer') \cup Members(splunk') : e <= sends'
  <2>1. x <= sends'
    BY <1>1
  <2> QED
    BY <1>1, <1>3, <1>4, <1>5, <2>1 DEF SplunkInv
<1>9. Members(buffer') \cap Members(splunk') = {}
  BY <1>1, <1>2, <1>5 DEF SplunkInv
<1> HIDE DEF x
<1> QED
  BY <1>1, <1>5, <1>6, <1>7, <1>8, <1>9 DEF SplunkInv

\* The invariant of Splunk is inductive.
LEMMA SplunkStep ==
    ASSUME IntegrationInv, I!SplunkNext
    PROVE  IntegrationInv'
<1>1. HookInv /\ SplunkInv /\ ServiceInv
  BY DEF IntegrationInv
<1> USE DEF I!SplunkNext, I!ConfigureSplunk, I!SendAlert, I!StartBackgroundFlush, I!TestSplunk, I!FlushBegins,
            I!FlushEnds, I!hookVars, I!serviceVars
<1>2. UNCHANGED <<webhooks, deliveries, sent, creators, mappings, incidents, made, serviceState>>
  OBVIOUS
<1>3. HookInv' /\ ServiceInv'
  BY <1>1, <1>2 DEF HookInv, ServiceInv
<1>4. SplunkInv'
  <2>1. CASE I!ConfigureSplunk \/ I!TestSplunk
    <3>1. UNCHANGED <<buffer, sends, flushes, splunk, eventsSent>>
      BY <2>1
    <3>2. splunkState' \in {"unknown", "connected", "error"}
      BY <1>1, <2>1 DEF SplunkInv
    <3> QED
      BY <1>1, <3>1, <3>2 DEF SplunkInv
  <2>2. CASE I!StartBackgroundFlush
    <3>1. UNCHANGED <<buffer, sends, splunk, eventsSent, splunkState>>
      BY <2>2
    <3>2. /\ flushes' \in Seq(Flushes) /\ Len(flushes') <= MaxFlushes
          /\ Len(flushes') = Len(flushes) + 1 /\ Len(flushes) \in Nat
          /\ \A m \in 1 .. Len(flushes') : Held(flushes'[m]) = IF m <= Len(flushes) THEN Held(flushes[m]) ELSE {}
          /\ \A m \in 1 .. Len(flushes') :
                flushes'[m].pc = "send" => m <= Len(flushes) /\ flushes'[m] = flushes[m]
      BY <1>1, <2>2, FlushStarts
    <3>3. ASSUME NEW m \in 1 .. Len(flushes')
          PROVE  /\ flushes'[m].pc = "send" => Distinct(flushes'[m].events)
                 /\ Held(flushes'[m]) \cap Members(buffer) = {} /\ Held(flushes'[m]) \cap Members(splunk) = {}
                 /\ \A e \in Held(flushes'[m]) : e <= sends
      <4>1. m <= Len(flushes) => m \in 1 .. Len(flushes)
        BY <3>2
      <4> QED
        BY <1>1, <3>2, <4>1 DEF SplunkInv
    <3>4. ASSUME NEW m \in 1 .. Len(flushes'), NEW k \in 1 .. Len(flushes'), m # k
          PROVE  Held(flushes'[m]) \cap Held(flushes'[k]) = {}
      <4>1. (m <= Len(flushes) => m \in 1 .. Len(flushes)) /\ (k <= Len(flushes) => k \in 1 .. Len(flushes))
        BY <3>2
      <4> QED
        BY <1>1, <3>2, <3>4, <4>1 DEF SplunkInv
    <3> QED
      BY <1>1, <3>1, <3>2, <3>3, <3>4 DEF SplunkInv
  <2>3. DOMAIN flushes = 1 .. Len(flushes)
    BY <1>1, LenProperties DEF SplunkInv
  <2> QED
    BY <1>1, <2>1, <2>2, <2>3, AlertAccepted, FlushTakes, FlushGives DEF I!SplunkNext
<1> QED
  BY <1>3, <1>4 DEF IntegrationInv

\* The invariant of ServiceNow is inductive.
LEMMA ServiceStep ==
    ASSUME IntegrationInv, I!ServiceNext
    PROVE  IntegrationInv'
<1>1. HookInv /\ SplunkInv /\ ServiceInv
  BY DEF IntegrationInv
<1>2. UNCHANGED <<webhooks, deliveries, sent, enabled, buffer, sends, flushes, splunk, eventsSent, splunkState>>
  BY DEF I!ServiceNext, I!CreateIncident, I!UpdateIncident, I!Post, I!StoreMapping, I!TestServiceNow,
         I!hookVars, I!splunkVars
<1>3. HookInv' /\ SplunkInv'
  BY <1>1, <1>2 DEF HookInv, SplunkInv
<1>4. ServiceInv'
  <2> USE DEF ServiceInv
  <2>6. ASSUME NEW n \in DOMAIN creators, NEW c \in Creators, creators' = [creators EXCEPT ![n] = c]
        PROVE  creators' \in Seq(Creators) /\ Len(creators') = Len(creators)
    BY <1>1, <2>6, ExceptSeq, LenProperties
  <2>7. ASSUME NEW n \in DOMAIN creators, NEW k \in Nat, NEW to \in {"store", "done"}
        PROVE  /\ [creators[n] EXCEPT !.pc = to] \in Creators
               /\ [creators[n] EXCEPT !.pc = to, !.incident = k] \in Creators
    <3>1. creators[n] \in Creators
      BY <1>1, LenProperties, ElementOfSeq
    <3> QED
      BY <3>1 DEF Creators
  <2>1. ASSUME NEW a \in I!AlertIds, I!CreateIncident(a) PROVE ServiceInv'
    BY <1>1, <2>1, IntegrationAssumption DEF I!CreateIncident, Creators
  <2>2. ASSUME NEW a \in I!AlertIds, I!UpdateIncident(a) PROVE ServiceInv'
    <3>1. PICK state \in {"in progress", "resolved", "closed"} :
              incidents' = [incidents EXCEPT ![mappings[a].incident].state = state]
      BY <2>2 DEF I!UpdateIncident
    <3> DEFINE k == mappings[a].incident
    <3>2. CASE k \in DOMAIN incidents
      <4>1. incidents' = [incidents EXCEPT ![k] = [incidents[k] EXCEPT !.state = state]]
        BY <3>1
      <4>2. incidents[k] \in Incidents /\ k \in 1 .. Len(incidents)
        BY <1>1, <3>2, LenProperties, ElementOfSeq
      <4>3. [incidents[k] EXCEPT !.state = state] \in Incidents
        BY <4>2 DEF Incidents
      <4> HIDE DEF k
      <4>4. incidents' \in Seq(Incidents)
        BY <1>1, <4>1, <4>2, <4>3, ExceptSeq
      <4> QED
        BY <1>1, <2>2, <4>4 DEF I!UpdateIncident
    <3>3. CASE k \notin DOMAIN incidents
      <4>2. incidents \in [1 .. Len(incidents) -> Incidents]
        BY <1>1, LenProperties
      <4>1. incidents' = incidents
        BY <3>1, <3>3, <4>2
      <4> QED
        BY <1>1, <2>2, <4>1 DEF I!UpdateIncident
    <3> QED
      BY <3>2, <3>3
  <2>3. ASSUME NEW n \in DOMAIN creators, I!Post(n) PROVE ServiceInv'
    <3>3. creators[n].alert \in I!AlertIds
      <4>1. creators[n] \in Creators
        BY <1>1, LenProperties, ElementOfSeq
      <4> QED
        BY <4>1 DEF Creators
    <3>4. incidents' \in Seq(Incidents)
      <4> DEFINE new == [alert |-> creators[n].alert, state |-> "new"]
      <4>1. new \in Incidents
        BY <3>3 DEF Incidents
      <4>2. incidents' = incidents \/ incidents' = Append(incidents, new)
        BY <2>3 DEF I!Post
      <4> HIDE DEF new
      <4> QED
        BY <1>1, <4>1, <4>2, AppendProperties
    <3>1. CASE creators' = [creators EXCEPT ![n].pc = "done"]
      <4>1. creators' = [creators EXCEPT ![n] = [creators[n] EXCEPT !.pc = "done"]]
        BY <3>1
      <4>2. creators' \in Seq(Creators) /\ Len(creators') = Len(creators)
        BY <4>1, <2>6, <2>7
      <4> QED
        BY <1>1, <2>3, <3>4, <4>2 DEF I!Post
    <3>2. CASE creators' = [creators EXCEPT ![n].pc = "store", ![n].incident = Len(incidents) + 1]
      <4>1. creators' = [creators EXCEPT ![n] = [creators[n] EXCEPT !.pc = "store", !.incident = Len(incidents) + 1]]
        BY <3>2
      <4>2. Len(incidents) + 1 \in Nat
        BY <1>1, LenProperties
      <4>3. creators' \in Seq(Creators) /\ Len(creators') = Len(creators)
        BY <4>1, <4>2, <2>6, <2>7
      <4> QED
        BY <1>1, <2>3, <3>4, <4>3 DEF I!Post
    <3> QED
      BY <2>3, <3>1, <3>2 DEF I!Post
  <2>4. ASSUME NEW n \in DOMAIN creators, I!StoreMapping(n) PROVE ServiceInv'
    <3>1. creators' = [creators EXCEPT ![n] = [creators[n] EXCEPT !.pc = "done"]]
      BY <2>4 DEF I!StoreMapping
    <3>2. creators' \in Seq(Creators) /\ Len(creators') = Len(creators)
      BY <3>1, <2>6, <2>7
    <3> QED
      BY <1>1, <2>4, <3>2 DEF I!StoreMapping
  <2>5. ASSUME I!TestServiceNow PROVE ServiceInv'
    BY <1>1, <2>5 DEF I!TestServiceNow
  <2> QED
    BY <2>1, <2>2, <2>3, <2>4, <2>5 DEF I!ServiceNext
<1> QED
  BY <1>3, <1>4 DEF IntegrationInv

\* The invariant is inductive.
LEMMA IntegrationStep ==
    ASSUME IntegrationInv, [I!Next]_(I!vars)
    PROVE  IntegrationInv'
<1>1. CASE UNCHANGED I!vars
  BY <1>1 DEF I!vars, IntegrationInv, HookInv, SplunkInv, ServiceInv
<1> QED
  BY <1>1, HookStep, SplunkStep, ServiceStep DEF I!Next
-----------------------------------------------------------------------------
(* The automation.                                                           *)

StepLists == {p.steps : p \in Playbooks}
Runs == [playbook : Calls, alert : RunAlerts, steps : StepLists, begun : StepLists,
         results : Seq({"success", "failed", "skipped"}),
         status : {"running", "failed", "success", "partial"}, ended : BOOLEAN]
Notices == [type : {"notify_slack", "notify_teams", "notify_email"}, status : {"sent", "failed"}]

\* A run works on the steps it began with, and its status is what its results say.
AsBegun(r) ==
    /\ r.steps = r.begun /\ Len(r.results) <= Len(r.begun)
    /\ r.status \in {"success", "partial"} => r.ended /\ Len(r.results) = Len(r.begun)
    /\ r.status = "success" => \A k \in 1 .. Len(r.results) : r.results[k] = "success"
    /\ r.status = "failed" => /\ Len(r.results) # 0 /\ r.results[Len(r.results)] = "failed"
                              /\ ~r.begun[Len(r.results)].continue

PlaybookInv ==
    /\ playbooks \in [Calls -> Playbooks \cup {None}]
    /\ runs \in Seq(Runs) /\ \A n \in 1 .. Len(runs) : AsBegun(runs[n])
    /\ executions \in Seq(Nat) /\ Len(executions) <= MaxKept
    /\ logs \in Seq(Notices) /\ Len(logs) <= MaxKept

Tracked == {a.id : a \in RunAlerts}
Objects == [alert : Tracked, severity : {a.severity : a \in RunAlerts}, status : Statuses \cup {"open"},
            created : Nat, escalated : Int]
Reached == [state : Nat, level : Int]
Levelled == [level : Int, after : Int]
Checks == [work : SUBSET (Nat \X Escalations), now : Nat, state : Nat, rest : Seq(Levelled)]

\* The level an alert has reached is at least that of every escalation recorded of it, and what the
\* check is about to visit is tracked.
EscalationInv ==
    /\ escalations \in [Calls -> Escalations \cup {None}] /\ minute \in Nat
    /\ objects \in Seq(Objects) /\ Len(objects) <= MaxTracks
    /\ states \in [Tracked -> 0 .. Len(objects)]
    /\ history \in Seq(Reached) /\ Len(history) <= MaxKept
    /\ \A k \in 1 .. Len(history) :
          /\ history[k].state \in 1 .. Len(objects)
          /\ history[k].level <= objects[history[k].state].escalated
          /\ \A i \in 1 .. Len(history) :
                i < k /\ history[i].state = history[k].state => history[i].level < history[k].level
    /\ checker \in Checks \cup {None}
    /\ checker # None =>
          /\ \A w \in checker.work : w[1] \in 1 .. Len(objects)
          /\ checker.rest # <<>> => checker.state \in 1 .. Len(objects)

AutomationInv == PlaybookInv /\ EscalationInv

\* What is kept of a log with one more entry: the log and the entry, without the oldest if there
\* are too many.
LEMMA KeptAppended ==
    ASSUME NEW S, NEW q \in Seq(S), NEW x \in S, Len(q) <= MaxKept
    PROVE  \E d \in {0, 1} :
              /\ A!Kept(Append(q, x)) \in Seq(S) /\ Len(A!Kept(Append(q, x))) <= MaxKept
              /\ Len(A!Kept(Append(q, x))) = Len(q) + 1 - d
              /\ \A i \in 1 .. Len(q) + 1 - d :
                    A!Kept(Append(q, x))[i] = IF i + d <= Len(q) THEN q[i + d] ELSE x
<1>1. MaxKept \in Nat /\ Len(q) \in Nat
  BY IntegrationAssumption, LenProperties
<1> DEFINE a == Append(q, x)
           d == IF Len(a) > MaxKept THEN 1 ELSE 0
<1>2. /\ a \in Seq(S) /\ Len(a) = Len(q) + 1 /\ \A i \in 1 .. Len(q) : a[i] = q[i] /\ a[Len(q) + 1] = x
  BY AppendProperties
<1>3. a[Len(q) + 1] = x
  BY AppendProperties
<1>4. A!Kept(a) = SubSeq(a, d + 1, Len(q) + 1)
  <2>1. Len(a) > MaxKept => Len(a) - MaxKept = 1
    BY <1>1, <1>2
  <2> QED
    BY <1>2, <2>1 DEF A!Kept
<1> HIDE DEF a
<1>5. d \in {0, 1} /\ (d = 0 => Len(q) < MaxKept)
  BY <1>1, <1>2
<1> HIDE DEF d
<1>6. \A i \in d + 1 .. Len(q) + 1 : a[i] \in S
  BY <1>1, <1>2, <1>5, ElementOfSeq
<1>7. /\ A!Kept(a) \in Seq(S) /\ Len(A!Kept(a)) = IF d + 1 <= Len(q) + 1 THEN (Len(q) + 1) - (d + 1) + 1 ELSE 0
      /\ \A i \in 1 .. (Len(q) + 1) - (d + 1) + 1 : A!Kept(a)[i] = a[(d + 1) + i - 1]
  BY <1>1, <1>4, <1>5, <1>6, SubSeqProperties
<1>8. Len(A!Kept(a)) = Len(q) + 1 - d /\ Len(A!Kept(a)) <= MaxKept
  BY <1>1, <1>5, <1>7
<1>9. \A i \in 1 .. Len(q) + 1 - d : A!Kept(a)[i] = IF i + d <= Len(q) THEN q[i + d] ELSE x
  <2> SUFFICES ASSUME NEW i \in 1 .. Len(q) + 1 - d PROVE A!Kept(a)[i] = IF i + d <= Len(q) THEN q[i + d] ELSE x
    OBVIOUS
  <2>1. A!Kept(a)[i] = a[i + d] /\ i + d \in 1 .. Len(q) + 1
    BY <1>1, <1>5, <1>7
  <2> QED
    BY <1>1, <1>2, <1>3, <2>1
<1> QED
  BY <1>5, <1>7, <1>8, <1>9 DEF a

\* The first states have the invariant.
LEMMA AutomationInit == A!Init => AutomationInv
BY AutomationAssumption, IntegrationAssumption
DEF A!Init, AutomationInv, PlaybookInv, EscalationInv, Tracked

\* The runs that begin have done nothing yet.
LEMMA RunsBegin ==
    ASSUME PlaybookInv, NEW a \in RunAlerts, A!ExecuteForAlert(a)
    PROVE  PlaybookInv'
<1>1. PICK fit \in A!SetToSeqs(A!Fitting(a)) :
        runs' = runs \o [k \in DOMAIN fit |->
            [playbook |-> fit[k], alert |-> a, steps |-> playbooks[fit[k]].steps,
             begun |-> playbooks[fit[k]].steps, results |-> <<>>, status |-> "running", ended |-> FALSE]]
  BY DEF A!ExecuteForAlert
<1> DEFINE n == Cardinality(A!Fitting(a))
           new == [k \in DOMAIN fit |->
                     [playbook |-> fit[k], alert |-> a, steps |-> playbooks[fit[k]].steps,
                      begun |-> playbooks[fit[k]].steps, results |-> <<>>, status |-> "running", ended |-> FALSE]]
<1>2. fit \in [1 .. n -> A!Fitting(a)]
  BY CountsAlike DEF A!SetToSeqs
<1>3. n \in Nat
  <2>1. A!Fitting(a) \subseteq Calls /\ IsFiniteSet(Calls)
    BY AutomationAssumption DEF A!Fitting
  <2>2. IsFiniteSet(A!Fitting(a))
    BY <2>1, FS_Subset
  <2> QED
    BY <2>2, FS_CardinalityType
<1>4. \A k \in 1 .. n : fit[k] \in Calls /\ playbooks[fit[k]].steps \in StepLists
  BY <1>2 DEF A!Fitting, PlaybookInv, StepLists
<1>14. \A k \in 1 .. n : Len(playbooks[fit[k]].steps) \in Nat
  <2>1. \A s \in StepLists : s \in Seq({s[i] : i \in DOMAIN s})
    BY AutomationAssumption DEF StepLists
  <2> QED
    BY <1>4, <2>1, LenProperties
<1> HIDE DEF n
<1>5. new \in [1 .. n -> Runs]
  BY <1>2, <1>4 DEF Runs
<1>6. new \in Seq(Runs) /\ Len(new) = n
  BY <1>3, <1>5, FunctionIsSeq
<1>7. \A k \in 1 .. n : AsBegun(new[k])
  BY <1>2, <1>14, SMTT(30) DEF AsBegun
<1>8. runs' = runs \o new
  BY <1>1
<1> HIDE DEF new
<1>9. /\ runs' \in Seq(Runs) /\ Len(runs') = Len(runs) + n
      /\ \A i \in 1 .. Len(runs) + n : runs'[i] = IF i <= Len(runs) THEN runs[i] ELSE new[i - Len(runs)]
  BY <1>6, <1>8, ConcatProperties DEF PlaybookInv
<1>10. Len(runs) \in Nat
  BY LenProperties DEF PlaybookInv
<1>11. ASSUME NEW i \in 1 .. Len(runs') PROVE AsBegun(runs'[i])
  <2>1. CASE i <= Len(runs)
    BY <1>9, <1>10, <2>1 DEF PlaybookInv
  <2>2. CASE i > Len(runs)
    <3>1. i - Len(runs) \in 1 .. n /\ runs'[i] = new[i - Len(runs)]
      BY <1>3, <1>9, <1>10, <2>2
    <3> QED
      BY <1>7, <3>1
  <2> QED
    BY <1>9, <1>10, <2>1, <2>2
<1>12. UNCHANGED <<playbooks, executions, logs>>
  BY DEF A!ExecuteForAlert
<1> QED
  BY <1>9, <1>11, <1>12 DEF PlaybookInv

\* What a step writes: its outcome is one of three, and the log stays a log.
LEMMA StepsWrite ==
    ASSUME PlaybookInv, NEW s, NEW a, NEW o \in A!executeStep(s, a)
    PROVE  /\ o[1] \in {"success", "failed", "skipped"}
           /\ o[2] \in Seq(Notices) /\ Len(o[2]) <= MaxKept
<1>1. logs \in Seq(Notices) /\ Len(logs) <= MaxKept
  BY DEF PlaybookInv
<1>2. ASSUME NEW t \in {"notify_slack", "notify_teams", "notify_email"}, NEW x \in {"sent", "failed"}
      PROVE  A!saveLog(t, x) \in Seq(Notices) /\ Len(A!saveLog(t, x)) <= MaxKept
  <2> DEFINE e == [type |-> t, status |-> x]
  <2>1. e \in Notices
    BY DEF Notices
  <2>2. A!saveLog(t, x) = A!Kept(Append(logs, e))
    BY DEF A!saveLog
  <2> HIDE DEF e
  <2> QED
    BY <1>1, <2>1, <2>2, KeptAppended
<1>3. CASE s.condition # None /\ ~A!evaluateCondition(s.condition, a)
  <2>1. A!executeStep(s, a) = {<<"skipped", logs>>}
    BY <1>3 DEF A!executeStep
  <2> QED
    BY <1>1, <2>1
<1>4. CASE ~(s.condition # None /\ ~A!evaluateCondition(s.condition, a)) /\ A!Notifies(s)
  <2>1. s.type \in {"notify_slack", "notify_teams", "notify_email"}
    BY <1>4 DEF A!Notifies
  <2>2. A!Sending(s) \subseteq {"sent", "failed", "unsent"}
    BY <2>1 DEF A!Sending, A!SendSlack, A!SendTeams, A!SendEmail
  <2>3. PICK x \in A!Sending(s) :
            o = <<IF x = "sent" THEN "success" ELSE "failed", IF x = "unsent" THEN logs ELSE A!saveLog(s.type, x)>>
    <3>1. A!executeStep(s, a) =
            {<<IF x = "sent" THEN "success" ELSE "failed", IF x = "unsent" THEN logs ELSE A!saveLog(s.type, x)>> :
                x \in A!Sending(s)}
      BY <1>4 DEF A!executeStep, A!Notifies
    <3> QED
      BY <3>1
  <2> QED
    BY <1>1, <1>2, <2>1, <2>2, <2>3
<1>5. CASE ~(s.condition # None /\ ~A!evaluateCondition(s.condition, a)) /\ ~A!Notifies(s)
  <2>1. o \in {<<"success", logs>>, <<"failed", logs>>}
    BY <1>5 DEF A!executeStep
  <2> QED
    BY <1>1, <2>1
<1> QED
  BY <1>3, <1>4, <1>5

\* A step of a run adds its result, and fails the run if the playbook says so.
LEMMA RunsGoOn ==
    ASSUME PlaybookInv, NEW n \in DOMAIN runs, A!RunStep(n)
    PROVE  PlaybookInv'
<1> DEFINE r == runs[n]
           s == r.steps[Len(r.results) + 1]
<1>1. r \in Runs /\ AsBegun(r) /\ n \in 1 .. Len(runs) /\ runs \in Seq(Runs) /\ Len(runs) \in Nat
  BY LenProperties, ElementOfSeq DEF PlaybookInv
<1>2. PICK o \in A!executeStep(s, r.alert) :
        /\ runs' = [runs EXCEPT ![n].results = Append(@, o[1]),
                                ![n].status = IF o[1] = "failed" /\ ~s.continue THEN "failed" ELSE @]
        /\ logs' = o[2]
  BY DEF A!RunStep
<1>3. o[1] \in {"success", "failed", "skipped"} /\ logs' \in Seq(Notices) /\ Len(logs') <= MaxKept
  BY <1>2, StepsWrite
<1>4. r.status = "running" /\ Len(r.results) < Len(r.steps)
  BY DEF A!RunStep
<1> DEFINE res == Append(r.results, o[1])
           st == IF o[1] = "failed" /\ ~s.continue THEN "failed" ELSE r.status
           new == [r EXCEPT !.results = res, !.status = st]
<1>5. runs' = [runs EXCEPT ![n] = new]
  BY <1>2
<1>6. /\ res \in Seq({"success", "failed", "skipped"}) /\ Len(res) = Len(r.results) + 1
      /\ res[Len(r.results) + 1] = o[1] /\ Len(r.results) \in Nat
  <2>1. r.results \in Seq({"success", "failed", "skipped"})
    BY <1>1 DEF Runs
  <2> QED
    BY <1>3, <2>1, AppendProperties, LenProperties
<1>7. st \in {"running", "failed"} /\ (st = "failed" => o[1] = "failed" /\ ~s.continue)
  BY <1>4
<1>8. Len(r.begun) \in Nat
  <2>1. \A q \in StepLists : q \in Seq({q[i] : i \in DOMAIN q})
    BY AutomationAssumption DEF StepLists
  <2>2. r.begun \in StepLists
    BY <1>1 DEF Runs
  <2> QED
    BY <2>1, <2>2, LenProperties
<1>9. new \in Runs /\ AsBegun(new)
  <2>0. s = r.begun[Len(r.results) + 1]
    BY <1>1 DEF AsBegun
  <2> HIDE DEF res, st, s
  <2>1. r.steps = r.begun
    BY <1>1 DEF AsBegun
  <2> HIDE DEF r
  <2>2. /\ new.steps = r.steps /\ new.begun = r.begun /\ new.results = res /\ new.status = st /\ new.ended = r.ended
        /\ new \in Runs
    BY <1>1, <1>6, <1>7 DEF Runs
  <2> HIDE DEF new
  <2> QED
    BY <1>4, <1>6, <1>7, <1>8, <2>0, <2>1, <2>2 DEF AsBegun
<1> HIDE DEF new
<1>10. runs' \in Seq(Runs) /\ \A i \in 1 .. Len(runs') : AsBegun(runs'[i])
  <2>1. /\ runs' \in Seq(Runs) /\ Len(runs') = Len(runs)
        /\ \A j \in 1 .. Len(runs) : runs'[j] = IF j = n THEN new ELSE runs[j]
    BY <1>1, <1>5, <1>9, ExceptSeq
  <2> QED
    BY <1>9, <2>1 DEF PlaybookInv
<1>11. UNCHANGED <<playbooks, executions>>
  BY DEF A!RunStep
<1> QED
  BY <1>3, <1>10, <1>11 DEF PlaybookInv

\* A run that ends is what its results say.
LEMMA RunsEnd ==
    ASSUME PlaybookInv, NEW n \in DOMAIN runs, A!RunEnds(n)
    PROVE  PlaybookInv'
<1> DEFINE r == runs[n]
           st == CASE r.status = "failed" -> "failed"
                   [] r.status # "failed" /\ A!Range(r.results) \subseteq {"success"} -> "success"
                   [] OTHER -> "partial"
           new == [r EXCEPT !.ended = TRUE, !.status = st]
<1>1. r \in Runs /\ AsBegun(r) /\ n \in 1 .. Len(runs) /\ runs \in Seq(Runs) /\ Len(runs) \in Nat
  BY LenProperties, ElementOfSeq DEF PlaybookInv
<1>2. runs' = [runs EXCEPT ![n] = new]
  BY DEF A!RunEnds
<1>3. r.results \in Seq({"success", "failed", "skipped"}) /\ DOMAIN r.results = 1 .. Len(r.results)
      /\ Len(r.results) \in Nat
  <2>1. r.results \in Seq({"success", "failed", "skipped"})
    BY <1>1 DEF Runs
  <2> QED
    BY <2>1, LenProperties
<1>4. /\ st \in {"failed", "success", "partial"} /\ (st = "failed" <=> r.status = "failed")
      /\ st = "success" => \A k \in 1 .. Len(r.results) : r.results[k] = "success"
  <2>1. r.status = "failed" => st = "failed"
    OBVIOUS
  <2>2. r.status # "failed" /\ A!Range(r.results) \subseteq {"success"} => st = "success"
    OBVIOUS
  <2>3. r.status # "failed" /\ ~(A!Range(r.results) \subseteq {"success"}) => st = "partial"
    OBVIOUS
  <2> HIDE DEF st
  <2>4. A!Range(r.results) \subseteq {"success"} => \A k \in 1 .. Len(r.results) : r.results[k] = "success"
    BY <1>3 DEF A!Range
  <2> QED
    BY <2>1, <2>2, <2>3, <2>4
<1>8. Len(r.begun) \in Nat
  <2>1. \A q \in StepLists : q \in Seq({q[i] : i \in DOMAIN q})
    BY AutomationAssumption DEF StepLists
  <2>2. r.begun \in StepLists
    BY <1>1 DEF Runs
  <2> QED
    BY <2>1, <2>2, LenProperties
<1>5. r.status # "failed" => Len(r.results) = Len(r.begun)
  <2>1. /\ r.status \in {"running", "failed", "success", "partial"}
        /\ r.status = "running" => Len(r.results) >= Len(r.steps)
    BY <1>1 DEF A!RunEnds, Runs
  <2> QED
    BY <1>1, <1>3, <1>8, <2>1 DEF AsBegun
<1>9. new \in Runs /\ AsBegun(new)
  <2> HIDE DEF st
  <2>2. r.steps = r.begun /\ Len(r.results) <= Len(r.begun)
    BY <1>1 DEF AsBegun
  <2>3. r.status = "failed" => /\ Len(r.results) # 0 /\ r.results[Len(r.results)] = "failed"
                              /\ ~r.begun[Len(r.results)].continue
    BY <1>1 DEF AsBegun
  <2> HIDE DEF r
  <2>1. /\ new.steps = r.steps /\ new.begun = r.begun /\ new.results = r.results /\ new.status = st /\ new.ended = TRUE
        /\ new \in Runs
    BY <1>1, <1>4 DEF Runs
  <2> HIDE DEF new
  <2> QED
    BY <1>3, <1>4, <1>5, <1>8, <2>1, <2>2, <2>3 DEF AsBegun
<1> HIDE DEF new
<1>10. runs' \in Seq(Runs) /\ \A i \in 1 .. Len(runs') : AsBegun(runs'[i])
  <2>1. /\ runs' \in Seq(Runs) /\ Len(runs') = Len(runs)
        /\ \A j \in 1 .. Len(runs) : runs'[j] = IF j = n THEN new ELSE runs[j]
    BY <1>1, <1>2, <1>9, ExceptSeq
  <2> QED
    BY <1>9, <2>1 DEF PlaybookInv
<1>11. executions' \in Seq(Nat) /\ Len(executions') <= MaxKept
  <2>1. executions' = A!Kept(Append(executions, n))
    BY DEF A!RunEnds
  <2>2. n \in Nat
    BY <1>1
  <2> QED
    BY <2>1, <2>2, KeptAppended DEF PlaybookInv
<1>12. UNCHANGED <<playbooks, logs>>
  BY DEF A!RunEnds
<1> QED
  BY <1>10, <1>11, <1>12 DEF PlaybookInv

\* The playbooks have their invariant again after each step of the automation.
LEMMA PlaybookStep ==
    ASSUME PlaybookInv, A!Next
    PROVE  PlaybookInv'
<1>1. ASSUME NEW i \in Calls,
             (\E p \in Playbooks : A!CreatePlaybook(i, p) \/ A!UpdatePlaybook(i, p)) \/ A!DeletePlaybook(i)
      PROVE  PlaybookInv'
  <2>1. UNCHANGED <<runs, executions, logs>>
    BY <1>1 DEF A!CreatePlaybook, A!UpdatePlaybook, A!DeletePlaybook
  <2>2. playbooks' \in [Calls -> Playbooks \cup {None}]
    BY <1>1 DEF A!CreatePlaybook, A!UpdatePlaybook, A!DeletePlaybook, PlaybookInv
  <2> QED
    BY <2>1, <2>2 DEF PlaybookInv
<1>2. ASSUME UNCHANGED <<playbooks, runs, executions, logs>> PROVE PlaybookInv'
  BY <1>2 DEF PlaybookInv
<1>3. ASSUME NEW type \in {"notify_slack", "notify_teams", "notify_email"}, A!SendTest(type) PROVE PlaybookInv'
  <2>1. UNCHANGED <<playbooks, runs, executions>>
    BY <1>3 DEF A!SendTest
  <2> DEFINE s == [type |-> type, url |-> FALSE, to |-> TRUE]
  <2>2. PICK o \in A!Sending(s) : logs' = IF o = "unsent" THEN logs ELSE A!saveLog(type, o)
    BY <1>3 DEF A!SendTest
  <2>3. A!Sending(s) \subseteq {"sent", "failed", "unsent"}
    BY <1>3 DEF A!Sending, A!SendSlack, A!SendTeams, A!SendEmail
  <2>4. logs' \in Seq(Notices) /\ Len(logs') <= MaxKept
    <3> DEFINE e == [type |-> type, status |-> o]
    <3>1. CASE o = "unsent"
      BY <2>2, <3>1 DEF PlaybookInv
    <3>2. CASE o # "unsent"
      <4>1. e \in Notices /\ logs' = A!Kept(Append(logs, e))
        BY <2>2, <2>3, <3>2 DEF Notices, A!saveLog
      <4> HIDE DEF e
      <4> QED
        BY <4>1, KeptAppended DEF PlaybookInv
    <3> QED
      BY <3>1, <3>2
  <2> QED
    BY <2>1, <2>4 DEF PlaybookInv
<1>4. \/ A!PlaybookRequests \/ A!EscalationRequests \/ A!NotificationRequests
      \/ \E a \in RunAlerts : A!ExecuteForAlert(a) \/ A!TrackAlert(a)
      \/ \E n \in DOMAIN runs : A!RunStep(n) \/ A!RunEnds(n)
      \/ \E a \in RunAlerts, s \in Statuses : A!UpdateAlertStatus(a.id, s)
      \/ A!CheckBegins \/ A!CheckVisits \/ A!CheckLevel \/ A!CheckEnds \/ A!Tick
  BY Zenon DEF A!Next
<1>5. CASE A!PlaybookRequests
  BY <1>1, <1>5 DEF A!PlaybookRequests
<1>6. CASE A!EscalationRequests
  BY <1>2, <1>6 DEF A!EscalationRequests, A!PutRule, A!DeleteRule, A!playbookVars
<1>7. CASE A!NotificationRequests
  BY <1>2, <1>3, <1>7 DEF A!NotificationRequests, A!Configure
<1>8. ASSUME NEW a \in RunAlerts, A!ExecuteForAlert(a) \/ A!TrackAlert(a) PROVE PlaybookInv'
  BY <1>2, <1>8, RunsBegin DEF A!TrackAlert, A!playbookVars
<1>9. ASSUME NEW a \in RunAlerts, NEW s \in Statuses, A!UpdateAlertStatus(a.id, s) PROVE PlaybookInv'
  BY <1>2, <1>9 DEF A!UpdateAlertStatus, A!playbookVars
<1>10. CASE A!CheckBegins \/ A!CheckVisits \/ A!CheckLevel \/ A!CheckEnds \/ A!Tick
  BY <1>2, <1>10 DEF A!CheckBegins, A!CheckVisits, A!CheckLevel, A!CheckEnds, A!Tick, A!playbookVars
<1> QED
  BY <1>4, <1>5, <1>6, <1>7, <1>8, <1>9, <1>10, RunsGoOn, RunsEnd

\* A level that is reached is above every one recorded of its alert.
LEMMA LevelsRise ==
    ASSUME EscalationInv, A!CheckLevel
    PROVE  EscalationInv'
<1> DEFINE o == checker.state
           level == Head(checker.rest)
<1>1. /\ checker \in Checks /\ checker.rest \in Seq(Levelled) /\ checker.rest # <<>> /\ o \in 1 .. Len(objects)
      /\ \A w \in checker.work : w[1] \in 1 .. Len(objects)
  BY DEF EscalationInv, A!CheckLevel, Checks
<1>2. level \in Levelled /\ Tail(checker.rest) \in Seq(Levelled)
  BY <1>1, HeadTailProperties
<1>3. checker' = [checker EXCEPT !.rest = Tail(checker.rest)]
  BY DEF A!CheckLevel
<1>4. /\ checker' \in Checks /\ checker'.work = checker.work /\ checker'.state = o
  BY <1>1, <1>2, <1>3 DEF Checks
<1>5. UNCHANGED <<escalations, minute, states>>
  BY DEF A!CheckLevel
<1>6. objects \in Seq(Objects) /\ Len(objects) \in Nat /\ objects[o] \in Objects
  BY <1>1, LenProperties, ElementOfSeq DEF EscalationInv
<1>7. CASE UNCHANGED <<objects, history>>
  BY <1>1, <1>4, <1>5, <1>7 DEF EscalationInv
<1>8. CASE /\ A!Escalates(objects[o].escalated, level, checker.now - objects[o].created)
           /\ A!triggerEscalation(o, level)
  <2> DEFINE to == level.level
             new == [objects[o] EXCEPT !.escalated = to]
             e == [state |-> o, level |-> to]
  <2>1. objects[o].escalated < to /\ to \in Int /\ objects[o].escalated \in Int
    <3>1. level.level \in Int
      BY <1>2 DEF Levelled
    <3>2. objects[o].escalated \in Int
      BY <1>6 DEF Objects
    <3> QED
      BY <1>8, <3>1, <3>2 DEF A!Escalates
  <2>2. objects' = [objects EXCEPT ![o] = new] /\ history' = A!Kept(Append(history, e))
    BY <1>8 DEF A!triggerEscalation
  <2>3. e \in Reached /\ e.state = o /\ e.level = to
    BY <1>1, <1>6, <2>1 DEF Reached
  <2>4. new \in Objects /\ new.escalated = to
    BY <1>6, <2>1 DEF Objects
  <2> HIDE DEF new, e, to, o
  <2>5. /\ objects' \in Seq(Objects) /\ Len(objects') = Len(objects)
        /\ \A j \in 1 .. Len(objects) : objects'[j] = IF j = o THEN new ELSE objects[j]
    BY <1>1, <1>6, <2>2, <2>4, ExceptSeq
  <2>6. PICK d \in {0, 1} :
          /\ history' \in Seq(Reached) /\ Len(history') <= MaxKept
          /\ Len(history') = Len(history) + 1 - d
          /\ \A i \in 1 .. Len(history) + 1 - d : history'[i] = IF i + d <= Len(history) THEN history[i + d] ELSE e
    <3>1. history \in Seq(Reached) /\ Len(history) <= MaxKept
      BY DEF EscalationInv
    <3> DEFINE h == A!Kept(Append(history, e))
    <3>2. \E d \in {0, 1} :
            /\ h \in Seq(Reached) /\ Len(h) <= MaxKept /\ Len(h) = Len(history) + 1 - d
            /\ \A i \in 1 .. Len(history) + 1 - d : h[i] = IF i + d <= Len(history) THEN history[i + d] ELSE e
      BY <2>3, <3>1, KeptAppended
    <3>3. history' = h
      BY <2>2
    <3> HIDE DEF h
    <3> QED
      BY <3>2, <3>3, Zenon
  <2>7. Len(history) \in Nat
    BY LenProperties DEF EscalationInv
  <2>8. \A j \in 1 .. Len(history) : /\ history[j].state \in 1 .. Len(objects) /\ history[j].level \in Int
                                     /\ objects[history[j].state].escalated \in Int
                                     /\ history[j].level <= objects[history[j].state].escalated
    <3>1. \A j \in 1 .. Len(history) : history[j] \in Reached
      BY ElementOfSeq DEF EscalationInv
    <3>2. \A j \in 1 .. Len(objects) : objects[j] \in Objects
      BY <1>6, ElementOfSeq
    <3>3. \A x \in Objects : x.escalated \in Int
      BY DEF Objects
    <3> QED
      BY <3>1, <3>2, <3>3 DEF EscalationInv, Reached
  <2>9. ASSUME NEW k \in 1 .. Len(history')
        PROVE  /\ history'[k].state \in 1 .. Len(objects')
               /\ history'[k].level <= objects'[history'[k].state].escalated
    <3>1. CASE k + d <= Len(history)
      <4>1. history'[k] = history[k + d] /\ k + d \in 1 .. Len(history)
        BY <2>6, <2>7, <3>1
      <4> QED
        BY <2>1, <2>4, <2>5, <2>8, <4>1, SMTT(30)
    <3>2. CASE ~(k + d <= Len(history))
      BY <1>1, <2>1, <2>3, <2>4, <2>5, <2>6, <2>7, <3>2
    <3> QED
      BY <3>1, <3>2
  <2>10. ASSUME NEW k \in 1 .. Len(history'), NEW i \in 1 .. Len(history'), i < k,
                history'[i].state = history'[k].state
         PROVE  history'[i].level < history'[k].level
    <3>1. i + d <= Len(history) /\ i + d \in 1 .. Len(history) /\ history'[i] = history[i + d]
      BY <2>6, <2>7, <2>10
    <3>2. CASE k + d <= Len(history)
      <4>1. history'[k] = history[k + d] /\ k + d \in 1 .. Len(history) /\ i + d < k + d
        BY <2>6, <2>7, <2>10, <3>2
      <4> QED
        BY <2>10, <3>1, <4>1 DEF EscalationInv
    <3>3. CASE ~(k + d <= Len(history))
      <4>1. history'[k] = e
        BY <2>6, <2>7, <3>3
      <4> QED
        BY <2>1, <2>3, <2>8, <2>10, <3>1, <4>1, SMTT(30)
    <3> QED
      BY <3>2, <3>3
  <2>11. /\ checker' \in Checks \cup {None}
         /\ \A w \in checker'.work : w[1] \in 1 .. Len(objects')
         /\ checker'.state \in 1 .. Len(objects')
    BY <1>1, <1>4, <2>5
  <2> QED
    BY <1>5, <2>5, <2>6, <2>9, <2>10, <2>11 DEF EscalationInv
<1> QED
  BY <1>7, <1>8 DEF A!CheckLevel

\* The escalations have their invariant again after each step of the automation.
LEMMA EscalationStep ==
    ASSUME EscalationInv, A!Next
    PROVE  EscalationInv'
<1>0. objects \in Seq(Objects) /\ Len(objects) \in Nat /\ \A k \in 1 .. Len(objects) : objects[k] \in Objects
  BY LenProperties, ElementOfSeq DEF EscalationInv
<1>1. ASSUME UNCHANGED <<escalations, objects, states, history, checker>>, minute' \in Nat PROVE EscalationInv'
  BY <1>1 DEF EscalationInv
<1>2. CASE A!EscalationRequests
  <2>1. UNCHANGED <<objects, states, history, checker, minute>>
    BY <1>2 DEF A!EscalationRequests, A!PutRule, A!DeleteRule
  <2>2. escalations' \in [Calls -> Escalations \cup {None}]
    BY <1>2 DEF A!EscalationRequests, A!PutRule, A!DeleteRule, EscalationInv
  <2> QED
    BY <2>1, <2>2 DEF EscalationInv
<1>3. ASSUME NEW a \in RunAlerts, A!TrackAlert(a) PROVE EscalationInv'
  <2> DEFINE new == [alert |-> a.id, severity |-> a.severity, status |-> "open", created |-> minute, escalated |-> 0]
  <2>1. new \in Objects /\ minute \in Nat
    BY DEF Objects, Tracked, EscalationInv
  <2>2. /\ UNCHANGED <<escalations, history, checker, minute>> /\ Len(objects) < MaxTracks
        /\ objects' = Append(objects, new) /\ states' = [states EXCEPT ![a.id] = Len(objects) + 1]
    BY <1>3 DEF A!TrackAlert
  <2> HIDE DEF new
  <2>3. /\ objects' \in Seq(Objects) /\ Len(objects') = Len(objects) + 1
        /\ \A k \in 1 .. Len(objects) : objects'[k] = objects[k]
    BY <1>0, <2>1, <2>2, AppendProperties
  <2>4. MaxTracks \in Nat
    BY AutomationAssumption
  <2>5. states' \in [Tracked -> 0 .. Len(objects')] /\ Len(objects') <= MaxTracks
    <3>1. states \in [Tracked -> 0 .. Len(objects)] /\ Len(objects') \in Nat /\ Len(objects) + 1 = Len(objects')
      BY <1>0, <2>3 DEF EscalationInv
    <3>2. 0 .. Len(objects) \subseteq 0 .. Len(objects') /\ Len(objects) + 1 \in 0 .. Len(objects')
      BY <1>0, <3>1
    <3>3. states' \in [Tracked -> 0 .. Len(objects')]
      BY <2>2, <3>1, <3>2
    <3> QED
      BY <1>0, <2>2, <2>3, <2>4, <3>3
  <2>6. \A k \in 1 .. Len(objects) : k \in 1 .. Len(objects')
    BY <1>0, <2>3
  <2> QED
    BY <2>1, <2>2, <2>3, <2>5, <2>6 DEF EscalationInv
<1>4. ASSUME NEW a \in RunAlerts, NEW s \in Statuses, A!UpdateAlertStatus(a.id, s) PROVE EscalationInv'
  <2> DEFINE o == states[a.id]
             new == [objects[o] EXCEPT !.status = s]
  <2>1. /\ UNCHANGED <<escalations, states, history, checker, minute>>
        /\ o # 0 /\ objects' = [objects EXCEPT ![o] = new]
    BY <1>4 DEF A!UpdateAlertStatus
  <2>2. o \in 1 .. Len(objects)
    BY <1>0, <2>1 DEF EscalationInv, Tracked
  <2>3. new \in Objects /\ new.escalated = objects[o].escalated
    BY <1>0, <2>2 DEF Objects
  <2> HIDE DEF new, o
  <2>4. /\ objects' \in Seq(Objects) /\ Len(objects') = Len(objects)
        /\ \A k \in 1 .. Len(objects) : objects'[k].escalated = objects[k].escalated
    BY <1>0, <2>1, <2>2, <2>3, ExceptSeq
  <2> QED
    BY <2>1, <2>4 DEF EscalationInv
<1>5. CASE A!CheckBegins
  <2>1. UNCHANGED <<escalations, objects, states, history, minute>>
    BY <1>5 DEF A!CheckBegins
  <2>2. checker' = [work |-> A!Unresolved \X A!Enabled, now |-> minute, state |-> 0, rest |-> <<>>]
    BY <1>5 DEF A!CheckBegins
  <2>3. A!Unresolved \subseteq 1 .. Len(objects)
    BY <1>0 DEF A!Unresolved, EscalationInv
  <2>4. A!Enabled \subseteq Escalations
    BY DEF A!Enabled, EscalationInv
  <2>5. A!Unresolved \X A!Enabled \subseteq Nat \X Escalations
    <3>1. A!Unresolved \subseteq Nat
      BY <1>0, <2>3
    <3> QED
      BY <2>4, <3>1, Zenon
  <2>6. checker' \in Checks /\ checker'.rest = <<>> /\ \A w \in checker'.work : w[1] \in 1 .. Len(objects')
    BY <2>1, <2>2, <2>3, <2>5 DEF Checks, EscalationInv
  <2> QED
    BY <2>1, <2>6 DEF EscalationInv
<1>6. CASE A!CheckVisits
  <2>1. UNCHANGED <<escalations, objects, states, history, minute>> /\ checker # None
    BY <1>6 DEF A!CheckVisits
  <2>2. PICK w \in checker.work :
            checker' = [checker EXCEPT !.work = checker.work \ {w}, !.state = w[1],
                                       !.rest = IF A!matchesEscalation(w[1], w[2]) THEN w[2].levels ELSE <<>>]
    BY <1>6 DEF A!CheckVisits
  <2>3. checker \in Checks /\ \A v \in checker.work : v[1] \in 1 .. Len(objects)
    BY <2>1 DEF EscalationInv
  <2>4. w[1] \in Nat /\ w[2] \in Escalations
    BY <2>3 DEF Checks
  <2> DEFINE rest == IF A!matchesEscalation(w[1], w[2]) THEN w[2].levels ELSE <<>>
  <2>5. rest \in Seq(Levelled)
    BY <2>4, AutomationAssumption DEF Levelled
  <2>6. checker' = [checker EXCEPT !.work = checker.work \ {w}, !.state = w[1], !.rest = rest]
    BY <2>2
  <2> HIDE DEF rest
  <2>7. checker' \in Checks /\ checker'.work = checker.work \ {w} /\ checker'.state = w[1]
    BY <2>3, <2>4, <2>5, <2>6 DEF Checks
  <2> QED
    BY <2>1, <2>3, <2>7 DEF EscalationInv
<1>7. CASE A!CheckEnds
  <2>1. UNCHANGED <<escalations, objects, states, history, minute>> /\ checker' = None
    BY <1>7 DEF A!CheckEnds
  <2> QED
    BY <2>1 DEF EscalationInv
<1>8. CASE A!Tick
  <2>1. UNCHANGED <<escalations, objects, states, history, checker>> /\ minute' = minute + 1
    BY <1>8 DEF A!Tick, A!escalationVars
  <2> QED
    BY <1>1, <2>1 DEF EscalationInv
<1>9. ASSUME NEW i \in Calls,
             (\E p \in Playbooks : A!CreatePlaybook(i, p) \/ A!UpdatePlaybook(i, p)) \/ A!DeletePlaybook(i)
      PROVE  EscalationInv'
  <2>1. UNCHANGED <<escalations, objects, states, history, checker, minute>>
    BY <1>9 DEF A!CreatePlaybook, A!UpdatePlaybook, A!DeletePlaybook, A!escalationVars
  <2> QED
    BY <1>1, <2>1 DEF EscalationInv
<1>10. CASE A!NotificationRequests
  <2>1. UNCHANGED <<escalations, objects, states, history, checker, minute>>
    BY <1>10 DEF A!NotificationRequests, A!Configure, A!SendTest, A!escalationVars
  <2> QED
    BY <1>1, <2>1 DEF EscalationInv
<1>11. ASSUME NEW a \in RunAlerts, A!ExecuteForAlert(a) PROVE EscalationInv'
  <2>1. UNCHANGED <<escalations, objects, states, history, checker, minute>>
    BY <1>11 DEF A!ExecuteForAlert, A!escalationVars
  <2> QED
    BY <1>1, <2>1 DEF EscalationInv
<1>12. ASSUME NEW n \in DOMAIN runs, A!RunStep(n) \/ A!RunEnds(n) PROVE EscalationInv'
  <2>1. UNCHANGED <<escalations, objects, states, history, checker, minute>>
    BY <1>12 DEF A!RunStep, A!RunEnds, A!escalationVars
  <2> QED
    BY <1>1, <2>1 DEF EscalationInv
<1>13. \/ A!PlaybookRequests \/ A!EscalationRequests \/ A!NotificationRequests
       \/ \E a \in RunAlerts : A!ExecuteForAlert(a) \/ A!TrackAlert(a)
       \/ \E n \in DOMAIN runs : A!RunStep(n) \/ A!RunEnds(n)
       \/ \E a \in RunAlerts, s \in Statuses : A!UpdateAlertStatus(a.id, s)
       \/ A!CheckBegins \/ A!CheckVisits \/ A!CheckLevel \/ A!CheckEnds \/ A!Tick
  BY Zenon DEF A!Next
<1>14. CASE A!PlaybookRequests
  BY <1>9, <1>14 DEF A!PlaybookRequests
<1> QED
  BY <1>2, <1>3, <1>4, <1>5, <1>6, <1>7, <1>8, <1>10, <1>11, <1>12, <1>13, <1>14, LevelsRise

\* The invariant is inductive.
LEMMA AutomationStep ==
    ASSUME AutomationInv, [A!Next]_(A!vars)
    PROVE  AutomationInv'
<1>1. CASE UNCHANGED A!vars
  BY <1>1 DEF A!vars, AutomationInv, PlaybookInv, EscalationInv
<1> QED
  BY <1>1, PlaybookStep, EscalationStep DEF AutomationInv

\* The invariants say what the integrations and the automation promise.
LEMMA HandledByInvariant == IntegrationInv /\ AutomationInv => HandledAsAsked
<1> SUFFICES ASSUME IntegrationInv, AutomationInv PROVE HandledAsAsked
  OBVIOUS
<1>1. I!SentOnce
  BY DEF IntegrationInv, SplunkInv, Distinct, I!SentOnce
<1>2. I!DeliveryKeepsPolicy
  <2>1. deliveries \in Seq(Deliveries) /\ DOMAIN deliveries = 1 .. Len(deliveries)
    BY LenProperties DEF IntegrationInv, HookInv
  <2> QED
    BY <2>1 DEF IntegrationInv, HookInv, I!DeliveryKeepsPolicy
<1>3. A!RunsAsBegun
  <2> SUFFICES ASSUME NEW n \in DOMAIN runs
               PROVE  /\ runs[n].status = "success" => runs[n].results = [k \in DOMAIN runs[n].begun |-> "success"]
                      /\ runs[n].status = "partial" => Len(runs[n].results) = Len(runs[n].begun)
                      /\ runs[n].status = "failed" => /\ runs[n].results[Len(runs[n].results)] = "failed"
                                                      /\ ~runs[n].begun[Len(runs[n].results)].continue
    BY DEF A!RunsAsBegun
  <2> DEFINE r == runs[n]
  <2>1. r \in Runs /\ AsBegun(r)
    BY LenProperties, ElementOfSeq DEF AutomationInv, PlaybookInv
  <2>2. r.results \in Seq({"success", "failed", "skipped"}) /\ r.begun \in StepLists
    BY <2>1 DEF Runs
  <2>3. \A q \in StepLists : q \in Seq({q[i] : i \in DOMAIN q})
    BY AutomationAssumption DEF StepLists
  <2>4. DOMAIN r.begun = 1 .. Len(r.begun) /\ r.results \in [1 .. Len(r.results) -> {"success", "failed", "skipped"}]
    BY <2>2, <2>3, LenProperties
  <2> HIDE DEF r
  <2>5. r.status = "success" => r.results = [k \in DOMAIN r.begun |-> "success"]
    BY <2>1, <2>4 DEF AsBegun
  <2> QED
    BY <2>1, <2>5 DEF AsBegun, r
<1>4. A!EscalationRises
  <2>1. DOMAIN history = 1 .. Len(history)
    BY LenProperties DEF AutomationInv, EscalationInv
  <2> QED
    BY <2>1 DEF AutomationInv, EscalationInv, A!EscalationRises
<1> QED
  BY <1>1, <1>2, <1>3, <1>4 DEF HandledAsAsked

(***************************************************************************)
(* For any number of webhooks, alerts, flushes, playbooks and escalation   *)
(* rules: no event reaches Splunk twice and none is counted that did not,  *)
(* no delivery is tried more often than its webhook asked for, a run is    *)
(* recorded as what the steps it began with came to, and the levels        *)
(* recorded of an alert rise.                                              *)
(***************************************************************************)
THEOREM AlertsAreHandledAsAsked == ServicesSpec => []HandledAsAsked
<1>1. ServicesInit => IntegrationInv /\ AutomationInv
  BY IntegrationInit, AutomationInit DEF ServicesInit
<1>2. IntegrationInv /\ AutomationInv /\ [ServicesNext]_servicesVars => (IntegrationInv /\ AutomationInv)'
  BY IntegrationStep, AutomationStep, PartsMove
<1> QED
  BY <1>1, <1>2, HandledByInvariant, PTL DEF ServicesSpec
-----------------------------------------------------------------------------
(* The workbench: custom rules.                                              *)

RuleObjects == [id : BenchIds, version : Nat, rule : CustomRules]
Counts == [total : Nat, matches : Nat, since : Nat]
Executed == [rule : BenchIds, matched : BOOLEAN]

\* What a rule's metrics are to count: the executions of the rule since it was made.
Own(i, since, log) == {k \in since + 1 .. Len(log) : log[k].rule = i}
Matched(i, since, log) == {k \in Own(i, since, log) : log[k].matched}

CustomInv ==
    /\ customRules \in [BenchIds -> RuleObjects \cup {None}] /\ metrics \in [BenchIds -> Counts \cup {None}]
    /\ calls \in [Calls -> [todo : SUBSET RuleObjects, alert : RuleAlerts \cup {None}]]
    /\ saved \in Seq(Executed) /\ ruleLog \in Seq(Executed) /\ Len(ruleLog) <= MaxShown
    /\ \A i \in BenchIds :
          /\ customRules[i] = None <=> metrics[i] = None
          /\ metrics[i] # None =>
                /\ metrics[i].since <= Len(saved)
                /\ metrics[i].total = Cardinality(Own(i, metrics[i].since, saved))
                /\ metrics[i].matches = Cardinality(Matched(i, metrics[i].since, saved))

\* One more execution is one more of its rule's, and of no other's.
LEMMA OneMoreCounts ==
    ASSUME NEW log \in Seq(Executed), NEW e \in Executed, NEW i \in BenchIds, NEW since \in Nat, since <= Len(log)
    PROVE  /\ Cardinality(Own(i, since, log)) \in Nat /\ Cardinality(Matched(i, since, log)) \in Nat
           /\ Cardinality(Own(i, since, Append(log, e))) =
                Cardinality(Own(i, since, log)) + IF e.rule = i THEN 1 ELSE 0
           /\ Cardinality(Matched(i, since, Append(log, e))) =
                Cardinality(Matched(i, since, log)) + IF e.rule = i /\ e.matched THEN 1 ELSE 0
<1> DEFINE n == Len(log)
           new == Append(log, e)
           own == Own(i, since, log)
           hit == Matched(i, since, log)
<1>1. n \in Nat /\ Len(new) = n + 1 /\ new[n + 1] = e /\ \A k \in 1 .. n : new[k] = log[k]
  BY LenProperties, AppendProperties
<1>2. own \subseteq since + 1 .. n /\ hit \subseteq own
  BY DEF Own, Matched
<1>3. IsFiniteSet(own) /\ IsFiniteSet(hit)
  <2>1. IsFiniteSet(1 .. n) /\ own \subseteq 1 .. n
    BY <1>1, <1>2, FS_Interval
  <2>2. IsFiniteSet(own)
    BY <2>1, FS_Subset
  <2> QED
    BY <1>2, <2>2, FS_Subset
<1>4. n + 1 \notin own /\ n + 1 \notin hit
  BY <1>1, <1>2
<1> HIDE DEF new
<1>5. Own(i, since, new) = IF e.rule = i THEN own \cup {n + 1} ELSE own
  BY <1>1 DEF Own
<1>6. Matched(i, since, new) = IF e.rule = i /\ e.matched THEN hit \cup {n + 1} ELSE hit
  <2>1. \A k \in own : new[k] = log[k]
    BY <1>1, <1>2
  <2> HIDE DEF own
  <2>2. \A k : k \in Matched(i, since, new) <=> k \in Own(i, since, new) /\ new[k].matched
    BY DEF Matched
  <2>3. \A k : k \in hit <=> k \in own /\ log[k].matched
    BY DEF Matched, own
  <2> HIDE DEF hit
  <2> QED
    BY <1>1, <1>4, <1>5, <2>1, <2>2, <2>3
<1> HIDE DEF own, hit
<1>7. /\ Cardinality(own) \in Nat /\ Cardinality(hit) \in Nat
      /\ Cardinality(own \cup {n + 1}) = Cardinality(own) + 1
      /\ Cardinality(hit \cup {n + 1}) = Cardinality(hit) + 1
  BY <1>3, <1>4, FS_AddElement, FS_CardinalityType
<1> HIDE DEF n
<1> QED
  BY <1>5, <1>6, <1>7 DEF new, own, hit

\* The newest n of a log.
Newest(q, n) == SubSeq(q, (IF Len(q) > n THEN Len(q) - n ELSE 0) + 1, Len(q))

\* What is kept of a log is of the log, and not more than n entries.
LEMMA NewestAreKept ==
    ASSUME NEW S, NEW q \in Seq(S), NEW n \in Nat
    PROVE  /\ Newest(q, n) \in Seq(S) /\ Len(Newest(q, n)) <= n
           /\ \A k \in 1 .. Len(Newest(q, n)) : \E j \in 1 .. Len(q) : Newest(q, n)[k] = q[j]
<1> DEFINE d == IF Len(q) > n THEN Len(q) - n ELSE 0
           m == d + 1
           l == Len(q)
           r == SubSeq(q, m, l)
<1>1. l \in Nat
  BY LenProperties
<1>2. d \in 0 .. l /\ l - d <= n
  BY <1>1
<1>3. Newest(q, n) = r
  BY DEF Newest
<1> HIDE DEF d
<1>4. m \in Int /\ m \in 1 .. l + 1 /\ l - m + 1 <= n
  BY <1>1, <1>2
<1> HIDE DEF m
<1>5. \A i \in m .. l : q[i] \in S
  <2> SUFFICES ASSUME NEW i \in m .. l PROVE q[i] \in S
    OBVIOUS
  <2>1. i \in 1 .. Len(q)
    BY <1>1, <1>4
  <2> QED
    BY <2>1, ElementOfSeq
<1> HIDE DEF l
<1>6. /\ r \in Seq(S) /\ Len(r) = IF m <= l THEN l - m + 1 ELSE 0
      /\ \A i \in 1 .. l - m + 1 : r[i] = q[m + i - 1]
  BY <1>1, <1>4, <1>5, SubSeqProperties
<1> HIDE DEF r
<1>7. Len(r) = l - m + 1 /\ Len(r) <= n
  BY <1>1, <1>4, <1>6
<1>8. ASSUME NEW k \in 1 .. Len(r) PROVE \E j \in 1 .. l : r[k] = q[j]
  <2>1. m + k - 1 \in 1 .. l /\ r[k] = q[m + k - 1]
    BY <1>1, <1>4, <1>6, <1>7
  <2> QED
    BY <2>1
<1> QED
  BY <1>3, <1>6, <1>7, <1>8 DEF l

\* The workbench's logs are the newest of what they were given.
LEMMA BenchKept == \A q : B!Kept(q) = Newest(q, MaxShown)
BY DEF B!Kept, Newest

\* The first states have the invariant.
LEMMA CustomInit == B!Init => CustomInv
<1> SUFFICES ASSUME B!Init PROVE CustomInv
  OBVIOUS
<1>1. calls \in [Calls -> [todo : SUBSET RuleObjects, alert : RuleAlerts \cup {None}]]
  BY DEF B!Init, B!Nobody
<1> QED
  BY <1>1, WorkbenchAssumption DEF B!Init, CustomInv

\* An execution is saved and counted for its rule if the rule has metrics still.
LEMMA ExecutionSaved ==
    ASSUME CustomInv, NEW c \in Calls, NEW r \in calls[c].todo, B!saveExecution(c, r)
    PROVE  CustomInv'
<1> DEFINE e == [rule |-> r.id, matched |-> B!evaluateRule(r.rule, calls[c].alert)]
<1>1. r \in RuleObjects /\ r.id \in BenchIds
  <2>1. r \in RuleObjects
    BY DEF CustomInv
  <2> QED
    BY <2>1 DEF RuleObjects
<1>2. e \in Executed /\ e.rule = r.id
  <2>1. B!evaluateRule(r.rule, calls[c].alert) \in BOOLEAN
    BY Zenon DEF B!evaluateRule
  <2> QED
    BY <1>1, <2>1 DEF Executed
<1>3. UNCHANGED customRules
  BY DEF B!saveExecution
<1>4. /\ saved' = Append(saved, e) /\ ruleLog' = Newest(Append(ruleLog, e), MaxShown)
  BY BenchKept DEF B!saveExecution
<1>5. calls' \in [Calls -> [todo : SUBSET RuleObjects, alert : RuleAlerts \cup {None}]]
  BY DEF B!saveExecution, CustomInv, B!Nobody
<1>6. IF metrics[r.id] = None THEN metrics' = metrics
      ELSE metrics' = [metrics EXCEPT ![r.id] =
             [metrics[r.id] EXCEPT !.total = @ + 1, !.matches = @ + IF e.matched THEN 1 ELSE 0]]
  BY DEF B!saveExecution
<1> HIDE DEF e
<1>7. saved \in Seq(Executed) /\ Len(saved) \in Nat /\ saved' \in Seq(Executed) /\ Len(saved') = Len(saved) + 1
  BY <1>2, <1>4, LenProperties, AppendProperties DEF CustomInv
<1>8. ruleLog' \in Seq(Executed) /\ Len(ruleLog') <= MaxShown
  <2>1. Append(ruleLog, e) \in Seq(Executed)
    BY <1>2, AppendProperties DEF CustomInv
  <2>2. MaxShown \in Nat
    BY WorkbenchAssumption
  <2> QED
    BY <1>4, <2>1, <2>2, NewestAreKept
<1> DEFINE one == IF e.matched THEN 1 ELSE 0
           m == metrics[r.id]
           new == [m EXCEPT !.total = m.total + 1, !.matches = m.matches + one]
<1>9. metrics[r.id] # None => metrics' = [metrics EXCEPT ![r.id] = new]
  BY <1>6
<1>10. metrics[r.id] # None => /\ m \in Counts /\ new \in Counts /\ new.since = m.since /\ new.total = m.total + 1
                               /\ new.matches = m.matches + one
  <2> SUFFICES ASSUME metrics[r.id] # None
               PROVE  /\ m \in Counts /\ new \in Counts /\ new.since = m.since /\ new.total = m.total + 1
                      /\ new.matches = m.matches + one
    OBVIOUS
  <2>1. m \in Counts
    BY <1>1 DEF CustomInv
  <2>2. one \in Nat
    OBVIOUS
  <2> DEFINE t == m.total + 1
             h == m.matches + one
  <2> HIDE DEF one, m
  <2>3. t \in Nat /\ h \in Nat
    BY <2>1, <2>2 DEF Counts
  <2> HIDE DEF t, h
  <2>4. new = [m EXCEPT !.total = t, !.matches = h]
    BY DEF t, h
  <2>5. new \in Counts /\ new.since = m.since /\ new.total = t /\ new.matches = h
    BY <2>1, <2>3, <2>4 DEF Counts
  <2> QED
    BY <2>1, <2>5 DEF t, h
<1> HIDE DEF new, one, m
<1>11. metrics' \in [BenchIds -> Counts \cup {None}]
  BY <1>1, <1>6, <1>9, <1>10 DEF CustomInv
<1>12. \A i \in BenchIds : /\ i # r.id => metrics'[i] = metrics[i]
                           /\ metrics'[r.id] = IF metrics[r.id] = None THEN None ELSE new
  BY <1>1, <1>6, <1>9 DEF CustomInv
<1>13. \A x \in Counts : x # None
  BY WorkbenchAssumption DEF Counts
<1>14. ASSUME NEW i \in BenchIds
       PROVE  /\ customRules'[i] = None <=> metrics'[i] = None
              /\ metrics'[i] # None =>
                    /\ metrics'[i].since <= Len(saved')
                    /\ metrics'[i].total = Cardinality(Own(i, metrics'[i].since, saved'))
                    /\ metrics'[i].matches = Cardinality(Matched(i, metrics'[i].since, saved'))
  <2>1. customRules'[i] = None <=> metrics'[i] = None
    BY <1>3, <1>10, <1>12, <1>13 DEF CustomInv
  <2>2. ASSUME metrics[i] # None
        PROVE  /\ metrics[i].since \in Nat /\ metrics[i].since <= Len(saved)
               /\ metrics[i].total = Cardinality(Own(i, metrics[i].since, saved))
               /\ metrics[i].matches = Cardinality(Matched(i, metrics[i].since, saved))
    <3>1. metrics[i] \in Counts
      BY <2>2 DEF CustomInv
    <3> QED
      BY <2>2, <3>1 DEF CustomInv, Counts
  <2>3. CASE metrics[i] = None
    BY <1>12, <2>1, <2>3
  <2>4. CASE metrics[i] # None /\ i # r.id
    <3>1. metrics'[i] = metrics[i]
      BY <1>12, <2>4
    <3>2. /\ Cardinality(Own(i, metrics[i].since, saved')) = Cardinality(Own(i, metrics[i].since, saved)) + 0
          /\ Cardinality(Matched(i, metrics[i].since, saved')) = Cardinality(Matched(i, metrics[i].since, saved)) + 0
          /\ Cardinality(Own(i, metrics[i].since, saved)) \in Nat /\ Cardinality(Matched(i, metrics[i].since, saved)) \in Nat
      BY <1>2, <1>4, <1>7, <2>2, <2>4, OneMoreCounts, SMTT(30)
    <3>3. metrics[i].since <= Len(saved')
      BY <1>7, <2>2, <2>4
    <3> QED
      BY <2>1, <2>2, <2>4, <3>1, <3>2, <3>3
  <2>5. CASE metrics[i] # None /\ i = r.id
    <3>1. metrics'[i] = new /\ metrics[i] = m
      BY <1>12, <2>5 DEF m
    <3>2. /\ Cardinality(Own(i, m.since, saved')) = Cardinality(Own(i, m.since, saved)) + 1
          /\ Cardinality(Matched(i, m.since, saved')) = Cardinality(Matched(i, m.since, saved)) + one
      BY <1>2, <1>4, <1>7, <2>2, <2>5, <3>1, OneMoreCounts DEF one
    <3>3. m.since <= Len(saved')
      BY <1>7, <2>2, <2>5, <3>1
    <3> QED
      BY <1>10, <2>1, <2>2, <2>5, <3>1, <3>2, <3>3
  <2> QED
    BY <2>3, <2>4, <2>5
<1> QED
  BY <1>3, <1>5, <1>7, <1>8, <1>11, <1>14 DEF CustomInv

\* The custom rules have their invariant again after each of their steps.
LEMMA CustomStep ==
    ASSUME CustomInv, B!CustomNext
    PROVE  CustomInv'
<1>1. saved \in Seq(Executed) /\ Len(saved) \in Nat
  BY LenProperties DEF CustomInv
<1>2. /\ \A x \in Counts : x # None
      /\ \A x \in RuleObjects : x # None
  BY WorkbenchAssumption DEF Counts, RuleObjects
<1>3. ASSUME NEW i \in BenchIds, B!DeleteRule(i) PROVE CustomInv'
  <2>1. /\ UNCHANGED <<calls, saved, ruleLog>> /\ customRules' = [customRules EXCEPT ![i] = None]
        /\ metrics' = [metrics EXCEPT ![i] = None]
    BY <1>3 DEF B!DeleteRule
  <2> QED
    BY <2>1 DEF CustomInv
<1>4. ASSUME NEW i \in BenchIds, NEW r \in CustomRules, B!CreateRule(i, r) PROVE CustomInv'
  <2> DEFINE obj == [id |-> i, version |-> 1, rule |-> r]
             new == [total |-> 0, matches |-> 0, since |-> Len(saved)]
  <2>1. /\ UNCHANGED <<calls, saved, ruleLog>> /\ customRules' = [customRules EXCEPT ![i] = obj]
        /\ metrics' = [metrics EXCEPT ![i] = new]
    BY <1>4 DEF B!CreateRule, B!NewMetrics
  <2>2. obj \in RuleObjects /\ new \in Counts
    BY <1>1 DEF RuleObjects, Counts
  <2>3. /\ Cardinality(Own(i, Len(saved), saved)) = 0 /\ Cardinality(Matched(i, Len(saved), saved)) = 0
    <3>1. Own(i, Len(saved), saved) = {}
      BY <1>1 DEF Own
    <3>2. Matched(i, Len(saved), saved) = {}
      BY <3>1 DEF Matched
    <3> QED
      BY <3>1, <3>2, FS_EmptySet
  <2>4. new.total = 0 /\ new.matches = 0 /\ new.since = Len(saved)
    OBVIOUS
  <2> HIDE DEF obj, new
  <2>5. /\ customRules' \in [BenchIds -> RuleObjects \cup {None}] /\ metrics' \in [BenchIds -> Counts \cup {None}]
        /\ \A k \in BenchIds : /\ k # i => customRules'[k] = customRules[k] /\ metrics'[k] = metrics[k]
                               /\ k = i => customRules'[k] = obj /\ metrics'[k] = new
    BY <2>1, <2>2 DEF CustomInv
  <2>6. ASSUME NEW k \in BenchIds
        PROVE  /\ customRules'[k] = None <=> metrics'[k] = None
               /\ metrics'[k] # None =>
                     /\ metrics'[k].since <= Len(saved')
                     /\ metrics'[k].total = Cardinality(Own(k, metrics'[k].since, saved'))
                     /\ metrics'[k].matches = Cardinality(Matched(k, metrics'[k].since, saved'))
    <3>1. CASE k # i
      BY <2>1, <2>5, <3>1 DEF CustomInv
    <3>2. CASE k = i
      BY <1>1, <1>2, <2>1, <2>2, <2>3, <2>4, <2>5, <3>2
    <3> QED
      BY <3>1, <3>2
  <2> QED
    BY <2>1, <2>5, <2>6 DEF CustomInv
<1>5. ASSUME NEW i \in BenchIds, NEW r \in CustomRules, B!UpdateRule(i, r) PROVE CustomInv'
  <2> DEFINE obj == [id |-> i, version |-> customRules[i].version + 1, rule |-> r]
  <2>1. /\ UNCHANGED <<metrics, calls, saved, ruleLog>> /\ customRules' = [customRules EXCEPT ![i] = obj]
        /\ customRules[i] # None
    BY <1>5 DEF B!UpdateRule
  <2>2. obj \in RuleObjects
    <3>1. customRules[i] \in RuleObjects
      BY <2>1 DEF CustomInv
    <3> QED
      BY <3>1 DEF RuleObjects
  <2> HIDE DEF obj
  <2> QED
    BY <1>2, <2>1, <2>2 DEF CustomInv
<1>6. ASSUME NEW c \in Calls, NEW a \in RuleAlerts, B!EvaluateAlert(c, a) PROVE CustomInv'
  <2> DEFINE call == IF B!Enabled = {} THEN B!Nobody ELSE [todo |-> B!Enabled, alert |-> a]
  <2>1. /\ UNCHANGED <<customRules, metrics, saved, ruleLog>>
        /\ calls' = [calls EXCEPT ![c] = call]
    BY <1>6 DEF B!EvaluateAlert
  <2>4. B!Enabled \subseteq RuleObjects
    BY DEF CustomInv, B!Enabled
  <2>2. call \in [todo : SUBSET RuleObjects, alert : RuleAlerts \cup {None}]
    BY <2>4 DEF B!Nobody
  <2> HIDE DEF call
  <2>3. calls' \in [Calls -> [todo : SUBSET RuleObjects, alert : RuleAlerts \cup {None}]]
    BY <2>1, <2>2 DEF CustomInv
  <2> QED
    BY <2>1, <2>3 DEF CustomInv
<1> QED
  BY <1>3, <1>4, <1>5, <1>6, ExecutionSaved DEF B!CustomNext, B!CustomRuleRequests
-----------------------------------------------------------------------------
(* The workbench: profiles.                                                  *)

Clocks == [hour : 0 .. DayHours - 1, day : Nat]
QuietPeriods == {p.quiet : p \in Profiles}

ProfileFields == {"user", "min", "watch", "exclude", "quiet"}

\* The clock is at an hour of the day, and a profile is one that was asked for, but for its user.
ProfileInv ==
    /\ hour \in Clocks
    /\ \A i \in BenchIds : profiles[i] # None =>
          profiles[i].quiet \in QuietPeriods /\ DOMAIN profiles[i] = ProfileFields
    /\ userAlerts \in Seq(Members(userAlerts)) /\ Len(userAlerts) <= MaxShown

\* Hours beyond the day are those of the next.
LEMMA HoursWrap ==
    ASSUME NEW D \in Nat \ {0}, NEW x \in Nat, x < 2 * D
    PROVE  x % D = IF x < D THEN x ELSE x - D
OBVIOUS

\* The comparison of hours that the code makes covers the period walked round the clock ...
LEMMA PeriodIsQuiet ==
    ASSUME NEW q, q.from \in 0 .. DayHours - 1, q.to \in 0 .. DayHours - 1, hour \in Clocks,
           B!InPeriod(q, hour.hour)
    PROVE  IF q.from < q.to THEN hour.hour >= q.from /\ hour.hour < q.to
           ELSE hour.hour >= q.from \/ hour.hour < q.to
<1> DEFINE D == DayHours
           f == q.from
           t == q.to
           h == hour.hour
<1>1. D \in Nat \ {0} /\ f \in 0 .. D - 1 /\ t \in 0 .. D - 1 /\ h \in 0 .. D - 1
  BY WorkbenchAssumption DEF Clocks
<1>2. PICK n \in 0 .. D - 1 : h = (f + n) % D /\ \A m \in 1 .. n : (f + m) % D # t
  BY DEF B!InPeriod
<1>3. IF f < t THEN h >= f /\ h < t ELSE h >= f \/ h < t
  <2> HIDE DEF D, f, t, h
  <2>1. f + n \in Nat /\ f + n < 2 * D
    BY <1>1
  <2>2. h = IF f + n < D THEN f + n ELSE f + n - D
    <3> DEFINE x == f + n
    <3> HIDE DEF x
    <3>1. x \in Nat /\ x < 2 * D /\ h = x % D
      BY <1>2, <2>1 DEF x
    <3>2. x % D = IF x < D THEN x ELSE x - D
      BY <1>1, <3>1, HoursWrap
    <3> QED
      BY <1>1, <2>1, <3>1, <3>2 DEF x
  <2>3. CASE f < t
    <3>1. t - f \in 1 .. D - 1 /\ f + (t - f) = t
      BY <1>1, <2>3
    <3>2. t % D = t
      BY <1>1, HoursWrap
    <3>3. t - f \notin 1 .. n
      BY <1>2, <3>1, <3>2
    <3> QED
      BY <1>1, <2>2, <2>3, <3>1, <3>3
  <2>4. CASE ~(f < t) /\ ~(f + n < D) /\ ~(h < t)
    <3> DEFINE m == t + D - f
    <3>1. m \in 1 .. n /\ f + m = t + D /\ t + D \in Nat /\ t + D < 2 * D
      BY <1>1, <2>2, <2>4
    <3>2. (t + D) % D = t
      BY <1>1, <3>1, HoursWrap
    <3> HIDE DEF m
    <3> QED
      BY <1>2, <3>1, <3>2
  <2>5. CASE ~(f < t) /\ f + n < D
    BY <1>1, <2>2, <2>5
  <2> QED
    BY <2>3, <2>4, <2>5
<1> QED
  BY <1>3

\* ... and no other hour.
LEMMA QuietIsPeriod ==
    ASSUME NEW q, q.from \in 0 .. DayHours - 1, q.to \in 0 .. DayHours - 1, hour \in Clocks,
           IF q.from < q.to THEN hour.hour >= q.from /\ hour.hour < q.to
           ELSE hour.hour >= q.from \/ hour.hour < q.to
    PROVE  B!InPeriod(q, hour.hour)
<1> DEFINE D == DayHours
           f == q.from
           t == q.to
           h == hour.hour
           n == IF h >= f THEN h - f ELSE h - f + D
<1>1. D \in Nat \ {0} /\ f \in 0 .. D - 1 /\ t \in 0 .. D - 1 /\ h \in 0 .. D - 1
  BY WorkbenchAssumption DEF Clocks
<1>2. IF f < t THEN h >= f /\ h < t ELSE h >= f \/ h < t
  OBVIOUS
<1>3. n \in 0 .. D - 1 /\ (h = f + n \/ h = f + n - D)
  <2> HIDE DEF D, f, t, h
  <2> QED
    BY <1>1
<1> HIDE DEF D, f, t, h
<1>4. h = (f + n) % D
  <2> DEFINE x == f + n
  <2>1. x \in Nat /\ x < 2 * D /\ h = (IF x < D THEN x ELSE x - D)
    BY <1>1, <1>3
  <2> HIDE DEF x
  <2>2. x % D = IF x < D THEN x ELSE x - D
    BY <1>1, <2>1, HoursWrap
  <2> QED
    BY <2>1, <2>2 DEF x
<1>5. ASSUME NEW m \in 1 .. n PROVE (f + m) % D # t
  <2> DEFINE x == f + m
  <2>1. x \in Nat /\ x < 2 * D
    BY <1>1, <1>3
  <2>2. (IF x < D THEN x ELSE x - D) # t
    <3>1. CASE h >= f
      BY <1>1, <1>2, <3>1
    <3>2. CASE h < f
      BY <1>1, <1>2, <3>2
    <3> QED
      BY <1>1, <3>1, <3>2
  <2> HIDE DEF x
  <2>3. x % D = IF x < D THEN x ELSE x - D
    BY <1>1, <2>1, HoursWrap
  <2> QED
    BY <2>2, <2>3 DEF x
<1>6. n \in 0 .. D - 1 /\ h = (f + n) % D /\ \A m \in 1 .. n : (f + m) % D # t
  BY <1>3, <1>4, <1>5
<1> HIDE DEF n
<1> QED
  BY <1>6 DEF B!InPeriod, D, f, t, h

\* The first states have the invariant.
LEMMA ProfileInit == B!Init => ProfileInv
<1> SUFFICES ASSUME B!Init PROVE ProfileInv
  OBVIOUS
<1>1. hour \in Clocks
  BY DEF B!Init, Clocks
<1>2. userAlerts = <<>> /\ \A i \in BenchIds : profiles[i] = None
  BY DEF B!Init
<1>3. userAlerts \in Seq(Members(userAlerts)) /\ Len(userAlerts) = 0
  BY <1>2, EmptySeq
<1> QED
  BY <1>1, <1>2, <1>3, WorkbenchAssumption DEF ProfileInv

\* A record more, and the oldest goes if there are too many.
LEMMA AlertRecorded ==
    ASSUME ProfileInv, NEW i \in BenchIds, NEW a \in UserAlerts, B!RecordUserAlert(i, a)
    PROVE  ProfileInv'
<1> DEFINE u == [profile |-> i, alert |-> a.id]
           S == Members(userAlerts) \cup {u}
           q == Append(userAlerts, u)
<1>1. UNCHANGED <<profiles, hour>> /\ userAlerts' = Newest(q, MaxShown)
  BY BenchKept DEF B!RecordUserAlert
<1>2. userAlerts \in Seq(S)
  <2>1. userAlerts \in Seq(Members(userAlerts))
    BY DEF ProfileInv
  <2>2. userAlerts \in [1 .. Len(userAlerts) -> Members(userAlerts)] /\ Len(userAlerts) \in Nat
    BY <2>1, LenProperties
  <2>3. userAlerts \in [1 .. Len(userAlerts) -> S]
    BY <2>2
  <2> QED
    BY <2>2, <2>3, FunctionIsSeq
<1> HIDE DEF u
<1>3. u \in S
  OBVIOUS
<1> HIDE DEF S
<1>4. q \in Seq(S)
  BY <1>2, <1>3, AppendProperties
<1> HIDE DEF q
<1>5. userAlerts' \in Seq(S) /\ Len(userAlerts') <= MaxShown
  BY <1>1, <1>4, NewestAreKept, WorkbenchAssumption
<1>6. userAlerts' \in Seq(Members(userAlerts'))
  <2>1. /\ userAlerts' \in [1 .. Len(userAlerts') -> S] /\ Len(userAlerts') \in Nat
        /\ DOMAIN userAlerts' = 1 .. Len(userAlerts')
    BY <1>5, LenProperties
  <2>2. userAlerts' \in [1 .. Len(userAlerts') -> Members(userAlerts')]
    BY <2>1 DEF Members
  <2> QED
    BY <2>1, <2>2, FunctionIsSeq
<1> QED
  BY <1>1, <1>5, <1>6 DEF ProfileInv

\* Whether to deliver depends on the quiet period as walked round the clock, and on weekends.
LEMMA ProfileIsQuiet == ProfileInv => B!QuietIsQuiet
<1> SUFFICES ASSUME ProfileInv, NEW i \in BenchIds, profiles[i] # None, NEW a \in UserAlerts
             PROVE  LET p == profiles[i]
                    IN  IF B!IsQuiet(p.quiet) /\ ~p.quiet.buffer THEN ~B!ShouldDeliverAlert(p, a)
                        ELSE B!ShouldDeliverAlert(p, a) <=> B!ShouldDeliverAlert([p EXCEPT !.quiet = None], a)
  BY DEF B!QuietIsQuiet
<1> DEFINE p == profiles[i]
           o == [p EXCEPT !.quiet = None]
           c == IF p.quiet.from < p.quiet.to THEN hour.hour >= p.quiet.from /\ hour.hour < p.quiet.to
                ELSE hour.hour >= p.quiet.from \/ hour.hour < p.quiet.to
<1>1. p.quiet \in QuietPeriods /\ hour \in Clocks /\ DOMAIN p = ProfileFields
  BY DEF ProfileInv
<1>2. p.quiet # None => p.quiet.from \in 0 .. DayHours - 1 /\ p.quiet.to \in 0 .. DayHours - 1
  BY <1>1, WorkbenchAssumption DEF QuietPeriods
<1>3. p.quiet # None => (c <=> B!InPeriod(p.quiet, hour.hour))
  BY <1>1, <1>2, PeriodIsQuiet, QuietIsPeriod
<1>4. B!isQuietHours(p.quiet) <=> (p.quiet.weekends /\ hour.day \in Weekend) \/ c
  BY Zenon DEF B!isQuietHours
<1>5. o.min = p.min /\ o.watch = p.watch /\ o.exclude = p.exclude /\ o.quiet = None
  BY <1>1 DEF ProfileFields
<1> DEFINE rest == /\ B!meetsSeverityThreshold(p.min, a.severity)
                   /\ p.watch = {} \/ a.rule \in p.watch \/ "*" \in p.watch
                   /\ a.rule \notin p.exclude
<1>6. B!ShouldDeliverAlert(p, a) <=>
        rest /\ ~(p.quiet # None /\ p.quiet.enabled /\ B!isQuietHours(p.quiet) /\ ~p.quiet.buffer)
  BY Zenon DEF B!ShouldDeliverAlert
<1>7. B!ShouldDeliverAlert(o, a) <=> rest
  <2> HIDE DEF o
  <2> QED
    BY <1>5 DEF B!ShouldDeliverAlert
<1>8. B!IsQuiet(p.quiet) <=>
        p.quiet # None /\ p.quiet.enabled /\ (B!InPeriod(p.quiet, hour.hour) \/ (p.quiet.weekends /\ hour.day \in Weekend))
  BY Zenon DEF B!IsQuiet
<1> HIDE DEF rest, o, c
<1> QED
  BY <1>3, <1>4, <1>6, <1>7, <1>8, Zenon DEF o

\* The profiles have their invariant again after each of their steps.
LEMMA ProfileStep ==
    ASSUME ProfileInv, B!ProfileNext
    PROVE  ProfileInv'
<1>1. CASE B!ProfileRequests
  <2>1. UNCHANGED <<userAlerts, hour>>
    BY <1>1 DEF B!ProfileRequests, B!DeleteProfile, B!CreateProfile, B!UpdateProfile, B!SetProfile
  <2>2. ASSUME NEW p \in Profiles, NEW v
        PROVE  /\ [p EXCEPT !.user = v].quiet = p.quiet /\ p.quiet \in QuietPeriods
               /\ DOMAIN p = ProfileFields /\ DOMAIN [p EXCEPT !.user = v] = ProfileFields
    BY WorkbenchAssumption DEF QuietPeriods, ProfileFields
  <2>3. PICK i \in BenchIds : \E x : /\ profiles' = [profiles EXCEPT ![i] = x]
                                     /\ x # None => x.quiet \in QuietPeriods /\ DOMAIN x = ProfileFields
    <3>1. PICK i \in BenchIds : B!DeleteProfile(i) \/ \E p \in Profiles : B!CreateProfile(i, p) \/ B!UpdateProfile(i, p)
      BY <1>1 DEF B!ProfileRequests
    <3>2. CASE B!DeleteProfile(i)
      BY <3>2 DEF B!DeleteProfile, B!SetProfile
    <3>3. ASSUME NEW p \in Profiles, B!CreateProfile(i, p) \/ B!UpdateProfile(i, p)
          PROVE  \E x : /\ profiles' = [profiles EXCEPT ![i] = x]
                        /\ x # None => x.quiet \in QuietPeriods /\ DOMAIN x = ProfileFields
      BY <2>2, <3>3 DEF B!CreateProfile, B!UpdateProfile, B!SetProfile
    <3> QED
      BY <3>1, <3>2, <3>3
  <2> QED
    BY <2>1, <2>3 DEF ProfileInv
<1>2. CASE B!HourPasses
  <2>1. UNCHANGED <<profiles, userAlerts>>
    BY <1>2 DEF B!HourPasses
  <2>2. hour' \in Clocks
    <3>1. hour.hour \in 0 .. DayHours - 1 /\ hour.day \in Nat /\ DayHours \in Nat \ {0}
      BY WorkbenchAssumption DEF ProfileInv, Clocks
    <3>2. (hour.hour + 1) % DayHours \in 0 .. DayHours - 1
      BY <3>1
    <3>3. (hour.day + 1) % 7 \in Nat
      BY <3>1
    <3> QED
      BY <1>2, <3>1, <3>2, <3>3 DEF B!HourPasses, Clocks
  <2> QED
    BY <2>1, <2>2 DEF ProfileInv
<1> QED
  BY <1>1, <1>2, AlertRecorded DEF B!ProfileNext
-----------------------------------------------------------------------------
(* The workbench: correlation.                                               *)

Arrivals == [alert : Correlated, at : Nat]

\* What arrived and is not yet an hour old is in the cache.
CorrelationInv ==
    /\ tick \in Nat /\ alertCache \subseteq Correlated /\ arrived \subseteq Arrivals
    /\ \A x \in arrived : x.at <= tick /\ (x.alert.Timestamp >= tick - Hour => x.alert \in alertCache)
    /\ B!RelatedWithinHour

\* An alert is related to the alerts of its rule in the cache, and stays there while it is recent.
LEMMA CorrelationStep ==
    ASSUME CorrelationInv, B!CorrelationNext
    PROVE  CorrelationInv'
<1>1. Hour \in Nat /\ \A a, b \in Correlated : a.Timestamp \in Nat /\ (a.id = b.id => a = b)
  BY WorkbenchAssumption
<1>2. \A x \in arrived : x.alert \in Correlated /\ x.at \in Nat
  BY DEF CorrelationInv, Arrivals
<1>3. CASE B!IncidentRequests
  <2>1. UNCHANGED <<alertCache, returned, arrived, tick>>
    BY <1>3 DEF B!IncidentRequests, B!CreateIncident, B!AddNote, B!UpdateIncident
  <2> QED
    BY <2>1 DEF CorrelationInv, B!RelatedWithinHour
<1>4. CASE B!Tick
  <2>1. UNCHANGED <<alertCache, returned, arrived>> /\ tick' = tick + 1
    BY <1>4 DEF B!Tick
  <2>2. B!RelatedWithinHour'
    BY <2>1 DEF CorrelationInv, B!RelatedWithinHour
  <2>3. tick' \in Nat /\ \A x \in arrived : x.at <= tick' /\ (x.alert.Timestamp >= tick' - Hour => x.alert \in alertCache)
    BY <1>1, <1>2, <2>1 DEF CorrelationInv
  <2> QED
    BY <2>1, <2>2, <2>3 DEF CorrelationInv
<1>5. ASSUME NEW a \in Correlated, B!CorrelateAlert(a) PROVE CorrelationInv'
  <2> DEFINE others == {b \in alertCache : b.id # a.id}
             found == UNION {{[of |-> b.id, to |-> a.id, type |-> t] : t \in B!Relations(a, b)} : b \in others}
             new == [alert |-> a, at |-> tick]
  <2>1. /\ UNCHANGED tick /\ alertCache' = {b \in others \cup {a} : B!Recent(b)}
        /\ returned' = returned \cup found /\ arrived' = arrived \cup {new}
    BY <1>5 DEF B!CorrelateAlert
  <2>2. new \in Arrivals /\ new.alert = a /\ new.at = tick /\ tick \in Nat
    BY DEF CorrelationInv, Arrivals
  <2>3. \A b \in others : b.rule = a.rule => [of |-> b.id, to |-> a.id, type |-> "same_rule"] \in found
    <3> SUFFICES ASSUME NEW b \in others, b.rule = a.rule
                 PROVE  [of |-> b.id, to |-> a.id, type |-> "same_rule"] \in found
      OBVIOUS
    <3>1. "same_rule" \in B!Relations(a, b)
      BY DEF B!Relations
    <3> QED
      BY <3>1
  <2>4. \A b \in Correlated : b \in alertCache' <=> (b \in others \/ b = a) /\ b.Timestamp >= tick - Hour
    BY <2>1 DEF B!Recent
  <2>5. alertCache' \subseteq Correlated
    BY <2>1 DEF CorrelationInv
  <2> HIDE DEF found, new
  <2>6. ASSUME NEW x \in arrived', x.alert.Timestamp >= tick - Hour PROVE x.alert \in alertCache'
    <3>1. CASE x = new
      BY <2>2, <2>4, <2>6, <3>1
    <3>2. CASE x \in arrived
      <4>1. x.alert \in alertCache /\ x.alert \in Correlated
        BY <1>2, <2>6, <3>2 DEF CorrelationInv
      <4>2. x.alert.id = a.id => x.alert = a
        BY <1>1, <4>1
      <4> QED
        BY <2>4, <2>6, <4>1, <4>2
    <3> QED
      BY <2>1, <3>1, <3>2
  <2>7. \A x \in arrived' : x.at <= tick
    BY <2>1, <2>2 DEF CorrelationInv
  <2>8. ASSUME NEW x \in arrived', NEW y \in arrived',
               x.at < y.at, x.alert.id # y.alert.id, x.alert.rule = y.alert.rule,
               y.at - x.alert.Timestamp <= Hour
        PROVE  [of |-> x.alert.id, to |-> y.alert.id, type |-> "same_rule"] \in returned'
    <3>1. x.at \in Nat /\ y.at \in Nat /\ x.alert \in Correlated /\ x.alert.Timestamp \in Nat
      BY <1>1, <1>2, <2>1, <2>2
    <3>2. x # new
      BY <2>2, <2>7, <2>8, <3>1
    <3>3. x \in arrived
      BY <2>1, <3>2
    <3>4. CASE y \in arrived
      BY <2>1, <2>8, <3>3, <3>4 DEF CorrelationInv, B!RelatedWithinHour
    <3>5. CASE y = new
      <4>1. x.alert.Timestamp >= tick - Hour
        BY <1>1, <2>2, <2>8, <3>1, <3>5
      <4>2. x.alert \in others
        BY <2>2, <2>8, <3>3, <3>5, <4>1 DEF CorrelationInv
      <4> QED
        BY <2>1, <2>2, <2>3, <2>8, <3>5, <4>2
    <3> QED
      BY <2>1, <3>4, <3>5
  <2>9. B!RelatedWithinHour'
    BY <2>8 DEF B!RelatedWithinHour
  <2>10. arrived' \subseteq Arrivals
    BY <2>1, <2>2 DEF CorrelationInv
  <2> QED
    BY <2>1, <2>2, <2>5, <2>6, <2>7, <2>9, <2>10 DEF CorrelationInv
<1> QED
  BY <1>3, <1>4, <1>5 DEF B!CorrelationNext

BenchInv == CustomInv /\ ProfileInv /\ CorrelationInv

LEMMA BenchInit == B!Init => BenchInv
<1>1. B!Init => CorrelationInv
  BY DEF B!Init, CorrelationInv, B!RelatedWithinHour
<1> QED
  BY <1>1, CustomInit, ProfileInit DEF BenchInv

\* Each manager leaves what is not its own.
LEMMA BenchStep ==
    ASSUME BenchInv, [B!Next]_(B!vars)
    PROVE  BenchInv'
<1>1. UNCHANGED B!customVars => CustomInv'
  BY DEF B!customVars, BenchInv, CustomInv
<1>2. UNCHANGED B!profileVars => ProfileInv'
  BY DEF B!profileVars, BenchInv, ProfileInv
<1>3. UNCHANGED B!correlationVars => CorrelationInv'
  BY DEF B!correlationVars, BenchInv, CorrelationInv, B!RelatedWithinHour
<1>4. \/ B!CustomNext /\ UNCHANGED <<B!profileVars, B!correlationVars>>
      \/ B!ProfileNext /\ UNCHANGED <<B!customVars, B!correlationVars>>
      \/ B!CorrelationNext /\ UNCHANGED <<B!customVars, B!profileVars>>
      \/ UNCHANGED <<B!customVars, B!profileVars, B!correlationVars>>
  BY DEF B!Next, B!CustomNext, B!ProfileNext, B!CorrelationNext, B!BaselineNext, B!vars
<1> QED
  BY <1>1, <1>2, <1>3, <1>4, CustomStep, ProfileStep, CorrelationStep DEF BenchInv

(***************************************************************************)
(* For any number of custom rules, calls, profiles and alerts: a rule's    *)
(* metrics count the executions saved since it was made, two alerts of one *)
(* rule within the hour are related, and whether an alert is for a user is *)
(* answered by the quiet period as walked round the clock and by weekends. *)
(***************************************************************************)
THEOREM WorkbenchIsTrue == ServicesSpec => []WorkbenchTrue
<1>1. ServicesInit => BenchInv
  BY BenchInit DEF ServicesInit
<1>2. BenchInv /\ [ServicesNext]_servicesVars => BenchInv'
  BY BenchStep, PartsMove
<1>3. BenchInv => WorkbenchTrue
  <2> SUFFICES ASSUME BenchInv PROVE B!MetricsTrue /\ B!RelatedWithinHour /\ B!QuietIsQuiet
    BY DEF WorkbenchTrue
  <2>1. B!MetricsTrue
    BY CountsAlike DEF B!MetricsTrue, BenchInv, CustomInv, Own, Matched
  <2>2. B!RelatedWithinHour
    BY DEF BenchInv, CorrelationInv
  <2>3. B!QuietIsQuiet
    BY ProfileIsQuiet DEF BenchInv
  <2> QED
    BY <2>1, <2>2, <2>3
<1> QED
  BY <1>1, <1>2, <1>3, PTL DEF ServicesSpec
-----------------------------------------------------------------------------
(* The file mode.                                                            *)

Readers ==
    [at : {"idle", "open", "rotated", "rotating"}]
    \cup [at : {"reading", "over"}, gen : 1 .. MaxGen, pos : 0 .. MaxSize]

\* The reader works on a tracked file.
FileInv ==
    /\ F!TypeOK /\ reader \in Readers
    /\ reader.at # "idle" => tracked # None

\* The first states have the invariant.
LEMMA FileInit == F!Init => FileInv
<1> SUFFICES ASSUME F!Init PROVE FileInv
  OBVIOUS
<1>1. ChanCap \in Nat /\ MaxGen \in Nat \ {0} /\ MaxSize \in Nat /\ MaxSize >= 2 /\ MaxHalts \in Nat
  BY FileAssumption
<1>2. file \in 1 .. MaxGen /\ size \in [1 .. MaxGen -> 0 .. MaxSize]
  BY <1>1 DEF F!Init
<1>3. running \in BOOLEAN
  BY Zenon DEF F!Init
<1>4. reader \in Readers /\ reader.at = "idle"
  BY DEF F!Init, F!Idle, Readers
<1>5. /\ tracked = None /\ checkpoint = None /\ eventChan = 0 /\ torn = "no" /\ halts = 0 /\ emitted = {}
  BY DEF F!Init
<1> QED
  BY <1>1, <1>2, <1>3, <1>4, <1>5 DEF FileInv, F!TypeOK

\* The invariant is inductive.
LEMMA FileStep ==
    ASSUME FileInv, [F!Next]_(F!vars)
    PROVE  FileInv'
<1>0. ChanCap \in Nat /\ MaxGen \in Nat \ {0} /\ MaxSize \in Nat /\ MaxSize >= 2 /\ MaxHalts \in Nat
  BY FileAssumption
<1> USE <1>0
<1>1. None \notin F!Entries
  BY FileAssumption DEF F!Entries, F!Inodes
<1>2. tracked \in F!Entries \cup {None} /\ checkpoint \in F!Entries \cup {None} /\ size \in [1 .. MaxGen -> 0 .. MaxSize]
  BY DEF FileInv, F!TypeOK
<1>3. /\ reader.at \in {"reading", "over"} => reader \in [at : {"reading", "over"}, gen : 1 .. MaxGen, pos : 0 .. MaxSize]
      /\ reader.at \in {"idle", "open", "rotated", "rotating", "reading", "over"}
  BY DEF FileInv, Readers
<1>4. CASE F!Append \/ \E g \in 1 .. MaxGen : F!Create(g)
  <2>1. UNCHANGED <<running, reader, eventChan, halts, emitted, torn>> /\ F!Written
    BY <1>4 DEF F!Append, F!Create
  <2>2. ASSUME NEW e \in F!Entries \cup {None}
        PROVE  F!Outdated(e) \in F!Entries \cup {None} /\ (e # None => F!Outdated(e) # None)
    BY <1>1, <2>2 DEF F!Outdated, F!Entries, F!Inodes
  <2>3. /\ tracked' \in F!Entries \cup {None} /\ checkpoint' \in F!Entries \cup {None}
        /\ tracked # None => tracked' # None
    BY <1>2, <2>1, <2>2 DEF F!Written
  <2>4. file' \in (1 .. MaxGen) \cup {None} /\ size' \in [1 .. MaxGen -> 0 .. MaxSize]
    <3>1. CASE F!Append
      <4>1. file \in 1 .. MaxGen /\ file' = file
        BY <3>1 DEF F!Append, FileInv, F!TypeOK
      <4> DEFINE n == IF size[file] < MaxSize THEN size[file] + 1 ELSE size[file]
      <4>2. n \in 0 .. MaxSize
        BY <1>2, <4>1
      <4>3. size' = [size EXCEPT ![file] = n]
        BY <3>1 DEF F!Append
      <4> HIDE DEF n
      <4> QED
        BY <1>2, <4>1, <4>2, <4>3
    <3>2. ASSUME NEW g \in 1 .. MaxGen, F!Create(g)
          PROVE  file' \in (1 .. MaxGen) \cup {None} /\ size' \in [1 .. MaxGen -> 0 .. MaxSize]
      <4>1. 2 \in 0 .. MaxSize /\ file' = g /\ size' = [size EXCEPT ![g] = 2]
        BY <3>2 DEF F!Create
      <4> QED
        BY <1>2, <4>1
    <3> QED
      BY <1>4, <3>1, <3>2
  <2> QED
    BY <2>1, <2>3, <2>4 DEF FileInv, F!TypeOK
<1>5. CASE F!Remove
  BY <1>5 DEF F!Remove, F!program, FileInv, F!TypeOK
<1>6. CASE F!Start
  <2>1. UNCHANGED <<file, size, checkpoint, halts, emitted>> /\ reader' = F!Idle /\ eventChan' = 0
    BY <1>6 DEF F!Start
  <2>2. running' = TRUE
    BY <1>6, Zenon DEF F!Start
  <2>3. torn' \in {"no", "saved", "loaded"}
    BY <1>6 DEF F!Start, FileInv, F!TypeOK
  <2>4. tracked' \in F!Entries \cup {None}
    <3>1. F!Discovered \in F!Entries
      BY DEF F!Discovered, F!Entries, F!Inodes
    <3>2. checkpoint # None => checkpoint.Offset \in 0 .. MaxSize
      BY <1>2 DEF F!Entries
    <3>3. F!Restored \in F!Entries
      BY <3>1, <3>2 DEF F!Restored, F!Entries
    <3> QED
      BY <1>6, <3>1, <3>3 DEF F!Start
  <2>5. reader' \in Readers /\ reader'.at = "idle"
    BY <2>1 DEF F!Idle, Readers
  <2> QED
    BY <2>1, <2>2, <2>3, <2>4, <2>5 DEF FileInv, F!TypeOK
<1>7. CASE F!discoverFiles
  <2>1. UNCHANGED <<file, size, running, reader, eventChan, checkpoint, halts, emitted, torn>>
    BY <1>7 DEF F!discoverFiles
  <2>2. tracked' \in F!Entries
    BY <1>7 DEF F!discoverFiles, F!Discovered, F!Entries, F!Inodes
  <2> QED
    BY <1>1, <2>1, <2>2 DEF FileInv, F!TypeOK
<1>8. CASE F!CheckFile
  <2>1. UNCHANGED <<file, size, running, eventChan, checkpoint, halts, emitted, torn>> /\ tracked # None /\ reader.at = "idle"
    BY <1>8 DEF F!CheckFile, F!Idle
  <2>2. CASE tracked' = None /\ reader' = reader
    BY <2>1, <2>2 DEF FileInv, F!TypeOK
  <2>3. CASE tracked' = tracked /\ reader' \in {[at |-> "open"], [at |-> "rotated"]}
    <3>1. reader' \in Readers
      BY <2>3 DEF Readers
    <3> QED
      BY <2>1, <2>3, <3>1 DEF FileInv, F!TypeOK
  <2> QED
    BY <1>8, <2>2, <2>3 DEF F!CheckFile
<1>9. CASE F!SetInode \/ F!FinishRotation
  <2>1. /\ UNCHANGED <<file, size, running, eventChan, checkpoint, halts, emitted, torn>>
        /\ reader' \in {[at |-> "rotating"], F!Idle} /\ reader.at \in {"rotated", "rotating"}
    BY <1>9 DEF F!SetInode, F!FinishRotation
  <2>2. tracked \in F!Entries
    BY <1>2, <2>1 DEF FileInv
  <2>3. tracked' \in F!Entries
    BY <1>9, <2>2 DEF F!SetInode, F!FinishRotation, F!Entries, F!Inodes
  <2>4. reader' \in Readers
    BY <2>1 DEF F!Idle, Readers
  <2> QED
    BY <1>1, <2>1, <2>3, <2>4 DEF FileInv, F!TypeOK, F!Idle
<1>10. CASE F!OpenFile
  <2>1. UNCHANGED <<file, size, running, tracked, eventChan, checkpoint, halts, emitted, torn>> /\ reader.at = "open"
    BY <1>10 DEF F!OpenFile
  <2>2. tracked # None /\ tracked.Offset \in 0 .. MaxSize /\ file \in (1 .. MaxGen) \cup {None}
    BY <1>2, <2>1 DEF FileInv, F!TypeOK, F!Entries
  <2>3. reader' \in Readers
    BY <1>10, <2>2 DEF F!OpenFile, F!Idle, Readers
  <2>4. reader'.at \in {"idle", "reading"}
    BY <1>10 DEF F!OpenFile, F!Idle
  <2> QED
    BY <2>1, <2>2, <2>3, <2>4 DEF FileInv, F!TypeOK
<1>11. CASE F!EmitLine
  <2>1. /\ UNCHANGED <<file, size, running, tracked, checkpoint, halts, torn>> /\ reader.at = "reading" /\ F!AtLine
        /\ eventChan < ChanCap /\ eventChan' = eventChan + 1 /\ emitted' = emitted \cup {F!ThisLine}
        /\ reader' = [reader EXCEPT !.pos = @ + 2]
    BY <1>11 DEF F!EmitLine
  <2>2. tracked # None /\ reader.gen \in 1 .. MaxGen /\ reader.pos \in 0 .. MaxSize
    BY <1>3, <2>1 DEF FileInv
  <2>3. reader.pos % 2 = 0 /\ reader.pos + 2 <= MaxSize
    BY <1>2, <2>1, <2>2 DEF F!AtLine
  <2>4. eventChan' \in 0 .. ChanCap
    BY <2>1 DEF FileInv, F!TypeOK
  <2>5. reader.pos \div 2 + 1 \in 1 .. MaxSize \div 2
    BY <2>2, <2>3
  <2>6. emitted' \subseteq F!Lines
    BY <2>1, <2>2, <2>5 DEF FileInv, F!TypeOK, F!Lines, F!ThisLine
  <2>7. reader' \in Readers /\ reader'.at = "reading"
    BY <1>3, <2>1, <2>2, <2>3 DEF Readers
  <2> QED
    BY <2>1, <2>2, <2>4, <2>6, <2>7 DEF FileInv, F!TypeOK
<1>12. CASE F!SkipFragment
  <2>1. /\ UNCHANGED <<file, size, running, tracked, eventChan, checkpoint, halts, emitted, torn>> /\ reader.at = "reading"
        /\ reader.pos < size[reader.gen]
    BY <1>12 DEF F!SkipFragment
  <2>2. tracked # None /\ reader.gen \in 1 .. MaxGen /\ reader.pos \in 0 .. MaxSize
    BY <1>3, <2>1 DEF FileInv
  <2> DEFINE n == reader.pos + 1
             at == IF reader.pos % 2 = 0 THEN "over" ELSE "reading"
  <2>3. n \in 0 .. MaxSize /\ at \in {"reading", "over"}
    BY <1>2, <2>1, <2>2
  <2>4. reader' = [reader EXCEPT !.pos = n, !.at = at]
    BY <1>3, <1>12, <2>1 DEF F!SkipFragment
  <2> HIDE DEF n, at
  <2>5. reader' \in Readers /\ reader'.at \in {"reading", "over"}
    BY <1>3, <2>1, <2>3, <2>4 DEF Readers
  <2> QED
    BY <2>1, <2>2, <2>5 DEF FileInv, F!TypeOK
<1>13. CASE F!FinishRead
  <2>1. /\ UNCHANGED <<file, size, running, eventChan, checkpoint, halts, emitted, torn>>
        /\ reader' = F!Idle /\ reader.at \in {"reading", "over"} /\ tracked' = [tracked EXCEPT !.Offset = reader.pos]
    BY <1>13 DEF F!FinishRead
  <2>2. tracked \in F!Entries /\ reader.pos \in 0 .. MaxSize
    BY <1>2, <1>3, <2>1 DEF FileInv
  <2>3. tracked' \in F!Entries
    BY <2>1, <2>2 DEF F!Entries
  <2>4. reader' \in Readers /\ reader'.at = "idle"
    BY <2>1 DEF F!Idle, Readers
  <2> QED
    BY <2>1, <2>3, <2>4 DEF FileInv, F!TypeOK
<1>14. CASE F!Save
  <2>1. UNCHANGED <<file, size, running, tracked, reader, eventChan, halts, emitted>>
    BY <1>14 DEF F!Save, F!program
  <2>2. checkpoint' \in F!Entries \cup {None}
    BY <1>2, <1>14 DEF F!Save
  <2>3. torn' \in {"no", "saved", "loaded"}
    BY <1>14 DEF F!Save, FileInv, F!TypeOK
  <2> QED
    BY <2>1, <2>2, <2>3 DEF FileInv, F!TypeOK
<1>15. CASE F!processEvents
  <2>1. UNCHANGED <<file, size, running, tracked, reader, checkpoint, halts, emitted, torn>>
    BY <1>15 DEF F!processEvents
  <2>2. eventChan' \in 0 .. ChanCap
    BY <1>15 DEF F!processEvents, FileInv, F!TypeOK
  <2> QED
    BY <2>1, <2>2 DEF FileInv, F!TypeOK
<1>16. CASE F!Halt
  <2>1. /\ UNCHANGED <<file, size, checkpoint, emitted, torn>> /\ reader' = F!Idle /\ eventChan' = 0
        /\ tracked' = None
    BY <1>16 DEF F!Halt
  <2>2. running' = FALSE
    BY <1>16, Zenon DEF F!Halt
  <2>3. halts' \in 0 .. MaxHalts
    BY <1>16 DEF F!Halt, FileInv, F!TypeOK
  <2>4. running' \in BOOLEAN
    BY <2>2, Zenon
  <2>5. reader' \in Readers /\ reader'.at = "idle"
    BY <2>1 DEF F!Idle, Readers
  <2> QED
    BY <2>1, <2>3, <2>4, <2>5 DEF FileInv, F!TypeOK
<1>17. CASE UNCHANGED F!vars
  BY <1>17 DEF F!vars, F!program, FileInv, F!TypeOK
<1> QED
  BY <1>4, <1>5, <1>6, <1>7, <1>8, <1>9, <1>10, <1>11, <1>12, <1>13, <1>14, <1>15, <1>16, <1>17
     DEF F!Next, F!ReaderStep
-----------------------------------------------------------------------------
(* The start of the programs.                                                *)

Loaded == {T!LoadConfig(f) : f \in Settings}
Stages == {"down", "refused", "rules", "create", "encode", "rename", "parts", "up"}

\* A cache file with a fingerprint has the live program's rules for the products it names.
Sound(c) == c.fingerprint # None => c.rules.quality = None /\ c.fingerprint[1] = c.rules.products

\* Every whole file is sound, and so are the rules the live program has, from the moment it has them.
StartInv ==
    /\ T!TypeOK
    /\ cfg \in [Programs -> Loaded \cup {None}] /\ writes \in [Programs -> DOMAIN inodes \cup {None}]
    /\ DOMAIN ruleSets = Programs
    /\ \A p \in Programs : pc[p] \notin {"down", "refused"} => cfg[p] \in Loaded
    /\ \A i \in DOMAIN inodes : inodes[i] # Torn => Sound(inodes[i])
    /\ "live" \in Programs /\ pc["live"] \in {"create", "encode", "rename", "parts", "up"} =>
          /\ ruleSets["live"].products = cfg["live"].products /\ ruleSets["live"].quality = None
          /\ ruleSets["live"].some

\* Whatever the file says, what is loaded has positive sizes, products and a quality.
LEMMA LoadedIsSound ==
    ASSUME NEW c \in Loaded
    PROVE  /\ c.workers > 0 /\ c.cacheSize > 0 /\ c.loaders > 0
           /\ c.products \in Products /\ c.quality \in Qualities
           /\ <<c.products, c.quality>> # None
<1>1. PICK f \in Settings : c = T!LoadConfig(f)
  BY DEF Loaded
<1>2. Cores \in Nat \ {0} /\ None \notin Products \X Qualities
  BY StartAssumption
<1>3. CASE f = None
  <2>1. c = T!DefaultConfig
    BY <1>1, <1>3 DEF T!LoadConfig
  <2> QED
    BY <1>2, <2>1 DEF T!DefaultConfig, Products, Qualities
<1>4. CASE f # None
  <2>1. c = T!ValidateAndSetDefaults(f)
    BY <1>1, <1>4 DEF T!LoadConfig
  <2>2. f.workers \in Int /\ f.cacheSize \in Int /\ f.loaders \in Int /\ f \in Chosen
    BY <1>4, StartAssumption DEF Chosen
  <2>3. c.workers > 0 /\ c.cacheSize > 0 /\ c.loaders > 0
    BY <1>2, <2>1, <2>2 DEF T!ValidateAndSetDefaults, T!Positive, T!Clamp
  <2>4. c.products \in Products /\ c.quality \in Qualities
    BY <2>1, <2>2 DEF T!ValidateAndSetDefaults, T!Given, Products, Qualities
  <2> QED
    BY <1>2, <2>3, <2>4
<1> QED
  BY <1>3, <1>4

\* The first states have the invariant.
LEMMA StartInit == T!Init => StartInv
<1>1. MaxRuleEdits \in Nat
  BY StartAssumption
<1> QED
  BY <1>1 DEF T!Init, StartInv, T!TypeOK

\* The invariant is inductive.
LEMMA StartStep ==
    ASSUME StartInv, [T!Next]_(T!vars)
    PROVE  StartInv'
<1>1. /\ pc \in [Programs -> Stages] /\ settings \in Settings /\ dir \in 0 .. MaxRuleEdits /\ boots \in Nat
      /\ tmp \in DOMAIN inodes \cup {None} /\ cache \in DOMAIN inodes \cup {None}
  BY DEF StartInv, T!TypeOK, Stages
<1>2. ASSUME /\ pc' \in [Programs -> Stages] /\ settings' \in Settings /\ dir' \in 0 .. MaxRuleEdits /\ boots' \in Nat
             /\ tmp' \in DOMAIN inodes' \cup {None} /\ cache' \in DOMAIN inodes' \cup {None}
             /\ writes' \in [Programs -> DOMAIN inodes' \cup {None}]
      PROVE  T!TypeOK'
  BY <1>2 DEF T!TypeOK, Stages
<1>3. Programs \subseteq {"kafka", "live"} /\ MaxRuleEdits \in Nat
  BY StartAssumption
<1> USE DEF T!Set, T!operator, T!files
<1>4. ASSUME NEW p \in Programs, T!Start(p) PROVE StartInv'
  <2>1. /\ UNCHANGED <<settings, dir, inodes, tmp, cache, writes>>
        /\ boots' = boots + 1 /\ cfg' = [cfg EXCEPT ![p] = T!LoadConfig(settings)] /\ ruleSets' = [ruleSets EXCEPT ![p] = None]
        /\ pc' = [pc EXCEPT ![p] = pc'[p]] /\ pc'[p] \in {"rules", "refused"}
    BY <1>1, <1>4 DEF T!Start
  <2>2. T!LoadConfig(settings) \in Loaded
    BY <1>1 DEF Loaded
  <2>3. T!TypeOK'
    BY <1>1, <1>2, <2>1 DEF StartInv, Stages
  <2> QED
    BY <1>1, <2>1, <2>2, <2>3 DEF StartInv
<1>5. ASSUME NEW p \in Programs, NEW to \in {"down", "refused"}, pc' = [pc EXCEPT ![p] = to],
             \/ UNCHANGED writes \/ writes' = [writes EXCEPT ![p] = None],
             UNCHANGED <<cfg, ruleSets, settings, dir, inodes, tmp, cache, boots>>
      PROVE  StartInv'
  <2>1. T!TypeOK' /\ writes' \in [Programs -> DOMAIN inodes' \cup {None}]
    BY <1>1, <1>2, <1>5 DEF StartInv, Stages
  <2> QED
    BY <1>1, <1>5, <2>1 DEF StartInv
<1>6. ASSUME NEW p \in Programs, NEW to \in {"parts", "up"}, pc' = [pc EXCEPT ![p] = to],
             pc[p] \in {"create", "encode", "rename", "parts"},
             \/ UNCHANGED writes \/ writes' = [writes EXCEPT ![p] = None],
             tmp' \in DOMAIN inodes \cup {None}, cache' \in DOMAIN inodes \cup {None},
             UNCHANGED <<cfg, ruleSets, settings, dir, inodes, boots>>
      PROVE  StartInv'
  <2>1. T!TypeOK' /\ writes' \in [Programs -> DOMAIN inodes' \cup {None}]
    BY <1>1, <1>2, <1>6 DEF StartInv, Stages
  <2> QED
    BY <1>1, <1>6, <2>1 DEF StartInv
<1>7. ASSUME NEW p \in Programs, T!LoadRulesFromCache(p) PROVE StartInv'
  <2>1. /\ UNCHANGED <<cfg, settings, dir, inodes, tmp, cache, writes, boots>> /\ pc[p] = "rules"
        /\ ruleSets' = [ruleSets EXCEPT ![p] = inodes[cache].rules] /\ pc' = [pc EXCEPT ![p] = "parts"]
        /\ cache # None /\ T!Fits(inodes[cache], p)
    BY <1>7 DEF T!LoadRulesFromCache, T!CacheHit
  <2>2. T!TypeOK'
    BY <1>1, <1>2, <2>1 DEF StartInv, Stages
  <2>3. cfg[p] \in Loaded
    BY <2>1 DEF StartInv
  <2>4. p = "live" => /\ inodes[cache].rules.products = cfg[p].products /\ inodes[cache].rules.quality = None
                      /\ inodes[cache].rules.some
    <3> SUFFICES ASSUME p = "live"
                 PROVE  /\ inodes[cache].rules.products = cfg[p].products /\ inodes[cache].rules.quality = None
                        /\ inodes[cache].rules.some
      OBVIOUS
    <3>4. inodes[cache].rules.some
      BY <2>1 DEF T!Fits
    <3>1. T!fingerprint(p) = <<cfg[p].products, cfg[p].quality>> /\ T!fingerprint(p) # None
      BY <2>3, LoadedIsSound DEF T!fingerprint
    <3>2. inodes[cache] # Torn /\ inodes[cache].fingerprint = T!fingerprint(p) /\ cache \in DOMAIN inodes
      BY <1>1, <2>1, <3>1 DEF T!Fits
    <3>3. Sound(inodes[cache])
      BY <3>2 DEF StartInv
    <3> QED
      BY <3>1, <3>2, <3>3, <3>4 DEF Sound
  <2> QED
    BY <1>1, <2>1, <2>2, <2>3, <2>4 DEF StartInv
<1>8. ASSUME NEW p \in Programs, T!LoadRules(p) PROVE StartInv'
  <2>4. PICK some \in BOOLEAN : (p = "live" => some) /\ ruleSets' = [ruleSets EXCEPT ![p] = T!LoadFromDir(p, some)]
    BY <1>8 DEF T!LoadRules
  <2> DEFINE r == T!LoadFromDir(p, some)
  <2>1. /\ UNCHANGED <<cfg, settings, dir, inodes, tmp, cache, writes, boots>> /\ pc[p] = "rules"
        /\ ruleSets' = [ruleSets EXCEPT ![p] = r] /\ pc' = [pc EXCEPT ![p] = "create"]
    BY <1>8, <2>4 DEF T!LoadRules
  <2>2. r.products = cfg[p].products /\ (p = "live" => r.quality = None /\ r.some)
    BY <2>4 DEF T!LoadFromDir
  <2> HIDE DEF r
  <2>3. T!TypeOK'
    BY <1>1, <1>2, <2>1 DEF StartInv, Stages
  <2> QED
    BY <1>1, <2>1, <2>2, <2>3 DEF StartInv
<1>9. ASSUME NEW p \in Programs, T!CreateTmp(p) PROVE StartInv'
  <2> DEFINE i == IF tmp = None THEN T!Cardinality(DOMAIN inodes) + 1 ELSE tmp
  <2>1. /\ UNCHANGED <<cfg, ruleSets, settings, dir, cache, boots>> /\ pc[p] = "create"
        /\ pc' = [pc EXCEPT ![p] = "encode"] /\ tmp' = i /\ writes' = [writes EXCEPT ![p] = i]
        /\ inodes' = [j \in DOMAIN inodes \cup {i} |-> IF j = i THEN Torn ELSE inodes[j]]
    BY <1>9 DEF T!CreateTmp
  <2> HIDE DEF i
  <2>2. DOMAIN inodes' = DOMAIN inodes \cup {i}
    BY <2>1
  <2>3. writes' \in [Programs -> DOMAIN inodes' \cup {None}]
    BY <2>1, <2>2 DEF StartInv
  <2>4. T!TypeOK'
    BY <1>1, <1>2, <2>1, <2>2, <2>3 DEF Stages
  <2>5. \A j \in DOMAIN inodes' : inodes'[j] # Torn => Sound(inodes'[j])
    BY <2>1 DEF StartInv
  <2> QED
    BY <1>1, <2>1, <2>3, <2>4, <2>5 DEF StartInv
<1>10. ASSUME NEW p \in Programs, T!Encode(p) PROVE StartInv'
  <2> DEFINE c == [rules |-> ruleSets[p], fingerprint |-> T!fingerprint(p)]
  <2>1. /\ UNCHANGED <<cfg, ruleSets, settings, dir, tmp, cache, writes, boots>> /\ pc[p] = "encode"
        /\ pc' = [pc EXCEPT ![p] = "rename"] /\ inodes' = [inodes EXCEPT ![writes[p]] = c]
    BY <1>10 DEF T!Encode
  <2>2. Sound(c)
    <3>1. CASE p = "kafka"
      BY <3>1 DEF T!fingerprint, Sound
    <3>2. CASE p = "live"
      BY <2>1, <3>2 DEF T!fingerprint, Sound, StartInv
    <3> QED
      BY <1>3, <3>1, <3>2
  <2> HIDE DEF c
  <2>3. DOMAIN inodes' = DOMAIN inodes /\ \A j \in DOMAIN inodes : inodes'[j] \in {c, inodes[j]}
    BY <2>1
  <2>4. T!TypeOK'
    BY <1>1, <1>2, <2>1, <2>3 DEF StartInv, Stages
  <2>5. \A j \in DOMAIN inodes' : inodes'[j] # Torn => Sound(inodes'[j])
    BY <2>2, <2>3 DEF StartInv
  <2> QED
    BY <1>1, <2>1, <2>3, <2>4, <2>5 DEF StartInv
<1>11. ASSUME NEW p \in Programs, T!Rename(p) \/ T!SaveFails(p) PROVE StartInv'
  BY <1>1, <1>6, <1>11 DEF T!Rename, T!SaveFails
<1>12. ASSUME NEW p \in Programs, T!LoadFails(p) \/ T!Ends(p) PROVE StartInv'
  BY <1>5, <1>12 DEF T!LoadFails, T!Ends
<1>13. CASE T!LiveRefuses \/ T!MigrationsFail
  BY <1>5, <1>13 DEF T!LiveRefuses, T!MigrationsFail
<1>14. ASSUME NEW db \in BOOLEAN, NEW broker \in BOOLEAN, NEW loop \in BOOLEAN, T!StartKafkaParts(db, broker, loop)
       PROVE  StartInv'
  BY <1>1, <1>6, <1>14 DEF T!StartKafkaParts
<1>15. CASE T!StartLiveParts
  BY <1>1, <1>5, <1>6, <1>15 DEF T!StartLiveParts
<1>16. CASE T!EditSettings \/ T!CacheAges
  <2>1. UNCHANGED <<pc, cfg, ruleSets, inodes, tmp, cache, writes, boots>>
    BY <1>16 DEF T!EditSettings, T!CacheAges
  <2>2. settings' \in Settings /\ dir' \in 0 .. MaxRuleEdits
    BY <1>1, <1>3, <1>16 DEF T!EditSettings, T!CacheAges
  <2>3. T!TypeOK'
    BY <1>1, <1>2, <2>1, <2>2 DEF StartInv
  <2> QED
    BY <2>1, <2>3 DEF StartInv
<1>17. CASE UNCHANGED T!vars
  BY <1>17 DEF T!vars, StartInv, T!TypeOK
<1> QED
  BY <1>4, <1>7, <1>8, <1>9, <1>10, <1>11, <1>12, <1>13, <1>14, <1>15, <1>16, <1>17 DEF T!Next, T!SaveRulesToCache
-----------------------------------------------------------------------------
(* The logs of the workbench.                                                *)

\* A log with more entries behind it, without the oldest if there are too many, is a log.
LEMMA LogGrows ==
    ASSUME NEW q, q \in Seq(Members(q)), NEW S, NEW r \in Seq(S)
    PROVE  B!Kept(q \o r) \in Seq(Members(B!Kept(q \o r))) /\ Len(B!Kept(q \o r)) <= MaxShown
<1> DEFINE All == Members(q) \cup S
           c == q \o r
           k == B!Kept(c)
<1>1. MaxShown \in Nat
  BY WorkbenchAssumption
<1>2. q \in [1 .. Len(q) -> Members(q)] /\ Len(q) \in Nat /\ r \in [1 .. Len(r) -> S] /\ Len(r) \in Nat
  BY LenProperties
<1>3. q \in [1 .. Len(q) -> All] /\ r \in [1 .. Len(r) -> All]
  BY <1>2
<1>4. q \in Seq(All) /\ r \in Seq(All)
  BY <1>2, <1>3, FunctionIsSeq
<1> HIDE DEF All
<1>5. c \in Seq(All)
  BY <1>4, ConcatProperties
<1> HIDE DEF c
<1>6. k \in Seq(All) /\ Len(k) <= MaxShown
  BY <1>1, <1>5, NewestAreKept, BenchKept
<1> HIDE DEF k
<1>7. k \in [1 .. Len(k) -> All] /\ Len(k) \in Nat /\ DOMAIN k = 1 .. Len(k)
  BY <1>6, LenProperties
<1>8. k \in [1 .. Len(k) -> Members(k)]
  BY <1>7 DEF Members
<1>9. k \in Seq(Members(k))
  BY <1>7, <1>8, FunctionIsSeq
<1> QED
  BY <1>6, <1>9 DEF k, c

\* A finite set is listed by SetToSeq.
LEMMA SetIsListed ==
    ASSUME NEW X, IsFiniteSet(X)
    PROVE  B!SetToSeq(X) \in Seq(X)
<1> DEFINE n == Cardinality(X)
<1>1. n \in Nat /\ ExistsBijection(1 .. n, X)
  BY FS_CardinalityType
<1>2. PICK f \in Bijection(1 .. n, X) : TRUE
  BY <1>1 DEF ExistsBijection
<1>3. f \in [1 .. n -> X] /\ B!IsInjective(f)
  BY <1>2 DEF Bijection, Injection, IsInjective, B!IsInjective
<1>4. B!SetToSeq(X) = CHOOSE g \in [1 .. n -> X] : B!IsInjective(g)
  BY CountsAlike DEF B!SetToSeq
<1>5. B!SetToSeq(X) \in [1 .. n -> X]
  BY <1>3, <1>4
<1> QED
  BY <1>1, <1>5, FunctionIsSeq

\* The cache is finite, so that the relations found in it are a list.
LogInv ==
    /\ IsFiniteSet(alertCache)
    /\ relationships \in Seq(Members(relationships)) /\ Len(relationships) <= MaxShown
    /\ scores \in Seq(Members(scores)) /\ Len(scores) <= MaxShown

\* The first states have the invariant.
LEMMA LogInit == B!Init => LogInv
<1> SUFFICES ASSUME B!Init PROVE LogInv
  OBVIOUS
<1>1. alertCache = {} /\ relationships = <<>> /\ scores = <<>>
  BY DEF B!Init
<1>2. \A S : <<>> \in Seq(S) /\ Len(<<>>) = 0
  BY EmptySeq
<1>3. IsFiniteSet({}) /\ MaxShown \in Nat
  BY FS_EmptySet, WorkbenchAssumption
<1> QED
  BY <1>1, <1>2, <1>3 DEF LogInv

\* The invariant is inductive.
LEMMA LogStep ==
    ASSUME LogInv, [B!Next]_(B!vars)
    PROVE  LogInv'
<1>1. CASE UNCHANGED <<alertCache, relationships, scores>>
  BY <1>1 DEF LogInv
<1>2. ASSUME NEW a \in Correlated, B!CorrelateAlert(a), UNCHANGED B!baselineVars PROVE LogInv'
  <2> DEFINE others == {b \in alertCache : b.id # a.id}
             found == UNION {{[of |-> b.id, to |-> a.id, type |-> t] : t \in B!Relations(a, b)} : b \in others}
             new == {b \in others \cup {a} : B!Recent(b)}
  <2>1. /\ alertCache' = new /\ UNCHANGED scores
        /\ relationships' = B!Kept(relationships \o B!SetToSeq(found))
    BY <1>2 DEF B!CorrelateAlert, B!baselineVars
  <2>2. IsFiniteSet(others)
    BY FS_Subset DEF LogInv
  <2>3. IsFiniteSet(new)
    <3>1. IsFiniteSet(others \cup {a})
      BY <2>2, FS_AddElement
    <3> QED
      BY <3>1, FS_Subset
  <2>4. IsFiniteSet(found)
    <3> DEFINE each == {{[of |-> b.id, to |-> a.id, type |-> t] : t \in B!Relations(a, b)} : b \in others}
    <3>1. IsFiniteSet(each)
      <4> DEFINE f == [b \in others |-> {[of |-> b.id, to |-> a.id, type |-> t] : t \in B!Relations(a, b)}]
      <4>1. f \in Surjection(others, each)
        BY DEF Surjection
      <4> QED
        BY <2>2, <4>1, FS_Surjection
    <3>2. \A X \in each : IsFiniteSet(X)
      <4> SUFFICES ASSUME NEW b \in others PROVE IsFiniteSet({[of |-> b.id, to |-> a.id, type |-> t] : t \in B!Relations(a, b)})
        OBVIOUS
      <4> DEFINE s == [of |-> b.id, to |-> a.id, type |-> "same_rule"]
                 t == [of |-> b.id, to |-> a.id, type |-> "time_based"]
      <4>1. {[of |-> b.id, to |-> a.id, type |-> u] : u \in B!Relations(a, b)} \subseteq {s, t}
        BY DEF B!Relations
      <4> HIDE DEF s, t
      <4>2. IsFiniteSet({s}) /\ {s, t} = {s} \cup {t}
        BY FS_Singleton
      <4>3. IsFiniteSet({s} \cup {t})
        BY <4>2, FS_AddElement
      <4>4. IsFiniteSet({s, t})
        BY <4>2, <4>3
      <4> QED
        BY <4>1, <4>4, FS_Subset
    <3> HIDE DEF each
    <3>3. IsFiniteSet(UNION each)
      BY <3>1, <3>2, FS_UNION
    <3> QED
      BY <3>3 DEF each
  <2> HIDE DEF found, new, others
  <2> DEFINE r == B!SetToSeq(found)
  <2>5. r \in Seq(found)
    BY <2>4, SetIsListed
  <2> HIDE DEF r
  <2>6. relationships' \in Seq(Members(relationships')) /\ Len(relationships') <= MaxShown
    <3>1. relationships \in Seq(Members(relationships))
      BY DEF LogInv
    <3>2. relationships' = B!Kept(relationships \o r)
      BY <2>1 DEF r
    <3> QED
      BY <2>5, <3>1, <3>2, LogGrows
  <2> QED
    BY <2>1, <2>3, <2>6 DEF LogInv
<1>3. ASSUME NEW i, NEW n, B!CalculateAnomalyScore(i, n), UNCHANGED B!correlationVars PROVE LogInv'
  <2> DEFINE b == baselines[<<i, "process">>]
             raw == 5000 + B!calculateDeviation(n, b) * 167
             x == [score |-> IF raw > 10000 THEN 10000 ELSE raw, confidence |-> B!calculateConfidence(b.from)]
  <2>1. UNCHANGED <<alertCache, relationships>> /\ scores' = B!Kept(Append(scores, x))
    BY <1>3 DEF B!CalculateAnomalyScore, B!correlationVars
  <2> HIDE DEF x
  <2> DEFINE r == <<x>>
             S == {x}
  <2>2. r \in Seq(S)
    OBVIOUS
  <2>3. scores \in Seq(Members(scores))
    BY DEF LogInv
  <2>4. Append(scores, x) = scores \o r
    BY <2>3
  <2> HIDE DEF r, S
  <2>5. scores' \in Seq(Members(scores')) /\ Len(scores') <= MaxShown
    BY <2>1, <2>2, <2>3, <2>4, LogGrows
  <2> QED
    BY <2>1, <2>5 DEF LogInv
<1>4. \/ UNCHANGED <<alertCache, relationships, scores>>
      \/ UNCHANGED B!baselineVars /\ \E a \in Correlated : B!CorrelateAlert(a)
      \/ UNCHANGED B!correlationVars /\ \E i, n : B!CalculateAnomalyScore(i, n)
  <2>1. CASE B!CustomNext
    BY <2>1 DEF B!CustomNext, B!correlationVars, B!baselineVars
  <2>2. CASE B!ProfileNext
    BY <2>2 DEF B!ProfileNext, B!correlationVars, B!baselineVars
  <2>3. CASE B!CorrelationNext
    BY <2>3 DEF B!CorrelationNext, B!baselineVars, B!IncidentRequests, B!CreateIncident, B!AddNote, B!UpdateIncident, B!Tick
  <2>4. CASE B!BaselineNext
    BY <2>4 DEF B!BaselineNext, B!correlationVars, B!LearnBaseline
  <2>5. CASE UNCHANGED B!vars
    BY <2>5 DEF B!vars, B!correlationVars, B!baselineVars
  <2> QED
    BY <2>1, <2>2, <2>3, <2>4, <2>5 DEF B!Next
<1> QED
  BY <1>1, <1>2, <1>3, <1>4
-----------------------------------------------------------------------------
(* Every part's state has its type.                                          *)

AllInv ==
    /\ ApiInv /\ FileInv /\ StreamInv /\ AutomationInv /\ IntegrationInv /\ WorkInv
    /\ BenchInv /\ LogInv /\ StartInv

LEMMA TypesByInvariant == AllInv => TypesHold
<1> SUFFICES ASSUME AllInv PROVE TypesHold
  OBVIOUS
<1>1. TypeOK
  <2>1. ASSUME NEW r \in Requests
        PROVE  \/ req[r].op \in RuleOps /\ req[r].id \in Rules /\ req[r].read \in RuleRow \cup {None}
               \/ req[r].op \in AlertOps /\ req[r].id \in Alerts /\ req[r].read = None
               \/ req[r].op = "import" /\ req[r].read \subseteq Rules
               \/ req[r] = Free
    <3>1. req[r] \in Asked
      BY DEF AllInv, ApiInv
    <3> QED
      BY <3>1 DEF Asked
  <2> QED
    BY <2>1 DEF AllInv, ApiInv, TypeOK
<1>2. F!TypeOK
  BY DEF AllInv, FileInv
<1>3. W!TypeOK
  BY DEF AllInv, StreamInv, StreamTypes, W!TypeOK
<1>4. A!TypeOK
  <2>1. Len(objects) \in Nat /\ Len(objects) <= MaxTracks /\ MaxTracks \in Nat
    BY AutomationAssumption, LenProperties DEF AllInv, AutomationInv, EscalationInv
  <2>2. states \in [Tracked -> 0 .. MaxTracks]
    BY <2>1 DEF AllInv, AutomationInv, EscalationInv
  <2> QED
    BY <2>2 DEF AllInv, AutomationInv, PlaybookInv, EscalationInv, Tracked, A!TypeOK
<1>5. I!TypeOK
  BY HooksHaveRetries DEF AllInv, IntegrationInv, HookInv, SplunkInv, ServiceInv, I!TypeOK
<1>6. P!TypeOK
  <2>1. \A c \in Callers : sender[c] \in 0 .. Len(Events[c]) /\ caller[c].got \in 0 .. Len(Events[c])
    BY InputsAreQueued DEF AllInv, WorkInv, CallInv
  <2> QED
    BY <2>1 DEF AllInv, WorkInv, WorkTypes, P!TypeOK
<1>7. B!TypeOK
  <2>1. \A i \in BenchIds : customRules[i] = None <=> metrics[i] = None
    BY DEF AllInv, BenchInv, CustomInv
  <2>2. \A i \in BenchIds : (customRules[i] = None) = (metrics[i] = None)
    BY <2>1, Zenon
  <2>3. Len(ruleLog) <= MaxShown /\ Len(userAlerts) <= MaxShown /\ Len(relationships) <= MaxShown /\ Len(scores) <= MaxShown
    BY DEF AllInv, BenchInv, CustomInv, ProfileInv, LogInv
  <2> QED
    BY <2>2, <2>3, Zenon DEF B!TypeOK
<1>8. T!TypeOK
  BY DEF AllInv, StartInv
<1> QED
  BY <1>1, <1>2, <1>3, <1>4, <1>5, <1>6, <1>7, <1>8, Zenon DEF TypesHold

(***************************************************************************)
(* For any settings, programs, rule directories and crashes between the    *)
(* writes of the rule cache: a live program that is up has the rules of    *)
(* its settings, every pool of a program has a positive size, and every    *)
(* part's state has its type.                                              *)
(***************************************************************************)
THEOREM StartsAreAsConfigured == ServicesSpec => []StartsAsConfigured
<1>1. ServicesInit => AllInv
  BY ApiInit, FileInit, StreamInit, AutomationInit, IntegrationInit, WorkInit, BenchInit, LogInit, StartInit
  DEF ServicesInit, AllInv
<1>2. AllInv /\ [ServicesNext]_servicesVars => AllInv'
  BY ApiStep, FileStep, StreamStep, AutomationStep, IntegrationStep, WorkStep, BenchStep, LogStep, StartStep, PartsMove
  DEF AllInv
<1>3. AllInv => StartsAsConfigured
  <2> SUFFICES ASSUME AllInv PROVE StartsAsConfigured
    OBVIOUS
  <2>1. T!LiveHasItsRules
    BY DEF AllInv, StartInv, T!LiveHasItsRules
  <2>2. \A p \in Programs : cfg[p] # None => cfg[p] \in Loaded
    BY DEF AllInv, StartInv
  <2>3. T!SizesArePositive
    BY <2>2, LoadedIsSound DEF T!SizesArePositive
  <2> QED
    BY <2>1, <2>3, TypesByInvariant DEF StartsAsConfigured
<1> QED
  BY <1>1, <1>2, <1>3, PTL DEF ServicesSpec
=============================================================================
