------------------------------ MODULE SigmaApi ------------------------------
(***************************************************************************)
(* The Sigma engine's REST handlers of rules and alerts, over their two    *)
(* tables.  Most handlers read the row, decode the request and write: two  *)
(* statements with no transaction around them.  The alert writer finds a   *)
(* recent row and counts it up, in two statements too.  At every start the *)
(* rules loaded from files are upserted one by one; a rule that fails is   *)
(* passed over.                                                            *)
(***************************************************************************)
EXTENDS Naturals, FiniteSets

CONSTANTS
    Rules,        \* ids of rules
    Official,     \* the ids with a file
    Alerts,       \* ids of alerts, all of one agent and one rule
    Requests,     \* requests that overlap
    None,
    MaxVersion, MaxCount, MaxStarts   \* bounds of the model

ASSUME OfficialAreRules == Official \subseteq Rules

VARIABLES
    rules,        \* sigma_rules: text, enabled, version
    alerts,       \* sigma_alerts: status, notes, count
    req,          \* each request's operation, its id and what it has read
    recent,       \* the row the alert writer has found
    starts

vars == <<rules, alerts, req, recent, starts>>

RuleOps == {"create", "update", "delete", "enable", "disable", "test"}
AlertOps == {"status", "acknowledge", "deleteAlert"}
validStatuses == {"open", "acknowledged", "resolved"}   \* and three the code treats alike

RuleRow == [text : {"file", "edited"}, enabled : BOOLEAN, version : 1 .. MaxVersion]
AlertRow == [status : validStatuses, notes : BOOLEAN, count : 1 .. MaxCount]
Free == [op |-> None, id |-> None, read |-> None]

TypeOK ==
    /\ rules \in [Rules -> RuleRow \cup {None}]
    /\ alerts \in [Alerts -> AlertRow \cup {None}]
    /\ \A r \in Requests :
          \/ req[r].op \in RuleOps /\ req[r].id \in Rules /\ req[r].read \in RuleRow \cup {None}
          \/ req[r].op \in AlertOps /\ req[r].id \in Alerts /\ req[r].read = None
          \/ req[r].op = "import" /\ req[r].read \subseteq Rules
          \/ req[r] = Free
    /\ recent \in Alerts \cup {None}
    /\ starts \in 0 .. MaxStarts

Init ==
    /\ rules = [i \in Rules |-> None]
    /\ alerts = [a \in Alerts |-> None]
    /\ req = [r \in Requests |-> Free]
    /\ recent = None
    /\ starts = 0

Ends(r) == req' = [req EXCEPT ![r] = Free]

-----------------------------------------------------------------------------
(* The rule repository. *)
RuleByID(i) == rules[i]

New(text) == [text |-> text, enabled |-> TRUE, version |-> 1]

(* INSERT fails on an id that is there. *)
InsertRule(i) == IF rules[i] = None THEN rules' = [rules EXCEPT ![i] = New("edited")] ELSE UNCHANGED rules

(* UPDATE of every column but version, which counts up; no row, an error. *)
UpdateRow(i, row) ==
    IF rules[i] = None THEN UNCHANGED rules
    ELSE /\ rules[i].version < MaxVersion
         /\ rules' = [rules EXCEPT ![i] = [row EXCEPT !.version = rules[i].version + 1]]

DeleteRow(i) == rules' = [rules EXCEPT ![i] = None]

SetEnabled(i, b) == rules' = [rules EXCEPT ![i] = IF @ = None THEN None ELSE [@ EXCEPT !.enabled = b]]

(* Faulty variant: the upsert also sets enabled, as the row inserted has it. *)
UpsertEnabling(i) == IF rules[i] = None THEN New("file") ELSE [rules[i] EXCEPT !.text = "file", !.enabled = TRUE]

(* INSERT ... ON CONFLICT: what the file says, but for enabled and version. *)
Upsert(i) == IF rules[i] = None THEN New("file") ELSE [rules[i] EXCEPT !.text = "file"]

(* The engine starts: the loaded rules are upserted, but for those whose
   statement fails, before the API serves.  Requests of the run before are
   cut off. *)
seedRulesToDB ==
    /\ starts < MaxStarts
    /\ \E done \in SUBSET Official :
          rules' = [i \in Rules |-> IF i \in done THEN Upsert(i) ELSE rules[i]]
    /\ req' = [r \in Requests |-> Free]
    /\ recent' = None
    /\ starts' = starts + 1
    /\ UNCHANGED alerts

-----------------------------------------------------------------------------
(* The first statement of a handler: GetByID, with its errors taken for no
   row; UpdateRule goes on to use what it has read.  CreateRule goes on when
   there is none, the others when there is. *)
Looks(r, op, i) ==
    /\ starts > 0
    /\ req[r] = Free
    /\ req' = [req EXCEPT ![r] = [op |-> op, id |-> i, read |-> IF op = "update" THEN RuleByID(i) ELSE None]]
    /\ IF op = "create" THEN RuleByID(i) = None ELSE RuleByID(i) # None
    /\ UNCHANGED <<rules, alerts, recent, starts>>

Does(r, op) == req[r].op = op /\ Ends(r) /\ UNCHANGED <<alerts, recent, starts>>

CreateRule(r) == Does(r, "create") /\ InsertRule(req[r].id)

(* The row read, with the text of the request, is written whole. *)
UpdateRule(r) == Does(r, "update") /\ UpdateRow(req[r].id, [req[r].read EXCEPT !.text = "edited"])

DeleteRule(r) == Does(r, "delete") /\ DeleteRow(req[r].id)
EnableRule(r) == Does(r, "enable") /\ SetEnabled(req[r].id, TRUE)
DisableRule(r) == Does(r, "disable") /\ SetEnabled(req[r].id, FALSE)

(* The test of a rule evaluates nothing yet. *)
TestRule(r) == Does(r, "test") /\ UNCHANGED rules

BadRequest(r) == req[r].op \in {"update", "test"} /\ Does(r, req[r].op) /\ UNCHANGED rules

(* An import: one INSERT per rule, the failures counted and passed over. *)
BulkImportRules(r) ==
    \/ /\ starts > 0 /\ req[r] = Free
       /\ \E ids \in SUBSET Rules \ {{}} :
             req' = [req EXCEPT ![r] = [op |-> "import", id |-> None, read |-> ids]]
       /\ UNCHANGED <<rules, alerts, recent, starts>>
    \/ /\ req[r].op = "import"
       /\ \E i \in req[r].read :
             /\ InsertRule(i)
             /\ IF req[r].read = {i} THEN Ends(r) ELSE req' = [req EXCEPT ![r].read = @ \ {i}]
       /\ UNCHANGED <<alerts, recent, starts>>

-----------------------------------------------------------------------------
(* The alert repository. *)
AlertByID(a) == alerts[a]

UpdateStatus(a, status, notes) ==
    alerts' = [alerts EXCEPT ![a] = IF @ = None THEN None ELSE [@ EXCEPT !.status = status, !.notes = notes]]

BulkUpdateStatus(ids, status) ==
    alerts' = [a \in Alerts |-> IF a \in ids /\ alerts[a] # None
                                THEN [alerts[a] EXCEPT !.status = status] ELSE alerts[a]]

(* What is read of an alert only goes into the answer. *)
LooksAlert(r, op, a) ==
    /\ starts > 0
    /\ req[r] = Free
    /\ AlertByID(a) # None
    /\ req' = [req EXCEPT ![r] = [op |-> op, id |-> a, read |-> None]]
    /\ UNCHANGED <<rules, alerts, recent, starts>>

DoesAlert(r, op) == req[r].op = op /\ Ends(r) /\ UNCHANGED <<rules, recent, starts>>

(* An invalid status is refused. *)
UpdateAlertStatus(r) ==
    /\ DoesAlert(r, "status")
    /\ \/ \E s \in validStatuses, n \in BOOLEAN : UpdateStatus(req[r].id, s, n)
       \/ UNCHANGED alerts

(* The notes are written over with none. *)
AcknowledgeAlert(r) == DoesAlert(r, "acknowledge") /\ UpdateStatus(req[r].id, "acknowledged", FALSE)

DeleteAlert(r) == DoesAlert(r, "deleteAlert") /\ alerts' = [alerts EXCEPT ![req[r].id] = None]

(* One statement, with no look at the rows before. *)
BulkUpdateAlertStatus ==
    /\ starts > 0
    /\ \E ids \in SUBSET Alerts \ {{}}, s \in validStatuses : BulkUpdateStatus(ids, s)
    /\ UNCHANGED <<rules, req, recent, starts>>

(* The writer: a recent row of the same agent and rule, if there is one. *)
FindRecent(a) ==
    /\ starts > 0 /\ recent = None
    /\ alerts[a] # None /\ alerts[a].count < MaxCount
    /\ recent' = a
    /\ UNCHANGED <<rules, alerts, req, starts>>

IncrementEventCount ==
    /\ recent # None
    /\ alerts' = IF alerts[recent] = None THEN alerts ELSE [alerts EXCEPT ![recent].count = @ + 1]
    /\ recent' = None
    /\ UNCHANGED <<rules, req, starts>>

CreateAlert(a) ==
    /\ starts > 0 /\ recent = None
    /\ alerts = [b \in Alerts |-> None]
    /\ alerts' = [alerts EXCEPT ![a] = [status |-> "open", notes |-> FALSE, count |-> 1]]
    /\ UNCHANGED <<rules, req, recent, starts>>

Next ==
    \/ seedRulesToDB
    \/ \E r \in Requests :
          \/ \E op \in RuleOps, i \in Rules : Looks(r, op, i)
          \/ \E op \in AlertOps, a \in Alerts : LooksAlert(r, op, a)
          \/ CreateRule(r) \/ UpdateRule(r) \/ DeleteRule(r) \/ EnableRule(r) \/ DisableRule(r)
          \/ TestRule(r) \/ BadRequest(r) \/ BulkImportRules(r)
          \/ UpdateAlertStatus(r) \/ AcknowledgeAlert(r) \/ DeleteAlert(r)
    \/ BulkUpdateAlertStatus \/ IncrementEventCount
    \/ \E a \in Alerts : FindRecent(a) \/ CreateAlert(a)

Spec == Init /\ [][Next]_vars

-----------------------------------------------------------------------------
(***************************************************************************)
(* What an analyst has switched off stays off: a row goes from disabled to *)
(* enabled only by an EnableRule of its id, or by an UpdateRule that read  *)
(* the row before it was switched off.  No start of the engine, import or  *)
(* other update does it, in whatever order they run.                       *)
(***************************************************************************)
DisabledStays ==
    [][\A i \in Rules :
          rules[i] # None /\ rules'[i] # None /\ ~rules[i].enabled /\ rules'[i].enabled =>
             \E r \in Requests : /\ req[r].id = i
                                 /\ \/ req[r].op = "enable"
                                    \/ req[r].op = "update" /\ req[r].read.enabled]_vars

(* What an analyst has written stays, too.  It does not hold: the next start
   writes the file's text over it. *)
EditStays ==
    [][\A i \in Rules :
          rules[i] # None /\ rules'[i] # None /\ rules[i].text = "edited" => rules'[i].text = "edited"]_vars
=============================================================================
