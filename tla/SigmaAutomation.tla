--------------------------- MODULE SigmaAutomation --------------------------
(***************************************************************************)
(* The automation of the Sigma engine, which its handlers expose and no    *)
(* program starts yet: playbooks run in a goroutine per alert, their       *)
(* notifications, and the escalation of alerts that stay open.  The        *)
(* managers replace a playbook or a rule by a new one and never change it, *)
(* so a goroutine keeps the one it began with; the state of a tracked      *)
(* alert is shared with the goroutine that checks the escalations.         *)
(***************************************************************************)
EXTENDS Naturals, Sequences, SequencesExt, FiniteSets

CONSTANTS
    Ids,            \* of playbooks and of escalation rules
    Playbooks,      \* [enabled, severities, rules, steps]; a step is [type, continue, condition, url, to]
    Rules,          \* [enabled, severities, status, levels]; a level is [level, after]
    Alerts,         \* [id, severity, rule]
    Configs,        \* [slack, teams, smtp, recipients] : BOOLEAN each
    Contained,      \* pairs <<value, text>>: the text contains the value
    Statuses,       \* what an analyst sets
    None,
    MaxRuns, MaxTracks, MaxNow, MaxKept, MaxEdits

VARIABLES
    playbooks,      \* id -> playbook or None
    runs,           \* [playbook, alert, steps, begun, results, status, ended] of each goroutine
    executions,     \* numbers of the runs that are saved
    config, logs,   \* of the NotificationManager
    rules,          \* id -> escalation rule or None
    objects,        \* AlertStates: [alert, severity, status, created, escalated]
    states,         \* alert -> its AlertState, or 0
    history,        \* [state, level]
    checker,        \* [work, now, state, rest] while CheckEscalations runs, or None
    now, edits

vars == <<playbooks, runs, executions, config, logs, rules, objects, states, history, checker, now, edits>>
playbookVars == <<playbooks, runs, executions, config, logs>>
escalationVars == <<rules, objects, states, history, checker>>

TypeOK ==
    /\ playbooks \in [Ids -> Playbooks \cup {None}] /\ rules \in [Ids -> Rules \cup {None}]
    /\ Len(executions) <= MaxKept /\ Len(logs) <= MaxKept /\ Len(history) <= MaxKept
    /\ states \in [{a.id : a \in Alerts} -> 0 .. MaxTracks]

Init ==
    /\ playbooks = [i \in Ids |-> None] /\ rules = [i \in Ids |-> None]
    /\ runs = <<>> /\ executions = <<>>
    /\ config \in Configs /\ logs = <<>>
    /\ objects = <<>> /\ states = [i \in {a.id : a \in Alerts} |-> 0]
    /\ history = <<>> /\ checker = None /\ now = 0 /\ edits = 0

(* The last MaxKept of a log. *)
Kept(q) == SubSeq(q, (IF Len(q) > MaxKept THEN Len(q) - MaxKept ELSE 0) + 1, Len(q))

Edit == edits < MaxEdits /\ edits' = edits + 1

-----------------------------------------------------------------------------
(* PlaybookManager. *)

CreatePlaybook(i, p) ==
    /\ Edit
    /\ playbooks' = [playbooks EXCEPT ![i] = p]
    /\ UNCHANGED <<runs, executions, config, logs, escalationVars, now>>

(* Faulty variant: the steps are changed under the runs that use them. *)
UpdatePlaybookInPlace(i, p) ==
    /\ Edit /\ playbooks[i] # None
    /\ playbooks' = [playbooks EXCEPT ![i] = p]
    /\ runs' = [n \in DOMAIN runs |-> IF runs[n].playbook = i THEN [runs[n] EXCEPT !.steps = p.steps] ELSE runs[n]]
    /\ UNCHANGED <<executions, config, logs, escalationVars, now>>

UpdatePlaybook(i, p) ==
    /\ Edit /\ playbooks[i] # None
    /\ playbooks' = [playbooks EXCEPT ![i] = p]
    /\ UNCHANGED <<runs, executions, config, logs, escalationVars, now>>

DeletePlaybook(i) ==
    /\ Edit /\ playbooks[i] # None
    /\ playbooks' = [playbooks EXCEPT ![i] = None]
    /\ UNCHANGED <<runs, executions, config, logs, escalationVars, now>>

(* Agents and categories of a trigger are not looked at. *)
matchesTrigger(alert, p) ==
    /\ p.severities = {} \/ alert.severity \in p.severities
    /\ p.rules = {} \/ alert.rule \in p.rules

(* One goroutine for each playbook that fits, in the order of the map. *)
Fitting(alert) == {i \in Ids : playbooks[i] # None /\ playbooks[i].enabled /\ matchesTrigger(alert, playbooks[i])}

ExecuteForAlert(alert) ==
    /\ \E fit \in SetToSeqs(Fitting(alert)) :
           /\ fit # <<>> /\ Len(runs) + Len(fit) <= MaxRuns
           /\ runs' = runs \o [k \in DOMAIN fit |->
                  [playbook |-> fit[k], alert |-> alert, steps |-> playbooks[fit[k]].steps,
                   begun |-> playbooks[fit[k]].steps, results |-> <<>>, status |-> "running", ended |-> FALSE]]
    /\ UNCHANGED <<playbooks, executions, config, logs, escalationVars, now, edits>>

evaluateCondition(c, alert) ==
    LET value == CASE c.field = "alert.severity" -> alert.severity
                   [] c.field = "alert.rule_id" -> alert.rule
                   [] OTHER -> None
    IN value # None /\ IF c.operator \in {"contains", "matches"} THEN <<c.value, value>> \in Contained
                       ELSE c.value = value

(* What may come of sending: nothing is sent unless there is an address. *)
SendSlack(s) == IF config.slack \/ s.url THEN {"sent", "failed"} ELSE {"unsent"}
SendTeams(s) == IF config.teams \/ s.url THEN {"sent", "failed"} ELSE {"unsent"}
SendEmail(s) == IF config.smtp /\ (config.recipients \/ s.to) THEN {"sent", "failed"} ELSE {"unsent"}
Sending(s) ==
    CASE s.type = "notify_slack" -> SendSlack(s)
      [] s.type = "notify_teams" -> SendTeams(s)
      [] s.type = "notify_email" -> SendEmail(s)

saveLog(type, outcome) == Kept(Append(logs, [type |-> type, status |-> outcome]))

Notifies(s) == s.type \in {"notify_slack", "notify_teams", "notify_email"}

(* The outcomes of a step, with what it writes to the log.  acknowledge and
   resolve only say so; other types are unknown; wait may meet the end of
   the run's five minutes. *)
executeStep(s, alert) ==
    IF s.condition # None /\ ~evaluateCondition(s.condition, alert) THEN {<<"skipped", logs>>} ELSE
    CASE Notifies(s) ->
            {<<IF o = "sent" THEN "success" ELSE "failed", IF o = "unsent" THEN logs ELSE saveLog(s.type, o)>> :
                o \in Sending(s)}
      [] s.type = "wait" -> {<<"success", logs>>, <<"failed", logs>>}
      [] s.type \in {"acknowledge", "resolve"} -> {<<"success", logs>>}
      [] OTHER -> {<<"failed", logs>>}

RunStep(n) ==
    LET r == runs[n]
        s == r.steps[Len(r.results) + 1]
    IN /\ r.status = "running" /\ Len(r.results) < Len(r.steps)
       /\ \E o \in executeStep(s, r.alert) :
              /\ runs' = [runs EXCEPT ![n].results = Append(@, o[1]),
                                      ![n].status = IF o[1] = "failed" /\ ~s.continue THEN "failed" ELSE @]
              /\ logs' = o[2]
       /\ UNCHANGED <<playbooks, executions, config, escalationVars, now, edits>>

(* The run ends: its status, and the execution is saved. *)
RunEnds(n) ==
    LET r == runs[n]
    IN /\ ~r.ended
       /\ r.status = "running" => Len(r.results) >= Len(r.steps)
       /\ runs' = [runs EXCEPT ![n].ended = TRUE, ![n].status =
              CASE r.status = "failed" -> "failed"
                [] r.status # "failed" /\ Range(r.results) \subseteq {"success"} -> "success"
                [] OTHER -> "partial"]
       /\ executions' = Kept(Append(executions, n))
       /\ UNCHANGED <<playbooks, config, logs, escalationVars, now, edits>>

Configure(c) ==
    /\ Edit
    /\ config' = c
    /\ UNCHANGED <<playbooks, runs, executions, logs, escalationVars, now>>

(* The handlers that send the test alert: no address of their own but a
   recipient for the mail. *)
SendTest(type) ==
    /\ Edit
    /\ \E o \in Sending([type |-> type, url |-> FALSE, to |-> TRUE]) :
           logs' = IF o = "unsent" THEN logs ELSE saveLog(type, o)
    /\ UNCHANGED <<playbooks, runs, executions, config, escalationVars, now>>

-----------------------------------------------------------------------------
(* EscalationManager. *)

PutRule(i, r) ==
    /\ Edit
    /\ rules' = [rules EXCEPT ![i] = r]
    /\ UNCHANGED <<playbookVars, objects, states, history, checker, now>>

DeleteRule(i) ==
    /\ Edit /\ rules[i] # None
    /\ rules' = [rules EXCEPT ![i] = None]
    /\ UNCHANGED <<playbookVars, objects, states, history, checker, now>>

(* An alert tracked again begins again, in an AlertState of its own. *)
TrackAlert(a) ==
    /\ Len(objects) < MaxTracks
    /\ objects' = Append(objects, [alert |-> a.id, severity |-> a.severity, status |-> "open",
                                   created |-> now, escalated |-> 0])
    /\ states' = [states EXCEPT ![a.id] = Len(objects) + 1]
    /\ UNCHANGED <<playbookVars, rules, history, checker, now, edits>>

UpdateAlertStatus(id, status) ==
    /\ Edit /\ states[id] # 0
    /\ objects' = [objects EXCEPT ![states[id]].status = status]
    /\ UNCHANGED <<playbookVars, rules, states, history, checker, now>>

Enabled == {r \in {rules[i] : i \in Ids} \ {None} : r.enabled}
Unresolved == {o \in {states[id] : id \in DOMAIN states} \ {0} : objects[o].status # "resolved"}

(* The rules and the states are listed under the lock, then visited; rest
   is what is left of the levels of the rule that is looked at. *)
CheckBegins ==
    /\ checker = None /\ Enabled # {} /\ Unresolved # {}
    /\ checker' = [work |-> Unresolved \X Enabled, now |-> now, state |-> 0, rest |-> <<>>]
    /\ UNCHANGED <<playbookVars, rules, objects, states, history, now, edits>>

(* Rule ids and categories of a trigger are not looked at. *)
matchesEscalation(o, r) ==
    /\ r.severities = {} \/ objects[o].severity \in r.severities
    /\ r.status \in {None, objects[o].status}

CheckVisits ==
    /\ checker # None /\ checker.rest = <<>>
    /\ \E w \in checker.work :
           checker' = [checker EXCEPT !.work = @ \ {w}, !.state = w[1],
                                      !.rest = IF matchesEscalation(w[1], w[2]) THEN w[2].levels ELSE <<>>]
    /\ UNCHANGED <<playbookVars, rules, objects, states, history, now, edits>>

(* Faulty variant: a level that was reached is reached again. *)
EscalatesAgain(to, level, elapsed) == elapsed >= level.after
Escalates(to, level, elapsed) == to < level.level /\ elapsed >= level.after

(* One level: the history and the level reached, under the lock. *)
triggerEscalation(o, level) ==
    /\ objects' = [objects EXCEPT ![o].escalated = level.level]
    /\ history' = Kept(Append(history, [state |-> o, level |-> level.level]))

CheckLevel ==
    /\ checker # None /\ checker.rest # <<>>
    /\ LET o == checker.state level == Head(checker.rest)
       IN IF Escalates(objects[o].escalated, level, checker.now - objects[o].created)
          THEN triggerEscalation(o, level) ELSE UNCHANGED <<objects, history>>
    /\ checker' = [checker EXCEPT !.rest = Tail(@)]
    /\ UNCHANGED <<playbookVars, rules, states, now, edits>>

CheckEnds ==
    /\ checker # None /\ checker.rest = <<>> /\ checker.work = {}
    /\ checker' = None
    /\ UNCHANGED <<playbookVars, rules, objects, states, history, now, edits>>

Tick ==
    /\ now < MaxNow
    /\ now' = now + 1
    /\ UNCHANGED <<playbookVars, escalationVars, edits>>

-----------------------------------------------------------------------------
(* What the handlers ask for. *)
PlaybookRequests == \E i \in Ids :
    (\E p \in Playbooks : CreatePlaybook(i, p) \/ UpdatePlaybook(i, p)) \/ DeletePlaybook(i)
EscalationRequests == \E i \in Ids : (\E r \in Rules : PutRule(i, r)) \/ DeleteRule(i)
NotificationRequests ==
    \/ \E c \in Configs : Configure(c)
    \/ \E type \in {"notify_slack", "notify_teams", "notify_email"} : SendTest(type)

Next ==
    \/ PlaybookRequests \/ EscalationRequests \/ NotificationRequests
    \/ \E a \in Alerts : ExecuteForAlert(a) \/ TrackAlert(a)
    \/ \E n \in DOMAIN runs : RunStep(n) \/ RunEnds(n)
    \/ \E a \in Alerts, s \in Statuses : UpdateAlertStatus(a.id, s)
    \/ CheckBegins \/ CheckVisits \/ CheckLevel \/ CheckEnds \/ Tick

Spec == Init /\ [][Next]_vars

-----------------------------------------------------------------------------
(***************************************************************************)
(* An execution is recorded as a success only if every step the playbook   *)
(* had when the alert came was carried out, each with success, and as      *)
(* failed only if its last step failed, whatever is edited, deleted or     *)
(* configured while it runs.                                               *)
(***************************************************************************)
RunsAsBegun ==
    \A n \in DOMAIN runs :
        LET r == runs[n]
        IN /\ r.status = "success" => r.results = [k \in DOMAIN r.begun |-> "success"]
           /\ r.status = "partial" => Len(r.results) = Len(r.begun)
           /\ r.status = "failed" => r.results[Len(r.results)] = "failed" /\ ~r.begun[Len(r.results)].continue

(***************************************************************************)
(* The escalations of a tracked alert rise: no level is reached twice and  *)
(* none after a higher one, over any number of checks, rules and changes   *)
(* of the rules.                                                           *)
(***************************************************************************)
EscalationRises ==
    \A i, j \in DOMAIN history :
        i < j /\ history[i].state = history[j].state => history[i].level < history[j].level

(* An alert that is resolved is not escalated.  It does not hold: the check
   lists the open alerts first and looks at the status again only for rules
   that ask for one. *)
ResolvedIsLeft ==
    [][history # history' =>
         objects[history'[Len(history')].state].status # "resolved"]_vars
=============================================================================
