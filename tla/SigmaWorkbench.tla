--------------------------- MODULE SigmaWorkbench ---------------------------
(***************************************************************************)
(* What AdvancedHandler serves: custom rules and their metrics, user       *)
(* profiles, correlation and incidents, behaviour baselines.  Each manager *)
(* has a lock of its own and knows nothing of the others, so each is a     *)
(* machine of its own.  No program constructs the handler yet.             *)
(***************************************************************************)
EXTENDS Integers, Sequences, SequencesExt, FiniteSets

CONSTANTS
    Ids, None,
    CustomRules,    \* [enabled, groups]; a group is [logic, conditions], a condition [field, operator, value]
    RuleAlerts,     \* what EvaluateAlert is given: [id, fields]
    Has,            \* pairs <<text, value>>: the text contains, or matches, the value
    Calls,          \* concurrent calls of EvaluateAlert
    Profiles,       \* [user, min, watch, exclude, quiet]; quiet is None or [enabled, from, to, weekends, buffer]
    UserAlerts,     \* what may be delivered: [id, severity, rule]
    DayHours, Weekend,  \* 24; the days 0 .. 6 that are the weekend
    Correlated,     \* alerts for CorrelateAlert: [id, rule, Timestamp]
    Hour, FiveMinutes,  \* in ticks
    Types, Samples, \* baseline types; learning calls: [names, size], a set of names and a number of events
    MaxNow, MaxKept, MaxEdits

VARIABLES
    rules, metrics, calls, executions, saved,       \* custom rules; saved is the whole log (observation)
    profiles, userAlerts, clock,                    \* profiles; clock is [hour, day]
    alertCache, relationships, returned, arrived, incidents, now,   \* correlation; two are observations
    baselines, scores,
    edits

customVars == <<rules, metrics, calls, executions, saved>>
profileVars == <<profiles, userAlerts, clock>>
correlationVars == <<alertCache, relationships, returned, arrived, incidents, now>>
baselineVars == <<baselines, scores>>
vars == <<customVars, profileVars, correlationVars, baselineVars, edits>>

Nobody == [todo |-> {}, alert |-> None]

Init ==
    /\ rules = [i \in Ids |-> None] /\ metrics = [i \in Ids |-> None]
    /\ calls = [c \in Calls |-> Nobody] /\ executions = <<>> /\ saved = <<>>
    /\ profiles = [i \in Ids |-> None] /\ userAlerts = <<>> /\ clock \in [hour : 0 .. DayHours - 1, day : 0 .. 6]
    /\ alertCache = {} /\ relationships = <<>> /\ returned = {} /\ arrived = {}
    /\ incidents = [i \in Ids |-> None] /\ now = 0
    /\ baselines = [i \in Ids \X Types |-> None] /\ scores = <<>> /\ edits = 0

TypeOK ==
    /\ \A i \in Ids : (rules[i] = None) = (metrics[i] = None)
    /\ Len(executions) <= MaxKept /\ Len(userAlerts) <= MaxKept
    /\ Len(relationships) <= MaxKept /\ Len(scores) <= MaxKept

Kept(q) == SubSeq(q, (IF Len(q) > MaxKept THEN Len(q) - MaxKept ELSE 0) + 1, Len(q))
Edit == edits < MaxEdits /\ edits' = edits + 1

-----------------------------------------------------------------------------
(* CustomRuleManager.                                                      *)

NewMetrics == [total |-> 0, matches |-> 0, since |-> Len(saved)]

CreateRule(i, r) ==
    /\ Edit
    /\ rules' = [rules EXCEPT ![i] = [id |-> i, version |-> 1, rule |-> r]]
    /\ metrics' = [metrics EXCEPT ![i] = NewMetrics]
    /\ UNCHANGED <<calls, executions, saved>>

(* Faulty variant: made anew, with its metrics. *)
UpdateRuleAnew(i, r) ==
    /\ Edit /\ rules[i] # None
    /\ rules' = [rules EXCEPT ![i] = [id |-> i, version |-> @.version + 1, rule |-> r]]
    /\ metrics' = [metrics EXCEPT ![i].total = 0, ![i].matches = 0]
    /\ UNCHANGED <<calls, executions, saved>>

(* A new object: a call that holds the old one goes on with it. *)
UpdateRule(i, r) ==
    /\ Edit /\ rules[i] # None
    /\ rules' = [rules EXCEPT ![i] = [id |-> i, version |-> @.version + 1, rule |-> r]]
    /\ UNCHANGED <<metrics, calls, executions, saved>>

DeleteRule(i) ==
    /\ Edit /\ rules[i] # None
    /\ rules' = [rules EXCEPT ![i] = None] /\ metrics' = [metrics EXCEPT ![i] = None]
    /\ UNCHANGED <<calls, executions, saved>>

(* A field an alert does not have reads as the empty string. *)
getFieldValue(f, a) == IF f \in DOMAIN a.fields THEN a.fields[f] ELSE ""

(* gt, lt and not_in are declared and fall to the default. *)
evaluateCondition(c, a) ==
    LET v == getFieldValue(c.field, a)
    IN  CASE c.operator = "equals" -> v = c.value
          [] c.operator = "not_equals" -> v # c.value
          [] c.operator \in {"contains", "matches"} -> <<v, c.value>> \in Has
          [] c.operator = "not_contains" -> <<v, c.value>> \notin Has
          [] c.operator = "exists" -> v # ""
          [] c.operator = "not_exists" -> v = ""
          [] c.operator = "in" -> v \in c.value
          [] OTHER -> FALSE

evaluateConditionGroup(g, a) ==
    /\ g.conditions # {}
    /\ IF g.logic = "or" THEN \E c \in g.conditions : evaluateCondition(c, a)
       ELSE \A c \in g.conditions : evaluateCondition(c, a)

(* One group is enough; TestRule asks the same of a made-up alert. *)
evaluateRule(r, a) == \E g \in r.groups : evaluateConditionGroup(g, a)

Enabled == {rules[i] : i \in {j \in Ids : rules[j] # None /\ rules[j].rule.enabled}}

(* EvaluateAlert copies the enabled rules under the read lock, returns if
   there are none ... *)
EvaluateAlert(c, a) ==
    /\ calls[c] = Nobody
    /\ Len(saved) < MaxKept + 1
    /\ calls' = [calls EXCEPT ![c] = IF Enabled = {} THEN Nobody ELSE [todo |-> Enabled, alert |-> a]]
    /\ UNCHANGED <<rules, metrics, executions, saved, edits>>

(* ... and evaluates each, saving the execution under the lock. *)
saveExecution(c, r) ==
    LET exec == [rule |-> r.id, matched |-> evaluateRule(r.rule, calls[c].alert)]
    IN  /\ r \in calls[c].todo
        /\ calls' = [calls EXCEPT ![c] = IF @.todo = {r} THEN Nobody
                                          ELSE [todo |-> @.todo \ {r}, alert |-> @.alert]]
        /\ executions' = Kept(Append(executions, exec)) /\ saved' = Append(saved, exec)
        /\ metrics' = IF metrics[r.id] = None THEN metrics
                      ELSE [metrics EXCEPT ![r.id].total = @ + 1, ![r.id].matches = @ + IF exec.matched THEN 1 ELSE 0]
        /\ UNCHANGED <<rules, edits>>

CustomRuleRequests ==
    \E i \in Ids : DeleteRule(i) \/ \E r \in CustomRules : CreateRule(i, r) \/ UpdateRule(i, r)

CustomNext ==
    /\ \/ CustomRuleRequests
       \/ \E c \in Calls : \/ \E a \in RuleAlerts : EvaluateAlert(c, a)
                           \/ \E r \in calls[c].todo : saveExecution(c, r)
    /\ UNCHANGED <<profileVars, correlationVars, baselineVars>>

-----------------------------------------------------------------------------
(* ProfileManager.                                                         *)

SetProfile(i, p) == profiles' = [profiles EXCEPT ![i] = p] /\ UNCHANGED <<userAlerts, clock>>

CreateProfile(i, p) == Edit /\ SetProfile(i, p)

(* The user stays the one it was created for. *)
UpdateProfile(i, p) == Edit /\ profiles[i] # None /\ SetProfile(i, [p EXCEPT !.user = profiles[i].user])

DeleteProfile(i) == Edit /\ profiles[i] # None /\ SetProfile(i, None)

(* A name that is none of the four counts as 0. *)
meetsSeverityThreshold(min, s) ==
    LET order(n) == CASE n = "critical" -> 4 [] n = "high" -> 3 [] n = "medium" -> 2 [] n = "low" -> 1 [] OTHER -> 0
    IN  order(s) >= order(min)

(* Faulty variant: only the hours of one day. *)
isQuietHoursOneDay(q) ==
    \/ q.weekends /\ clock.day \in Weekend
    \/ clock.hour >= q.from /\ clock.hour < q.to

(* Overnight when it does not end after it begins. *)
isQuietHours(q) ==
    \/ q.weekends /\ clock.day \in Weekend
    \/ IF q.from < q.to THEN clock.hour >= q.from /\ clock.hour < q.to
       ELSE clock.hour >= q.from \/ clock.hour < q.to

ShouldDeliverAlert(p, a) ==
    /\ meetsSeverityThreshold(p.min, a.severity)
    /\ p.watch = {} \/ a.rule \in p.watch \/ "*" \in p.watch
    /\ a.rule \notin p.exclude
    /\ ~(p.quiet # None /\ p.quiet.enabled /\ isQuietHours(p.quiet) /\ ~p.quiet.buffer)

(* RecordUserAlert writes down what it is given: whether to deliver is asked
   of ShouldDeliverAlert, and no program does both yet. *)
RecordUserAlert(i, a) ==
    /\ Edit
    /\ userAlerts' = Kept(Append(userAlerts, [profile |-> i, alert |-> a.id]))
    /\ UNCHANGED <<profiles, clock>>

HourPasses ==
    /\ clock' = [hour |-> (clock.hour + 1) % DayHours,
                 day |-> IF clock.hour + 1 = DayHours THEN (clock.day + 1) % 7 ELSE clock.day]
    /\ UNCHANGED <<profiles, userAlerts, edits>>

ProfileRequests ==
    \E i \in Ids : DeleteProfile(i) \/ \E p \in Profiles : CreateProfile(i, p) \/ UpdateProfile(i, p)

ProfileNext ==
    /\ ProfileRequests \/ HourPasses \/ \E i \in Ids, a \in UserAlerts : RecordUserAlert(i, a)
    /\ UNCHANGED <<customVars, correlationVars, baselineVars>>

-----------------------------------------------------------------------------
(* CorrelationManager.                                                     *)

(* Faulty variant: the boundary goes too. *)
RecentStrictly(a) == a.Timestamp > now - Hour

(* Not Before an hour ago. *)
Recent(a) == a.Timestamp >= now - Hour

Relations(a, b) ==
    {t \in {"same_rule", "time_based"} :
        \/ t = "same_rule" /\ b.rule = a.rule
        \/ t = "time_based" /\ a.Timestamp - b.Timestamp < FiveMinutes /\ b.Timestamp - a.Timestamp < FiveMinutes}

(* The alert is cached first, compared with all others, and then the old
   ones go - itself too, if it came late. *)
CorrelateAlert(a) ==
    LET others == {b \in alertCache : b.id # a.id}
        found == UNION {{[of |-> b.id, to |-> a.id, type |-> t] : t \in Relations(a, b)} : b \in others}
    IN  /\ a.Timestamp <= now
        /\ alertCache' = {b \in others \cup {a} : Recent(b)}
        /\ relationships' = Kept(relationships \o SetToSeq(found))
        /\ returned' = returned \cup found /\ arrived' = arrived \cup {[alert |-> a, at |-> now]}
        /\ Edit /\ UNCHANGED <<incidents, now>>

CreateIncident(i, ids) ==
    /\ Edit /\ incidents[i] = None
    /\ incidents' = [incidents EXCEPT ![i] = [alerts |-> ids, status |-> "open", notes |-> 0, closed |-> FALSE]]
    /\ UNCHANGED <<alertCache, relationships, returned, arrived, now>>

(* Any status is taken; ClosedAt stays once it is set. *)
UpdateIncident(i, s) ==
    /\ Edit /\ incidents[i] # None
    /\ incidents' = [incidents EXCEPT ![i].status = s, ![i].closed = @ \/ s = "resolved"]
    /\ UNCHANGED <<alertCache, relationships, returned, arrived, now>>

AddNote(i) ==
    /\ Edit /\ incidents[i] # None
    /\ incidents' = [incidents EXCEPT ![i].notes = @ + 1]
    /\ UNCHANGED <<alertCache, relationships, returned, arrived, now>>

Tick ==
    /\ now < MaxNow /\ now' = now + 1
    /\ UNCHANGED <<alertCache, relationships, returned, arrived, incidents, edits>>

IncidentRequests ==
    \E i \in Ids : \/ CreateIncident(i, {a.id : a \in alertCache}) \/ AddNote(i)
                   \/ \E s \in {"open", "resolved"} : UpdateIncident(i, s)

CorrelationNext ==
    /\ IncidentRequests \/ Tick \/ \E a \in Correlated : CorrelateAlert(a)
    /\ UNCHANGED <<customVars, profileVars, baselineVars>>

-----------------------------------------------------------------------------
(* BaselineManager.                                                        *)

(* In hundredths. *)
calculateConfidence(n) ==
    CASE n < 10 -> 30 [] n >= 10 /\ n < 50 -> 50 [] n >= 50 /\ n < 200 -> 70
      [] n >= 200 /\ n < 1000 -> 85 [] OTHER -> 95

(* What is learned: process names or addresses; a user's one pattern is the
   table of hours; other types learn nothing.  The patterns are those of
   this call, while LearnedFrom goes on counting. *)
Learned(type, s, old) ==
    CASE type \in {"process", "network"} -> s.names
      [] type = "user" -> {"login_hours"}
      [] OTHER -> old

LearnBaseline(i, type, s) ==
    LET old == IF baselines[<<i, type>>] = None THEN [patterns |-> {}, from |-> 0] ELSE baselines[<<i, type>>]
    IN  /\ Edit
        /\ baselines' = [baselines EXCEPT ![<<i, type>>] =
               [patterns |-> Learned(type, s, old.patterns), from |-> old.from + s.size]]
        /\ UNCHANGED scores

(* In tenths: 1 when the process is in the baseline (its pattern's own
   confidence never exceeds 0.8), 3 when it is not. *)
calculateDeviation(name, b) == IF name = "" THEN 0 ELSE IF name \in b.patterns THEN 10 ELSE 30

(* The baseline asked for is that of the empty agent.  A score without one
   is returned and not stored. *)
CalculateAnomalyScore(agent, name) ==
    LET b == baselines[<<agent, "process">>]
        raw == 5000 + calculateDeviation(name, b) * 167
    IN  /\ Edit /\ b # None
        /\ scores' = Kept(Append(scores,
               [score |-> IF raw > 10000 THEN 10000 ELSE raw, confidence |-> calculateConfidence(b.from)]))
        /\ UNCHANGED baselines

BaselineNext ==
    /\ \E i \in Ids : \/ \E t \in Types, s \in Samples : LearnBaseline(i, t, s)
                      \/ i = "" /\ \E n \in {"", "a"} : CalculateAnomalyScore(i, n)
    /\ UNCHANGED <<customVars, profileVars, correlationVars>>

Next == CustomNext \/ ProfileNext \/ CorrelationNext \/ BaselineNext

Spec == Init /\ [][Next]_vars

-----------------------------------------------------------------------------
(***************************************************************************)
(* The metrics of a custom rule count the executions saved since the rule  *)
(* was created, also those of calls that began before an edit, and not     *)
(* one twice, however calls and edits interleave.                          *)
(***************************************************************************)
MetricsTrue ==
    \A i \in Ids : metrics[i] # None =>
        LET own == {k \in metrics[i].since + 1 .. Len(saved) : saved[k].rule = i}
        IN  /\ metrics[i].total = Cardinality(own)
            /\ metrics[i].matches = Cardinality({k \in own : saved[k].matched})

(***************************************************************************)
(* Two alerts of one rule are related when the second comes at most an     *)
(* hour after the first was raised, whatever is correlated between them.   *)
(***************************************************************************)
RelatedWithinHour ==
    \A x, y \in arrived :
        /\ x.at < y.at /\ x.alert.id # y.alert.id /\ x.alert.rule = y.alert.rule
        /\ y.at - x.alert.Timestamp <= Hour
        => [of |-> x.alert.id, to |-> y.alert.id, type |-> "same_rule"] \in returned

(* The quiet period walked from its first hour round the clock. *)
InPeriod(q, hour) ==
    \E n \in 0 .. DayHours - 1 :
        /\ hour = (q.from + n) % DayHours
        /\ \A m \in 1 .. n : (q.from + m) % DayHours # q.to

(* The profile's quiet period, or a weekend it keeps quiet, is on. *)
IsQuiet(q) ==
    q # None /\ q.enabled /\ (InPeriod(q, clock.hour) \/ (q.weekends /\ clock.day \in Weekend))

(***************************************************************************)
(* While a profile's quiet period is on nothing is to be delivered to it,  *)
(* unless it buffers; at any other time the period makes no difference:    *)
(* at every hour of the week, over midnight and for a period that ends     *)
(* when it begins, whenever the profile was edited.                        *)
(***************************************************************************)
QuietIsQuiet ==
    \A i \in Ids : profiles[i] # None =>
        LET p == profiles[i]
        IN  \A a \in UserAlerts :
                IF IsQuiet(p.quiet) /\ ~p.quiet.buffer THEN ~ShouldDeliverAlert(p, a)
                ELSE ShouldDeliverAlert(p, a) <=> ShouldDeliverAlert([p EXCEPT !.quiet = None], a)

(***************************************************************************)
(* Not so: QuietHours.BufferAlerts is to "queue and send after quiet       *)
(* hours" (profile.go:61); such an alert is to be delivered at once.       *)
(***************************************************************************)
BufferedIsHeld ==
    \A i \in Ids : profiles[i] # None /\ IsQuiet(profiles[i].quiet) =>
        \A a \in UserAlerts : ~ShouldDeliverAlert(profiles[i], a)

(***************************************************************************)
(* Not so: a score rests on the events its confidence counts: each call    *)
(* of LearnBaseline drops what the earlier ones learned.                   *)
(***************************************************************************)
NothingForgotten ==
    [][\A b \in DOMAIN baselines : baselines[b] # None => baselines[b].patterns \subseteq baselines'[b].patterns]_vars
=============================================================================
