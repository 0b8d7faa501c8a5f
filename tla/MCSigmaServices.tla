--------------------------- MODULE MCSigmaServices --------------------------
(***************************************************************************)
(* The parts of the Sigma engine around its detection: the rows its API    *)
(* writes, the file mode, the alert stream, automation, integrations, the  *)
(* parallel processor, the analyst's workbench and the start of the two    *)
(* programs.  They share no state the models tell apart, so a behaviour is *)
(* one of one part: part names the part that moves, the others rest in an  *)
(* initial state.                                                          *)
(***************************************************************************)
EXTENDS SigmaApi, Integers, Sequences

CONSTANTS
    Clients, StreamAlerts, Filters, SendCap, BroadcastCap, Ping,
    ChanCap, Long, MaxGen, MaxSize, MaxHalts,
    Ids, Webhooks, DefaultRetries, DefaultTimeout, HookAlerts, BatchSize,
    MaxDeliveries, MaxSends, MaxFlushes, MaxCreates, MaxHookEdits, MaxKept,
    Playbooks, Escalations, RunAlerts, Configs, Contained, Statuses, MaxRuns, MaxTracks, MaxMinute, MaxEdits,
    Callers, Workers, Kind, Events, Signatures, ChannelBuffers, OutBuffer, Window, MaxNow,
    Calls, BenchIds, CustomRules, RuleAlerts, Has, Profiles, UserAlerts, DayHours, Weekend,
    Correlated, Hour, FiveMinutes, Types, Samples, MaxTick, MaxShown, MaxBenchEdits,
    Programs, Settings, Cores, Torn, MaxRuleEdits

VARIABLES
    part,
    file, size, running, tracked, reader, eventChan, checkpoint, halts, emitted, torn,
    conn, clients, send, closed, broadcast, filters, incoming, socket, writer, hub, subject, todo, pinged,
    playbooks, runs, executions, config, logs, escalations, objects, states, history, checker, minute, edits,
    webhooks, deliveries, sent, enabled, buffer, sends, flushes, splunk, eventsSent, splunkState,
    serviceState, creators, mappings, incidents, made, hookEdits,
    events, resultChan, open, cancelled, worker, sender, caller, done, out, deduplicator, now, sighted,
    written, shutdown, crashed,
    customRules, metrics, calls, ruleLog, saved, profiles, userAlerts, hour, alertCache, relationships,
    returned, arrived, cases, tick, baselines, scores, benchEdits,
    pc, cfg, ruleSets, parts, settings, dir, inodes, tmp, cache, writes, old, boots

(* None is no row, no id and no name; the bounds leave room for what is
   first written. *)
ASSUME ApiAssumption ==
    /\ None \notin RuleRow /\ None \notin AlertRow /\ None \notin Alerts
    /\ None \notin RuleOps /\ None \notin AlertOps /\ None # "import"
    /\ MaxVersion \in Nat \ {0} /\ MaxCount \in Nat \ {0} /\ MaxStarts \in Nat

ASSUME StreamAssumption == SendCap \in Nat /\ BroadcastCap \in Nat

ASSUME ProcessorAssumption ==
    /\ ChannelBuffers \in Nat /\ Window \in Nat /\ MaxNow \in Nat
    /\ None \notin Signatures /\ None \notin Nat
    /\ DOMAIN Events = Callers
    /\ \A c \in Callers : Events[c] \in Seq([sig : Signatures \cup {None}, nil : BOOLEAN])

ASSUME IntegrationAssumption ==
    /\ IsFiniteSet(Ids) /\ DefaultRetries \in Nat
    /\ MaxKept \in Nat /\ MaxSends \in Nat /\ MaxFlushes \in Nat /\ MaxCreates \in Nat
    /\ \A w \in Webhooks : /\ DOMAIN w = {"enabled", "severities", "rules", "retries", "timeout"}
                            /\ w.retries \in Int

ASSUME AutomationAssumption ==
    /\ IsFiniteSet(Calls) /\ MaxRuns \in Nat /\ MaxTracks \in Nat
    /\ \A p \in Playbooks : p.steps \in Seq({p.steps[k] : k \in DOMAIN p.steps})
    /\ \A r \in Escalations : r.levels \in Seq([level : Int, after : Int])

(* An alert's id is its own; a quiet period is from an hour of the day to an
   hour of the day. *)
ASSUME WorkbenchAssumption ==
    /\ MaxShown \in Nat /\ Hour \in Nat /\ DayHours \in Nat \ {0}
    /\ None \notin [id : BenchIds, version : Nat, rule : CustomRules]
    /\ None \notin [total : Nat, matches : Nat, since : Nat]
    /\ \A a, b \in Correlated : a.Timestamp \in Nat /\ (a.id = b.id => a = b)
    /\ \A p \in Profiles :
          /\ DOMAIN p = {"user", "min", "watch", "exclude", "quiet"}
          /\ p.quiet # None => p.quiet.from \in 0 .. DayHours - 1 /\ p.quiet.to \in 0 .. DayHours - 1

ASSUME FileAssumption ==
    /\ ChanCap \in Nat /\ MaxGen \in Nat \ {0} /\ MaxSize \in Nat /\ MaxSize >= 2 /\ MaxHalts \in Nat
    /\ None \notin [Offset : 0 .. MaxSize, Inode : {"its", "old", "0"}] /\ None \notin 1 .. MaxGen

(* The products and qualities that a fingerprint may name. *)
Chosen == Settings \ {None}
Products == {f.products : f \in Chosen} \cup {{"windows"}}
Qualities == {f.quality : f \in Chosen} \cup {"medium"}
ASSUME StartAssumption ==
    /\ Programs \subseteq {"kafka", "live"} /\ Cores \in Nat \ {0} /\ MaxRuleEdits \in Nat
    /\ None \notin Products \X Qualities
    /\ \A f \in Chosen : f.workers \in Int /\ f.cacheSize \in Int /\ f.loaders \in Int

-----------------------------------------------------------------------------
(* Inputs of the parts. *)

Alert(id, rule) == [id |-> id, severity |-> "high", rule |-> rule]

Step(type, continue) ==
    [type |-> type, continue |-> continue, condition |-> None, url |-> FALSE, to |-> FALSE]
OnlyLow(step) ==
    [step EXCEPT !.condition = [field |-> "alert.severity", operator |-> "equals", value |-> "low"]]
MCPlaybooks == {
    [enabled |-> TRUE, severities |-> {"high"}, rules |-> {},
     steps |-> <<Step("notify_slack", TRUE), Step("wait", FALSE)>>],
    [enabled |-> TRUE, severities |-> {}, rules |-> {1},
     steps |-> <<OnlyLow(Step("notify_email", FALSE)), Step("resolve", FALSE), Step("create_ticket", TRUE)>>]}

Levels(low, high) == <<[level |-> low, after |-> 0], [level |-> high, after |-> 1]>>
MCEscalations == {
    [enabled |-> TRUE, severities |-> {}, status |-> None, levels |-> Levels(1, 2)],
    [enabled |-> TRUE, severities |-> {"high"}, status |-> "open", levels |-> Levels(2, 3)]}

Condition(field, operator, value) == [field |-> field, operator |-> operator, value |-> value]
Custom(logic, conditions) == [enabled |-> TRUE, groups |-> {[logic |-> logic, conditions |-> conditions]}]
MCCustomRules == {
    Custom("and", {Condition("severity", "equals", "high"), Condition("image", "not_contains", "a")}),
    Custom("or", {Condition("severity", "gt", "low"), Condition("image", "exists", "")})}
MCRuleAlerts == {
    [id |-> 1, fields |-> [severity |-> "high"]],
    [id |-> 2, fields |-> [severity |-> "low", image |-> "a"]]}

Quiet(from, to, weekends, buffered) ==
    [enabled |-> TRUE, from |-> from, to |-> to, weekends |-> weekends, buffer |-> buffered]
MCProfiles == {
    [user |-> 1, min |-> "medium", watch |-> {"*"}, exclude |-> {"2"}, quiet |-> q] :
    q \in {Quiet(1, 3, FALSE, TRUE), Quiet(3, 1, FALSE, FALSE), Quiet(1, 2, TRUE, FALSE),
           Quiet(2, 2, FALSE, FALSE), None}}
MCUserAlerts == {
    Alert(1, "1"), [id |-> 2, severity |-> "informational", rule |-> "1"],
    [id |-> 3, severity |-> "medium", rule |-> "2"]}
MCCorrelated == {
    [id |-> 1, rule |-> "1", Timestamp |-> 0], [id |-> 2, rule |-> "1", Timestamp |-> 2],
    [id |-> 3, rule |-> "2", Timestamp |-> 0]}

(* Settings that are left to the defaults, and ones that are not. *)
Setting(w, c, products, quality, level) ==
    [workers |-> w, cacheSize |-> c, loaders |-> 0, products |-> products, quality |-> quality,
     level |-> level, critical |-> FALSE]
MCSettings == {Setting(0, 0, None, None, None), Setting(2, 5, {"windows", "linux"}, "low", "warn")}

(* One client may subscribe, the other takes every alert. *)
Client == CHOOSE f \in [{1, 2} -> Clients] : f[1] # f[2]
MCStreamAlerts == {[severity |-> 1, rule |-> 1, agent |-> 1]}
MCFilters == [c \in Clients |->
    IF c = Client[1] THEN {[severity |-> {2}, rule |-> None, agent |-> None]} ELSE {}]

(* One caller sends a batch of two events, the other streams one. *)
Raises == [sig |-> 1, nil |-> FALSE]
MCKind == <<"batch", "stream">>
MCEvents == <<<<Raises, Raises>>, <<Raises>>>>

MCWebhooks == {
    [enabled |-> TRUE, severities |-> {"high"}, rules |-> {1}, retries |-> n, timeout |-> 0] : n \in {-1, 0}}
MCRunAlerts == {Alert(1, 1)}
MCConfigs == {[slack |-> TRUE, teams |-> FALSE, smtp |-> TRUE, recipients |-> TRUE]}
MCHas == {<<"a", "a">>}
MCSamples == {[names |-> {"a"}, size |-> 10], [names |-> {}, size |-> 200]}

-----------------------------------------------------------------------------
F == INSTANCE SigmaFileMode
W == INSTANCE SigmaAlertStream WITH Alerts <- StreamAlerts, reader <- socket
A == INSTANCE SigmaAutomation WITH
         Ids <- Calls, Rules <- Escalations, Alerts <- RunAlerts, MaxNow <- MaxMinute,
         rules <- escalations, now <- minute
I == INSTANCE SigmaIntegrations WITH
         Alerts <- HookAlerts, MaxEdits <- MaxHookEdits, logs <- sent, edits <- hookEdits
P == INSTANCE SigmaProcessor WITH
         BatchSize <- OutBuffer, eventChan <- events, alerts <- deduplicator
B == INSTANCE SigmaWorkbench WITH
         Ids <- BenchIds, MaxNow <- MaxTick, MaxKept <- MaxShown, MaxEdits <- MaxBenchEdits,
         rules <- customRules, executions <- ruleLog, clock <- hour, incidents <- cases, now <- tick,
         edits <- benchEdits
T == INSTANCE SigmaStart WITH
         MaxEdits <- MaxRuleEdits, rules <- ruleSets, file <- settings, starts <- boots

fVars == <<file, size, running, tracked, reader, eventChan, checkpoint, halts, emitted, torn>>
wVars == <<conn, clients, send, closed, broadcast, filters, incoming, socket, writer, hub, subject, todo, pinged>>
aVars == <<playbooks, runs, executions, config, logs, escalations, objects, states, history, checker, minute, edits>>
iVars == <<webhooks, deliveries, sent, enabled, buffer, sends, flushes, splunk, eventsSent, splunkState,
           serviceState, creators, mappings, incidents, made, hookEdits>>
pVars == <<events, resultChan, open, cancelled, worker, sender, caller, done, out, deduplicator, now, sighted,
           written, shutdown, crashed>>
bVars == <<customRules, metrics, calls, ruleLog, saved, profiles, userAlerts, hour, alertCache, relationships,
           returned, arrived, cases, tick, baselines, scores, benchEdits>>
tVars == <<pc, cfg, ruleSets, parts, settings, dir, inodes, tmp, cache, writes, old, boots>>
servicesVars == <<part, vars, fVars, wVars, aVars, iVars, pVars, bVars, tVars>>

ServicesInit ==
    /\ part \in {"api", "files", "stream", "automation", "webhooks", "splunk", "serviceNow", "processor",
                 "custom", "profiles", "correlation", "baselines", "start"}
    /\ Init /\ F!Init /\ W!Init /\ A!Init /\ P!Init
    /\ I!Init /\ (part # "splunk" => enabled)
    /\ B!Init /\ hour = [hour |-> 0, day |-> 5]
    /\ T!Init /\ (part # "start" => settings = Setting(0, 0, None, None, None))

Moves(name, Action) == part = name /\ Action /\ UNCHANGED part

ServicesNext ==
    \/ Moves("api", Next) /\ UNCHANGED <<fVars, wVars, aVars, iVars, pVars, bVars, tVars>>
    \/ Moves("files", F!Next) /\ UNCHANGED <<vars, wVars, aVars, iVars, pVars, bVars, tVars>>
    \/ Moves("stream", W!Next) /\ UNCHANGED <<vars, fVars, aVars, iVars, pVars, bVars, tVars>>
    \/ Moves("automation", A!Next) /\ UNCHANGED <<vars, fVars, wVars, iVars, pVars, bVars, tVars>>
    \/ Moves("webhooks", I!HookNext) /\ UNCHANGED <<vars, fVars, wVars, aVars, pVars, bVars, tVars>>
    \/ Moves("splunk", I!SplunkNext) /\ UNCHANGED <<vars, fVars, wVars, aVars, pVars, bVars, tVars>>
    \/ Moves("serviceNow", I!ServiceNext) /\ UNCHANGED <<vars, fVars, wVars, aVars, pVars, bVars, tVars>>
    \/ Moves("processor", P!Next) /\ UNCHANGED <<vars, fVars, wVars, aVars, iVars, bVars, tVars>>
    \/ Moves("custom", B!CustomNext) /\ UNCHANGED <<vars, fVars, wVars, aVars, iVars, pVars, tVars>>
    \/ Moves("profiles", B!ProfileNext) /\ UNCHANGED <<vars, fVars, wVars, aVars, iVars, pVars, tVars>>
    \/ Moves("correlation", B!CorrelationNext) /\ UNCHANGED <<vars, fVars, wVars, aVars, iVars, pVars, tVars>>
    \/ Moves("baselines", B!BaselineNext) /\ UNCHANGED <<vars, fVars, wVars, aVars, iVars, pVars, tVars>>
    \/ Moves("start", T!Next) /\ UNCHANGED <<vars, fVars, wVars, aVars, iVars, pVars, bVars>>

InFiles == part = "files"
InStream == part = "stream"
InProcessor == part = "processor" /\ ~crashed

(* The fairness of SigmaFileMode, SigmaAlertStream and SigmaProcessor, where
   they move. *)
ServicesFairness ==
    /\ WF_fVars(InFiles /\ F!ReaderStep) /\ WF_fVars(InFiles /\ F!processEvents) /\ WF_fVars(InFiles /\ F!Start)
    /\ WF_wVars(InStream /\ W!HubStep) /\ WF_wVars(InStream /\ W!PingStep)
    /\ \A c \in Clients :
        /\ SF_wVars(InStream /\ W!Unregister(c)) /\ WF_wVars(InStream /\ W!ReaderStep(c))
        /\ WF_wVars(InStream /\ W!WriterEnds(c))
    /\ \A c \in Callers :
        WF_pVars(InProcessor /\ (P!SenderStep(c) \/ P!ReaderStep(c) \/ P!TakeOut(c)))
    /\ \A w \in Workers : WF_pVars(InProcessor /\ P!WorkerStep(w))

ServicesSpec == ServicesInit /\ [][ServicesNext]_servicesVars /\ ServicesFairness

(* A line that is too long, and after it one that is written in two halves;
   one of the next file. *)
MCLong == {<<1, 1>>}
Line == <<<<1, 2>>, <<2, 1>>>>

(* Who waits in the part that moves, and when the wait is over. *)
Waiting(n) ==
    \/ part = "files" /\ F!Holds(Line[n])
    \/ part = "stream" /\ W!Gone(Client[n])
    \/ part = "processor" /\ caller[n].at # "idle"
Served(n) ==
    \/ part = "files" /\ F!Settled(Line[n])
    \/ part = "stream" /\ W!Released(Client[n])
    \/ part = "processor" /\ (P!Returned(n) \/ P!Disturbed(n))


(* SigmaAlertStream: nothing is sent on a closed channel; SigmaProcessor: an
   alert is written once in its window. *)
StreamsKeepApart ==
    /\ part = "stream" => W!NoSendOnClosed
    /\ part = "processor" => P!WrittenApart

TypesHold ==
    /\ part = "api" => TypeOK
    /\ part = "files" => F!TypeOK
    /\ part = "stream" => W!TypeOK
    /\ part = "automation" => A!TypeOK
    /\ part \in {"webhooks", "splunk", "serviceNow"} => I!TypeOK
    /\ part = "processor" => P!TypeOK
    /\ part \in {"custom", "profiles", "correlation", "baselines"} => B!TypeOK
    /\ part = "start" => T!TypeOK

(* SigmaIntegrations: an event is in one flush, a webhook is tried as often
   as it asked; SigmaAutomation: a run works on the playbook it began with,
   and an alert's escalation level only rises. *)
HandledAsAsked ==
    /\ part \in {"webhooks", "splunk"} => I!SentOnce /\ I!DeliveryKeepsPolicy
    /\ part = "automation" => A!RunsAsBegun /\ A!EscalationRises

(* SigmaWorkbench: rule metrics count the whole log, alerts of a rule within
   the hour are related, and quiet hours are the ones asked for. *)
WorkbenchTrue ==
    part \in {"custom", "profiles", "correlation"} => B!MetricsTrue /\ B!RelatedWithinHour /\ B!QuietIsQuiet

(* SigmaStart: the live program runs on the rules of its settings, and every
   pool has a positive size; and every part's state has its type. *)
StartsAsConfigured ==
    /\ part = "start" => T!LiveHasItsRules /\ T!SizesArePositive
    /\ TypesHold
=============================================================================
