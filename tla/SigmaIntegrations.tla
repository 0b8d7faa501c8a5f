-------------------------- MODULE SigmaIntegrations -------------------------
(***************************************************************************)
(* The integrations of the Sigma engine, which its handlers expose and no  *)
(* program starts yet: webhooks, delivered with retries by a goroutine per *)
(* alert and webhook; Splunk, fed from a buffer that several goroutines    *)
(* may flush at a time; and ServiceNow, with one incident per alert.  A    *)
(* request may be lost, refused, or taken with its answer lost.            *)
(***************************************************************************)
EXTENDS Integers, Sequences, SequencesExt, FiniteSets

CONSTANTS
    Ids,           \* of webhooks
    Webhooks,      \* [enabled, severities, rules, retries, timeout]
    DefaultRetries, DefaultTimeout,   \* 5 and 10
    Alerts,        \* [id, severity, rule]
    BatchSize,
    None,
    MaxDeliveries, MaxSends, MaxFlushes, MaxCreates, MaxKept, MaxEdits

VARIABLES
    webhooks,      \* id -> webhook or None
    deliveries,    \* goroutines: [hook, alert, attempts, status, taken]
    logs,          \* numbers of the deliveries in the log
    enabled,       \* SplunkIntegration.config.Enabled
    buffer, sends, \* events to flush, numbered as they are accepted
    flushes,       \* flush goroutines: [events, pc]
    splunk,        \* events Splunk has taken, in the order of their coming
    eventsSent,
    splunkState, serviceState,   \* "unknown", "connected", "error"
    creators,      \* calls of CreateIncident: [alert, pc, incident]
    mappings,      \* alert -> [incident, status] or None
    incidents,     \* ServiceNow's table: [alert, state]
    made,          \* the counter of incidents
    edits

vars == <<webhooks, deliveries, logs, enabled, buffer, sends, flushes, splunk, eventsSent, splunkState,
          serviceState, creators, mappings, incidents, made, edits>>
hookVars == <<webhooks, deliveries, logs>>
splunkVars == <<enabled, buffer, sends, flushes, splunk, eventsSent, splunkState>>
serviceVars == <<creators, mappings, incidents, made, serviceState>>

AlertIds == {a.id : a \in Alerts}

TypeOK ==
    /\ \A i \in Ids : webhooks[i] = None \/ webhooks[i].retries \in Int
    /\ Len(logs) <= MaxKept
    /\ sends \in 0 .. MaxSends /\ Len(flushes) <= MaxFlushes /\ eventsSent \in Nat
    /\ splunkState \in {"unknown", "connected", "error"} /\ serviceState \in {"unknown", "connected", "error"}
    /\ Len(creators) <= MaxCreates /\ made \in Nat

Init ==
    /\ webhooks = [i \in Ids |-> None] /\ deliveries = <<>> /\ logs = <<>>
    /\ enabled \in BOOLEAN /\ buffer = <<>> /\ sends = 0 /\ flushes = <<>> /\ splunk = <<>> /\ eventsSent = 0
    /\ splunkState = "unknown" /\ serviceState = "unknown"
    /\ creators = <<>> /\ mappings = [a \in AlertIds |-> None] /\ incidents = <<>> /\ made = 0
    /\ edits = 0

Edit == edits < MaxEdits /\ edits' = edits + 1

-----------------------------------------------------------------------------
(* WebhookManager. *)

(* A webhook that asks for no retries gets the default policy when it is
   created; an update keeps what it is given. *)
DefaultRetryPolicy(w) == IF w.retries = 0 THEN [w EXCEPT !.retries = DefaultRetries, !.timeout = DefaultTimeout] ELSE w

CreateWebhook(i, w) ==
    /\ Edit
    /\ webhooks' = [webhooks EXCEPT ![i] = DefaultRetryPolicy(w)]
    /\ UNCHANGED <<deliveries, logs, splunkVars, serviceVars>>

UpdateWebhook(i, w) ==
    /\ Edit /\ webhooks[i] # None
    /\ webhooks' = [webhooks EXCEPT ![i] = w]
    /\ UNCHANGED <<deliveries, logs, splunkVars, serviceVars>>

DeleteWebhook(i) ==
    /\ Edit /\ webhooks[i] # None
    /\ webhooks' = [webhooks EXCEPT ![i] = None]
    /\ UNCHANGED <<deliveries, logs, splunkVars, serviceVars>>

(* Agents and categories of a filter are not looked at. *)
matchesFilters(a, w) ==
    /\ w.severities = {} \/ a.severity \in w.severities
    /\ w.rules = {} \/ a.rule \in w.rules

Fitting(a) == {i \in Ids : webhooks[i] # None /\ webhooks[i].enabled /\ matchesFilters(a, webhooks[i])}

(* One goroutine for each webhook that fits, in the order of the map. *)
DeliverAlert(a) ==
    /\ \E fit \in SetToSeqs(Fitting(a)) :
           /\ fit # <<>> /\ Len(deliveries) + Len(fit) <= MaxDeliveries
           /\ deliveries' = deliveries \o [k \in DOMAIN fit |->
                  [hook |-> webhooks[fit[k]], alert |-> a.id, attempts |-> 0, status |-> "pending", taken |-> 0]]
    /\ UNCHANGED <<webhooks, logs, splunkVars, serviceVars, edits>>

(* The outcomes of a request, and whether the receiver took it: a timeout of
   zero has passed before the request is sent. *)
sendRequest(w) ==
    IF w.timeout = 0 THEN {<<"error", 0>>}
    ELSE {<<"2xx", 1>>, <<"4xx", 0>>, <<"429", 0>>, <<"5xx", 0>>, <<"error", 0>>, <<"error", 1>>}

saveLog(n) == SubSeq(Append(logs, n), (IF Len(logs) = MaxKept THEN 2 ELSE 1), Len(logs) + 1)

(* The bound of the loop; with retries below zero, which nothing refuses, it
   does not begin. *)
MayTry(d) == d.attempts <= d.hook.retries

Attempt(n) ==
    LET d == deliveries[n]
    IN /\ d.status = "pending" /\ MayTry(d)
       /\ \E o \in sendRequest(d.hook) :
              LET status == CASE o[1] = "2xx" -> "delivered"
                              [] o[1] = "4xx" -> "failed"
                              [] OTHER -> "pending"
              IN /\ deliveries' = [deliveries EXCEPT ![n].attempts = @ + 1, ![n].status = status,
                                                     ![n].taken = @ + o[2]]
                 /\ logs' = IF status = "pending" THEN logs ELSE saveLog(n)
       /\ UNCHANGED <<webhooks, splunkVars, serviceVars, edits>>

GiveUp(n) ==
    /\ deliveries[n].status = "pending" /\ ~MayTry(deliveries[n])
    /\ deliveries' = [deliveries EXCEPT ![n].status = "failed"]
    /\ logs' = saveLog(n)
    /\ UNCHANGED <<webhooks, splunkVars, serviceVars, edits>>

-----------------------------------------------------------------------------
(* SplunkIntegration. *)

ConfigureSplunk ==
    /\ Edit
    /\ enabled' \in BOOLEAN
    /\ UNCHANGED <<hookVars, buffer, sends, flushes, splunk, eventsSent, splunkState, serviceVars>>

(* The buffer is flushed in a goroutine when it is full or was last flushed
   too long ago. *)
SendAlert ==
    /\ enabled /\ sends < MaxSends
    /\ sends' = sends + 1
    /\ buffer' = Append(buffer, sends + 1)
    /\ \/ Len(buffer') < BatchSize /\ UNCHANGED flushes
       \/ Len(flushes) < MaxFlushes /\ flushes' = Append(flushes, [events |-> <<>>, pc |-> "begin"])
    /\ UNCHANGED <<hookVars, enabled, splunk, eventsSent, splunkState, serviceVars, edits>>

StartBackgroundFlush ==
    /\ Len(flushes) < MaxFlushes
    /\ flushes' = Append(flushes, [events |-> <<>>, pc |-> "begin"])
    /\ UNCHANGED <<hookVars, enabled, buffer, sends, splunk, eventsSent, splunkState, serviceVars, edits>>

(* Faulty variant: the buffer is emptied only after the request. *)
TakeBufferLater(n) ==
    /\ flushes[n].pc = "begin"
    /\ flushes' = [flushes EXCEPT ![n] = [events |-> buffer, pc |-> IF buffer = <<>> THEN "done" ELSE "send"]]
    /\ UNCHANGED buffer
TakeBuffer(n) ==
    /\ flushes[n].pc = "begin"
    /\ flushes' = [flushes EXCEPT ![n] = [events |-> buffer, pc |-> IF buffer = <<>> THEN "done" ELSE "send"]]
    /\ buffer' = <<>>

FlushBegins(n) ==
    /\ TakeBuffer(n)
    /\ UNCHANGED <<hookVars, enabled, sends, splunk, eventsSent, splunkState, serviceVars, edits>>

(* A flush that fails drops its events; one whose answer is lost counts them
   as not sent. *)
FlushEnds(n) ==
    /\ flushes[n].pc = "send"
    /\ flushes' = [flushes EXCEPT ![n].pc = "done"]
    /\ \/ /\ splunk' = splunk \o flushes[n].events
          /\ \/ eventsSent' = eventsSent + Len(flushes[n].events) /\ splunkState' = "connected"
             \/ UNCHANGED eventsSent /\ splunkState' = "error"
       \/ UNCHANGED <<splunk, eventsSent, splunkState>>
       \/ UNCHANGED <<splunk, eventsSent>> /\ splunkState' = "error"
    /\ UNCHANGED <<hookVars, enabled, buffer, sends, serviceVars, edits>>

TestSplunk ==
    /\ Edit
    /\ splunkState' \in {"connected", "error"}
    /\ UNCHANGED <<hookVars, enabled, buffer, sends, flushes, splunk, eventsSent, serviceVars>>

-----------------------------------------------------------------------------
(* ServiceNowIntegration, enabled. *)

TestServiceNow ==
    /\ Edit
    /\ serviceState' \in {"connected", "error"}
    /\ UNCHANGED <<hookVars, splunkVars, creators, mappings, incidents, made>>

(* The mapping is looked up, the incident is made without the lock, and the
   mapping is stored. *)
CreateIncident(a) ==
    /\ Len(creators) < MaxCreates /\ mappings[a] = None
    /\ creators' = Append(creators, [alert |-> a, pc |-> "post", incident |-> 0])
    /\ UNCHANGED <<hookVars, splunkVars, mappings, incidents, made, serviceState, edits>>

Post(n) ==
    /\ creators[n].pc = "post"
    /\ \/ /\ incidents' = Append(incidents, [alert |-> creators[n].alert, state |-> "new"])
          /\ \/ creators' = [creators EXCEPT ![n].pc = "store", ![n].incident = Len(incidents) + 1]
             \/ creators' = [creators EXCEPT ![n].pc = "done"]
       \/ creators' = [creators EXCEPT ![n].pc = "done"] /\ UNCHANGED incidents
    /\ UNCHANGED <<hookVars, splunkVars, mappings, made, serviceState, edits>>

StoreMapping(n) ==
    /\ creators[n].pc = "store"
    /\ mappings' = [mappings EXCEPT ![creators[n].alert] = [incident |-> creators[n].incident, status |-> "open"]]
    /\ made' = made + 1
    /\ creators' = [creators EXCEPT ![n].pc = "done"]
    /\ UNCHANGED <<hookVars, splunkVars, incidents, serviceState, edits>>

(* UpdateIncident: the state at ServiceNow, then the mapping's status. *)
UpdateIncident(a) ==
    /\ Edit /\ mappings[a] # None
    /\ \E state \in {"in progress", "resolved", "closed"} :
           /\ incidents' = [incidents EXCEPT ![mappings[a].incident].state = state]
           /\ mappings' = IF state \in {"resolved", "closed"} THEN [mappings EXCEPT ![a].status = "resolved"] ELSE mappings
    /\ UNCHANGED <<hookVars, splunkVars, creators, made, serviceState>>

-----------------------------------------------------------------------------
(* What the handlers ask for. *)
WebhookRequests == \E i \in Ids : (\E w \in Webhooks : CreateWebhook(i, w) \/ UpdateWebhook(i, w)) \/ DeleteWebhook(i)

HookNext ==
    \/ WebhookRequests
    \/ \E a \in Alerts : DeliverAlert(a)
    \/ \E n \in DOMAIN deliveries : Attempt(n) \/ GiveUp(n)

SplunkNext ==
    \/ ConfigureSplunk \/ SendAlert \/ StartBackgroundFlush \/ TestSplunk
    \/ \E n \in DOMAIN flushes : FlushBegins(n) \/ FlushEnds(n)

ServiceNext ==
    \/ \E a \in AlertIds : CreateIncident(a) \/ UpdateIncident(a)
    \/ \E n \in DOMAIN creators : Post(n) \/ StoreMapping(n)
    \/ TestServiceNow

Next == HookNext \/ SplunkNext \/ ServiceNext

Spec == Init /\ [][Next]_vars

-----------------------------------------------------------------------------
(***************************************************************************)
(* Splunk is given every event at most once and in the order of a flush,   *)
(* however many flushes run at a time, and events_sent never exceeds what  *)
(* Splunk has taken.                                                       *)
(***************************************************************************)
SentOnce ==
    /\ \A i, j \in DOMAIN splunk : i # j => splunk[i] # splunk[j]
    /\ eventsSent <= Len(splunk)

(***************************************************************************)
(* A delivery is tried no more often than the policy the webhook had when  *)
(* the alert came, is tried again only until it is delivered or refused,   *)
(* and is recorded as delivered only when the receiver has taken it.       *)
(***************************************************************************)
DeliveryKeepsPolicy ==
    \A n \in DOMAIN deliveries :
        LET d == deliveries[n]
        IN /\ d.attempts > 0 => d.attempts <= d.hook.retries + 1
           /\ d.status = "delivered" => d.taken >= 1

(* An alert has one incident.  It does not hold: two calls for one alert may
   both find no mapping, and a call whose answer is lost is made again. *)
OneIncident == \A i, j \in DOMAIN incidents : i # j => incidents[i].alert # incidents[j].alert

(* A webhook that is enabled can be delivered to.  It does not hold: an
   update without a retry policy leaves a timeout of zero. *)
Deliverable == \A i \in Ids : webhooks[i] # None /\ webhooks[i].enabled => <<"2xx", 1>> \in sendRequest(webhooks[i])
=============================================================================
