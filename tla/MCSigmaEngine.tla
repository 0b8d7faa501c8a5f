---------------------------- MODULE MCSigmaEngine ---------------------------
(***************************************************************************)
(* The parts of the Sigma engine: reading a rule's file and its condition, *)
(* loading and indexing the rules, reading an event's fields, matching and *)
(* counting events, and the event loop.  They hand each other finished     *)
(* values only, so a behaviour is one of one part: part names the part     *)
(* that moves, the others rest in an initial state.                        *)
(***************************************************************************)
EXTENDS SigmaEventLoop
LOCAL INSTANCE TLC

CONSTANTS
    Files, Parsers, JobCap, RuleCap, ErrorCap,              \* SigmaRuleLoader
    Names, Prefixed, MaxWords, MaxLong,                     \* SigmaCondition
    MatchRules, Directories, MatchEvents, DataPaths, MatchFields, Direct, Chain, Fallback, Late,
    Whitelisted, MinConfidence, CacheSize, Null,            \* SigmaMatching
    RuleFiles, FileEvents, Whitelist, MinLevel, AllowedStatus, SkipExperimental, Bad, Addresses,
    Covers, Base64(_), InBase64, EnableFilters,              \* SigmaRuleFile
    IndexRules, MaxGiven, MaxOps,                           \* SigmaRuleIndex
    WindowSize, countThreshold, HighCount, MidCount, Confidence, MaxTime, MaxCounted,   \* SigmaEventCounter
    Raws, EventIDToCategory, LowerCase(_), Readers, ReadFields, MaxReads,               \* SigmaEventFields
    None

VARIABLES
    part,
    outcome, unscanned, jobs, jobsOpen, parser, ruleChan, errorChan, open, collector, rules, errors,
    cancelled,
    condition,
    loaded, cache, last,
    file, rule, stage, event, verdict,
    given, allRules, index, categoryIndex, productIndex, total, perProduct, perCategory, removed, ops,
    time, group, history, enriched,
    raw, made, fieldCache, reader, answers, reads

-----------------------------------------------------------------------------
E == INSTANCE SigmaEventFields WITH Fold <- LowerCase, Fields <- ReadFields, event <- made, cache <- fieldCache
L == INSTANCE SigmaRuleLoader
C == INSTANCE SigmaCondition
M == INSTANCE SigmaMatching WITH Rules <- MatchRules, Events <- MatchEvents, Paths <- DataPaths, Fields <- MatchFields
R == INSTANCE SigmaRuleFile WITH Files <- RuleFiles, Events <- FileEvents
X == INSTANCE SigmaRuleIndex WITH Rules <- IndexRules, rules <- given
N == INSTANCE SigmaEventCounter WITH MaxEvents <- MaxCounted

ASSUME LoaderAssumption ==
    {JobCap, RuleCap, ErrorCap} \subseteq Nat /\ Parsers # {} /\ {L!NoFile, L!Ended} \cap Files = {}

ASSUME CounterAssumption == WindowSize \in Nat /\ MaxTime \in Nat \ {0} /\ MaxCounted \in Nat

(* Rules are finite, an agent's event has a key of its own, and the least
   confidence is above nought, as the engine sees to. *)
ASSUME MatchingAssumption ==
    /\ CacheSize \in Nat /\ MinConfidence \in Nat \ {0}
    /\ IsFiniteSet(MatchRules) /\ Directories \subseteq SUBSET MatchRules
    /\ \A r \in MatchRules : IsFiniteSet(r.selections) /\ \A sel \in r.selections : IsFiniteSet(sel.fields)
    /\ \A d, e \in MatchEvents : e.agent /\ d.key = e.key => d = e

(* The name of a selection is no word of the grammar. *)
ASSUME ConditionAssumption ==
    /\ MaxWords \in Nat /\ MaxLong \in Nat /\ MaxWords <= MaxLong
    /\ Names \cap (C!Keyword \cup {"sel*", "absent", "(", ")", "1", "2", "other", "end"}) = {}

(* What does not compile covers nothing; values have their types, and None
   is no rule. *)
ASSUME FileAssumption ==
    /\ \A c \in Covers : c[1] \notin Bad
    /\ \A e \in FileEvents : \A n \in DOMAIN e : e[n] # None /\ e[n].t # "arr" => R!Scalar(e[n])
    /\ \A f \in RuleFiles : f.detection # None =>
           /\ R!toSigmaRule(f) # None
           /\ IsFiniteSet(f.detection.selections)
           /\ \A s \in f.detection.selections :
                  /\ s.data.kind = "map" => IsFiniteSet(s.data.fields) /\
                         \A d \in s.data.fields : R!WellFormed(d) /\ \A e \in FileEvents : d.name \in DOMAIN e
                  /\ s.data.kind = "list" => \A i \in s.data.items : i.t = "str" => R!Scalar(i)

ASSUME IndexAssumption == MaxGiven \in Nat

ASSUME FieldsAssumption == MaxReads \in Nat

lVars == <<outcome, unscanned, jobs, jobsOpen, parser, ruleChan, errorChan, open, collector, rules,
           errors, cancelled>>
mVars == <<loaded, cache, last>>
rVars == <<file, rule, stage, event, verdict>>
xVars == <<given, allRules, index, categoryIndex, productIndex, total, perProduct, perCategory, removed, ops>>
nVars == <<time, group, history, enriched>>
eVars == <<raw, made, fieldCache, reader, answers, reads>>
engineVars == <<part, vars, lVars, condition, mVars, rVars, xVars, nVars, eVars>>

(* A part that rests does so in one of its initial states. *)
EngineInit ==
    /\ part \in {"loop", "loader", "condition", "matching", "file", "index", "counter", "fields"}
    /\ Init /\ C!Init
    /\ L!Init /\ (part # "loader" => outcome = [f \in Files |-> "rule"])
    /\ M!Init /\ (part # "matching" => loaded = CHOOSE d \in Directories : TRUE)
    /\ R!Init /\ (part # "file" => file = CHOOSE f \in RuleFiles : TRUE)
    /\ X!Init /\ N!Init
    /\ E!Init /\ (part # "fields" => raw = CHOOSE r \in Raws : TRUE)

Moves(name, A) == part = name /\ A /\ UNCHANGED part

EngineNext ==
    \/ Moves("loop", Next) /\ UNCHANGED <<lVars, condition, mVars, rVars, xVars, nVars, eVars>>
    \/ Moves("loader", L!Next) /\ UNCHANGED <<vars, condition, mVars, rVars, xVars, nVars, eVars>>
    \/ Moves("condition", C!Next) /\ UNCHANGED <<vars, lVars, mVars, rVars, xVars, nVars, eVars>>
    \/ Moves("matching", M!Next) /\ UNCHANGED <<vars, lVars, condition, rVars, xVars, nVars, eVars>>
    \/ Moves("file", R!Next) /\ UNCHANGED <<vars, lVars, condition, mVars, xVars, nVars, eVars>>
    \/ Moves("index", X!Next) /\ UNCHANGED <<vars, lVars, condition, mVars, rVars, nVars, eVars>>
    \/ Moves("counter", N!Next) /\ UNCHANGED <<vars, lVars, condition, mVars, rVars, xVars, eVars>>
    \/ Moves("fields", E!Next) /\ UNCHANGED <<vars, lVars, condition, mVars, rVars, xVars, nVars>>

InLoop == part = "loop"
InLoader == part = "loader"

(* The fairness of SigmaEventLoop and of SigmaRuleLoader, where they move. *)
EngineFairness ==
    /\ WF_vars(InLoop /\ SendEvent) /\ WF_vars(InLoop /\ ConsumerEnds)
    /\ \A w \in Workers : WF_vars(InLoop /\ WorkerStep(w))
    /\ WF_vars(InLoop /\ PublisherStep) /\ WF_vars(InLoop /\ ProducerStep)
    /\ WF_vars(InLoop /\ ProducerEnds) /\ WF_vars(InLoop /\ WriterEnds) /\ WF_vars(InLoop /\ StopStep)
    /\ WF_lVars(InLoader /\ L!ScanStep) /\ WF_lVars(InLoader /\ L!CloseResults)
    /\ WF_lVars(InLoader /\ L!CollectStep)
    /\ \A p \in Parsers : WF_lVars(InLoader /\ L!ParserStep(p))

EngineSpec == EngineInit /\ [][EngineNext]_engineVars /\ EngineFairness

(* SigmaEventLoop: an alert is raised once in its window, and its row is
   the recent one; SigmaEventCounter: its statistics are those of the events. *)
AlertsCountOnce ==
    /\ part = "loop" => OneAlertPerWindow /\ OneRecentRow
    /\ part = "counter" => N!StatisticsTrue

(* SigmaEventLoop and SigmaRuleLoader: Stop comes to its end once it has begun,
   wherever the stages were, as no stage waits for one that Stop has already
   ended; and loading ends with every file in its place.  Only the part that
   moves can stop or load. *)
StopAndLoadEnd ==
    (stop = "consumer" \/ InLoader) ~> (stop = "done" \/ (InLoader /\ L!Accounted))

TypesHold ==
    /\ part = "loop" => TypeOK
    /\ part = "loader" => L!TypeOK
    /\ part = "condition" => C!TypeOK
    /\ part = "matching" => M!TypeOK
    /\ part = "file" => R!TypeOK
    /\ part = "index" => X!TypeOK
    /\ part = "counter" => N!TypeOK
    /\ part = "fields" => E!TypeOK

(* SigmaCondition: a condition holds when its grammar says so; SigmaRuleFile:
   nothing a file describes is missed; SigmaRuleIndex: the index holds the
   rules; and every part's state has its type. *)
RulesAreKept ==
    /\ TypesHold
    /\ part = "condition" => C!ParseAgrees
    /\ part = "file" => R!NothingMissed
    /\ part = "index" => X!IndexAgrees

(* SigmaMatching: rules see the event's own values, and there is an alert
   exactly when a rule matches, as severe as the rule; SigmaEventFields: a
   field of an event has one value. *)
MatchesAreTrue ==
    /\ part = "matching" => M!OwnValues /\ M!AlertCoversMatches
    /\ part = "fields" => E!OneAnswer
-----------------------------------------------------------------------------
(* The values that the run gives the constants.                            *)

(* Seven rules and seven events.  Two of the events come from no agent and *)
(* share the key of their minute; one has an empty command line, one a     *)
(* null for its image, and one two names for its user.                     *)

Field(name, mods, values) == [name |-> name, mods |-> mods, values |-> values]
Sel(name, filter, field) == [name |-> name, filter |-> filter, fields |-> {field}]
Rule(id, category, level, sels, holds) ==
    [id |-> id, product |-> "windows", category |-> category, service |-> None, level |-> level,
     selections |-> sels, holds |-> holds]

image == Sel("image", FALSE, Field("Image", {"endswith"}, {<<"a">>}))
command == Sel("command", FALSE, Field("CommandLine", {"contains", "all"}, {<<"a">>, <<"b">>}))
exact == Sel("exact", FALSE, Field("Image", {}, {<<"a">>}))
user == Sel("user", FALSE, Field("username", {}, {<<"a">>}))
filter == Sel("filter", TRUE, Field("ParentImage", {"startswith"}, {<<"b">>}))

MCRules == {
    Rule(1, "process", "high", {image}, {{"image"}}),
    Rule(2, "process", "critical", {image, filter}, {{"image"}, {"image", "filter"}}),
    Rule(3, "process", "High", {exact}, {{"exact"}}),
    Rule(4, "process", "medium", {image, command}, {{"image"}, {"command"}, {"image", "command"}}),
    Rule(5, "process", "medium", {exact}, {{"exact"}}),
    Rule(6, None, "critical", {command, filter}, {{"command"}, {"command", "filter"}}),
    Rule(7, "logon", "low", {user}, {{"user"}})}

Having(ids) == {r \in MCRules : r.id \in ids}
MCDirectories == {MCRules, Having({1, 6}), Having({3, 4, 5, 6}), {}}

MCDirect == {"Image", "User", "SubjectUserName"}
MCPaths == MCDirect \cup {"data.executable", "data.name", "data.command_line", "data.parent_executable"}
MCFields == {"Image", "CommandLine", "ParentImage", "User", "username"}

MCChain == [f \in MCFields |->
    CASE f = "Image" -> <<"Image", "data.executable">>
      [] f = "CommandLine" -> <<"data.command_line">>
      [] f = "ParentImage" -> <<"data.parent_executable">>
      [] f = "User" -> <<"User">>
      [] OTHER -> <<>>]
MCFallback == [f \in MCFields |->
    CASE f = "Image" -> <<"data.executable", "data.name">>
      [] f = "CommandLine" -> <<"data.command_line", "data.executable", "data.name">>
      [] f = "ParentImage" -> <<"data.parent_executable">>
      [] OTHER -> <<>>]
MCLate == [f \in MCFields |-> IF f = "username" THEN {<<"User">>, <<"SubjectUserName">>} ELSE {}]
MCWhitelisted == [images |-> {<<"b">>}, users |-> {<<"b">>}, parents |-> {<<"b", "b">>}]

Event(key, agent, category, values) ==
    [product |-> "windows", category |-> category, key |-> key, agent |-> agent,
     data |-> [p \in MCPaths |-> IF p \in DOMAIN values THEN values[p] ELSE None]]

MCEvents == {
    Event(1, TRUE, "process", "data.executable" :> <<"b", "a">> @@ "data.command_line" :> <<"a", "b">>
                                  @@ "data.parent_executable" :> <<"a">>),
    Event(2, TRUE, "process", "data.name" :> <<"A">> @@ "data.command_line" :> <<>>),
    Event(3, TRUE, "network", "data.executable" :> <<"a">> @@ "data.parent_executable" :> <<"b", "a">>),
    Event(4, FALSE, "process", "Image" :> <<"a">> @@ "data.parent_executable" :> <<"a">>),
    Event(4, FALSE, "process", "Image" :> <<"a">> @@ "data.parent_executable" :> <<"b">>),
    Event(5, TRUE, "process", "Image" :> Null @@ "data.executable" :> <<"a">> @@ "User" :> <<"B">>),
    Event(6, TRUE, "logon", "User" :> <<"a">> @@ "SubjectUserName" :> <<"b">>)}

(* Rule files: one for each form of a selection, one for each choice of the *)
(* loader's filters, and ones that are refused.                            *)

Text(chars) == [t |-> "str", v |-> chars]
Number(n) == [t |-> "num", v |-> n]
Map(fields) == [kind |-> "map", fields |-> fields]
Is(name, mods, values) == Map({Field(name, mods, values)})
List(items) == [kind |-> "list", items |-> items]
Selection(name, data) == [name |-> name, filter |-> name = "filter", data |-> data]
Conditioned(names, holds) == [string |-> TRUE, empty |-> FALSE, names |-> names, holds |-> holds]
One(data) ==
    [condition |-> Conditioned({"sel"}, {{"sel"}}), selections |-> {Selection("sel", data)}]
Both(data1, data2) ==
    [condition |-> Conditioned({"sel", "two"}, {{"sel", "two"}, {"sel"}}),
     selections |-> {Selection("sel", data1), Selection("two", data2)}]
Filtered(data1, data2) ==
    [condition |-> Conditioned({"sel"}, {{"sel"}, {"sel", "filter"}}),
     selections |-> {Selection("sel", data1), Selection("filter", data2)}]
File(title, description, level, status, product, detection) ==
    [title |-> title, description |-> description, level |-> level, status |-> status,
     product |-> product, category |-> None, detection |-> detection]
Plain(detection) == File(9, TRUE, "", "", "windows", detection)

letterA == Text(<<"a">>)
Says(mods, texts) == Is("CommandLine", mods, {Text(t) : t \in texts})
MCDatas == {
    Says({}, {<<"a">>, <<"b">>}), Says({"contains", "all"}, {<<"a">>, <<"b">>}),
    Says({"startswith"}, {<<"a">>}), Says({"endswith"}, {<<"b">>}), Says({"all"}, {<<"a">>}),
    Says({"re"}, {<<"x">>, <<"a", "+">>}), Says({"Re"}, {<<"a", "+">>}), Says({}, {<<"a", "*">>}),
    Says({"windash"}, {<<"-", "a">>}), Says({"cidr"}, {<<"n">>, <<"x">>}),
    Says({"base64"}, {<<"a">>}), Says({"base64offset"}, {<<"a">>}),
    Is("count", {"lt"}, {Number(5)}), Is("count", {}, {Number(15), Number(0)}),
    Map({Field("count", {"gte"}, {Number(5)}), Field("CommandLine", {}, {letterA})}),
    List({letterA, Text(<<"b">>)}), List({Text(<<"a", "bs">>)}), List({Text(<<"<", "b">>)}),
    List({[t |-> "map", fields |-> {Field("CommandLine", {}, {letterA})}]})}
MCFiles ==
    {Plain(One(data)) : data \in MCDatas} \cup
    {File(9, TRUE, level, status, product, Both(Says({}, {<<"a">>}), Is("count", {"gt"}, {Number(1)}))) :
        level \in {"", "low", "High", "odd"}, status \in {"stable", "deprecated", "odd"},
        product \in {"windows", "linux", "odd", None}} \cup
    {File(4, TRUE, "", "", "windows", One(Map({}))), File(9, FALSE, "", "", "windows", One(Map({}))),
     File(9, TRUE, "critical", "", "windows", Filtered(Says({}, {<<"a">>}), Is("count", {"gt"}, {Number(1)}))),
     Plain(None), Plain([One(Map({})) EXCEPT !.condition = Conditioned({"other"}, {{"other"}})]),
     Plain(One([kind |-> "scalar"]))}

MCBad == {<<"x">>}
MCAddresses == {<<"i">>}
MCCovers == {<<<<"n">>, <<"i">>>>, <<<<"a", "+">>, <<"a">>>>, <<<<"a", "+">>, <<"a", "bs", "b">>>>,
             <<<<"a", "*">>, <<"a", "bs", "b">>>>}

(* The base64 of the text a, at the three offsets, and of ba, which has an a
   at the second. *)
MCBase64(s) ==
    CASE s = <<"a">> -> <<"Y", "Q", "=", "=">> [] s = <<" ", "a">> -> <<"I", "G", "E", "=">>
      [] OTHER -> <<"I", "C", "B", "h">>
MCInBase64 == {<<<<"a">>, <<"Y", "m", "E", "=">>>>}

Values(i, n) == [CommandLine |-> i, count |-> n]
MCValues == {Values(i, n) :
    i \in {letterA, Text(<<"A", "b">>), Text(<<"a", "bs", "b">>), Text(<<"/", "a">>), Text(<<"<", "b">>), Text(<<"i">>),
           Text(<<"Y", "m", "E", "=">>), Text(<<"Y", "Q", "=", "=">>), None},
    n \in {Number(15), Number(3), Number(0), Text(<<"1", "5">>), None}}

(* Rules for the index: two with one key, one for a product, one for all. *)
Indexed(id, product, category) ==
    [id |-> id, product |-> product, category |-> category, service |-> None, level |-> "high", tags |-> {}]
MCIndexRules == {Indexed(1, "windows", "process"), Indexed(2, "windows", "process"),
                 Indexed(3, "windows", None), Indexed(4, None, None)}

(* Raw events, three of them with a key in two spellings. *)
MCLowerCase(word) ==
    CASE word \in {"Event", "EVENT"} -> "event" [] word \in {"Process", "PROCESS"} -> "process" [] OTHER -> word
MCEventIDToCategory == [n \in {3, 4104} |-> IF n = 3 THEN "network_connection" ELSE "powershell"]
MCReadFields == {<<"event", "code">>, <<"process", "executable">>, <<"process", "user">>,
                 <<"process", "command_line">>, <<"registry", "path">>}

Object(key, value) == [kind |-> "map", of |-> [k \in {key} |-> value]]
Object2(key1, value1, key2, value2) ==
    [kind |-> "map", of |-> [k \in {key1, key2} |-> IF k = key1 THEN value1 ELSE value2]]
Saying(words) == [kind |-> "text", words |-> words, exact |-> Cardinality(words) = 1]
Id(n) == [kind |-> "number", is |-> n]

MCRaws == {
    Object(<<"event_type">>, Saying({"dns"})),
    Object2(<<"event">>, Object(<<"action">>, Saying({"exec"})), <<"Event">>, Object(<<"action">>, Saying({"dns"}))),
    Object2(<<"Event">>, Object2(<<"code">>, Id(4104), <<"created">>, [kind |-> "time"]),
            <<"EVENT">>, Object(<<"code">>, Id(3))),
    Object2(<<"Process">>, Object2(<<"executable">>, Saying({}), <<"user">>, Saying({})),
            <<"PROCESS">>, Object2(<<"executable">>, Saying({"linux"}), <<"command_line">>, Saying({}))),
    Object2(<<"event", "module">>, Saying({"linux", "process"}),
            <<"registry">>, Object(<<"path">>, [kind |-> "nil"]))}

=============================================================================
