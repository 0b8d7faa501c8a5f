-------------------------- MODULE SigmaEventFields --------------------------
(***************************************************************************)
(* domain.LogEvent: how an event of the Sigma engine is made from its raw  *)
(* data (NewLogEvent: event id, category, product, time) and how its       *)
(* fields are read (GetField with its cache, getNested).                   *)
(*                                                                         *)
(* A key or a path is the sequence of its parts: <<"event", "code">> is    *)
(* the path event.code, and also the key of that name at the top.  A value *)
(* is a map, the missing value Nil, a number, a time, or a text, of which  *)
(* the code's words that it contains are kept, and whether it is one of    *)
(* them.  Text is compared in lower case; Fold does the same for the parts *)
(* of keys.                                                                *)
(***************************************************************************)
EXTENDS Naturals, Sequences, SequencesExt, FiniteSets, FiniteSetsExt

CONSTANTS
    Raws,               \* the raw data of the events that arrive
    EventIDToCategory,  \* a function on event ids
    Fold(_),
    Readers,
    Fields,             \* the paths that are read
    MaxReads

VARIABLES
    raw, event,         \* the event under way, as NewLogEvent made it
    cache,              \* fieldCache
    reader,             \* per reader: nothing, or the path it missed
    answers,            \* history: what GetField answered
    reads

vars == <<raw, event, cache, reader, answers, reads>>

Nil == [kind |-> "nil"]
Idle == [at |-> "idle"]

-----------------------------------------------------------------------------
(* getNested: of several keys that differ in case, any may come first. *)

Under(value, part) ==
    IF value.kind # "map" THEN {Nil}
    ELSE IF <<part>> \in DOMAIN value.of THEN {value.of[<<part>>]}
    ELSE LET keys == {k \in DOMAIN value.of : Len(k) = 1 /\ Fold(k[1]) = Fold(part)}
         IN  IF keys = {} THEN {Nil} ELSE {value.of[k] : k \in keys}

getNested(data, path) ==
    IF Len(path) = 1 THEN {Nil}
    ELSE FoldLeft(LAMBDA values, part : UNION {Under(v, part) : v \in values}, {data}, path)

(* GetField without its cache. *)
Lookups(data, path) ==
    IF path \in DOMAIN data.of THEN {data.of[path]} ELSE getNested(data, path)

-----------------------------------------------------------------------------
(* NewLogEvent.  look is what the lookups of one event find.  A path is    *)
(* asked for at most once before it is cached, so look is a function.      *)

EventIDPaths == <<<<"event", "code">>, <<"EventID">>, <<"event_id">>, <<"winlog", "event_id">>,
                  <<"System", "EventID">>, <<"Event", "System", "EventID">>>>
ProductPaths == <<<<"source", "os_type">>, <<"agent", "type">>, <<"log", "type">>,
                  <<"winlog", "provider_name">>, <<"event", "module">>>>
TimePaths == <<<<"@timestamp">>, <<"timestamp">>, <<"event", "created">>, <<"event", "ingested">>,
               <<"EventTime">>, <<"UtcTime">>>>
ImagePaths == <<<<"Image">>, <<"process", "executable">>>>
LinePaths == <<<<"CommandLine">>, <<"process", "command_line">>>>

(* The pairs of fields tried last, and the category each stands for. *)
FieldPairs == <<
    [paths |-> <<<<"DestinationIp">>, <<"destination", "ip">>>>, category |-> "network_connection"],
    [paths |-> <<<<"TargetFilename">>, <<"file", "path">>>>, category |-> "file_event"],
    [paths |-> <<<<"TargetObject">>, <<"registry", "path">>>>, category |-> "registry_event"],
    [paths |-> <<<<"QueryName">>, <<"dns", "question", "name">>>>, category |-> "dns_query"]>>

Paths ==
    Fields \cup (UNION {Range(s) : s \in {EventIDPaths, ProductPaths, TimePaths, ImagePaths, LinePaths}})
           \cup (UNION {Range(FieldPairs[i].paths) : i \in DOMAIN FieldPairs})
           \cup {<<"event_type">>, <<"event", "action">>, <<"event", "category">>}

(* The index of the first path whose value will do, or of the last. *)
Stop(paths, look, Does(_)) ==
    Min({i \in DOMAIN paths : Does(look[paths[i]])} \cup {Len(paths)})

Asked(paths, look, Does(_)) == {paths[i] : i \in 1 .. Stop(paths, look, Does)}

There(value) == value # Nil
Has(paths, look) == \E i \in DOMAIN paths : There(look[paths[i]])

extractEventID(look) == look[EventIDPaths[Stop(EventIDPaths, look, There)]]

Words(value) == IF value.kind = "text" THEN value.words ELSE {}

(* A text that is one of the words, and none that contains one. *)
Exactly(value) == IF value.kind = "text" /\ value.exact THEN value.words ELSE {}

(* The first row one of whose words the text contains. *)
FirstOf(rows, words) ==
    LET hits == {i \in DOMAIN rows : rows[i].words \cap words # {}}
    IN  IF hits = {} THEN "unknown" ELSE rows[Min(hits)].category

Row(words, category) == [words |-> words, category |-> category]

typeCategory(value) == FirstOf(<<
    Row({"process"}, "process_creation"), Row({"network"}, "network_connection"),
    Row({"file", "clipboard"}, "file_event"), Row({"registry"}, "registry_event"), Row({"dns"}, "dns_query"),
    Row({"auth"}, "authentication"), Row({"driver"}, "driver_load"), Row({"image_load"}, "image_load"),
    Row({"pipe"}, "pipe_created"), Row({"wmi"}, "wmi_event")>>, Exactly(value))

InferCategoryFromEventID(id) ==
    IF id.kind = "number" /\ id.is \in DOMAIN EventIDToCategory THEN EventIDToCategory[id.is] ELSE "unknown"

actionCategory(value) == FirstOf(<<
    Row({"start", "create", "exec"}, "process_creation"), Row({"connect", "network"}, "network_connection"),
    Row({"file", "write", "read"}, "file_event"), Row({"dns", "query"}, "dns_query"),
    Row({"registry"}, "registry_event"), Row({"logon", "auth", "login"}, "authentication")>>, Words(value))

textCategory(value) == FirstOf(<<
    Row({"process"}, "process_creation"), Row({"network"}, "network_connection"), Row({"file"}, "file_event"),
    Row({"registry"}, "registry_event"), Row({"authentication"}, "authentication")>>, Words(value))

(* The tests of inferCategory in their order: what each asks for and says. *)
Tests(look) ==
    <<[asks |-> {<<"event_type">>}, says |-> typeCategory(look[<<"event_type">>])],
      [asks |-> {}, says |-> InferCategoryFromEventID(extractEventID(look))],
      [asks |-> {<<"event", "action">>}, says |-> actionCategory(look[<<"event", "action">>])],
      [asks |-> {<<"event", "category">>}, says |-> textCategory(look[<<"event", "category">>])],
      [asks |-> Asked(ImagePaths, look, There) \cup
                (IF Has(ImagePaths, look) THEN Asked(LinePaths, look, There) ELSE {}),
       says |-> IF Has(ImagePaths, look) /\ Has(LinePaths, look) THEN "process_creation" ELSE "unknown"]>>
    \o [i \in DOMAIN FieldPairs |->
           [asks |-> Asked(FieldPairs[i].paths, look, There),
            says |-> IF Has(FieldPairs[i].paths, look) THEN FieldPairs[i].category ELSE "unknown"]]

Deciding(look) ==
    LET t == Tests(look) IN Min({i \in DOMAIN t : t[i].says # "unknown"} \cup {Len(t)})

inferCategory(look) == Tests(look)[Deciding(look)].says

productOf(value) == FirstOf(<<
    Row({"windows", "sysmon"}, "windows"), Row({"linux"}, "linux"), Row({"macos", "darwin"}, "macos")>>,
    Words(value))

NamesProduct(value) == productOf(value) # "unknown"

extractProduct(look) ==
    LET named == productOf(look[ProductPaths[Stop(ProductPaths, look, NamesProduct)]])
    IN  IF named = "unknown" THEN "windows" ELSE named

IsTime(value) == value.kind = "time"

extractTimestamp(look) ==
    LET value == look[TimePaths[Stop(TimePaths, look, IsTime)]]
    IN  IF IsTime(value) THEN value ELSE [kind |-> "now"]

Made(look) == [id |-> extractEventID(look), category |-> inferCategory(look),
               product |-> extractProduct(look), time |-> extractTimestamp(look)]

AskedInMaking(look) ==
    Asked(EventIDPaths, look, There) \cup Asked(ProductPaths, look, NamesProduct)
    \cup Asked(TimePaths, look, IsTime) \cup UNION {Tests(look)[i].asks : i \in 1 .. Deciding(look)}

(* Every way the lookups of an event may turn out, beside what is cached. *)
Looks(data, cached) ==
    LET open == {p \in Paths \ DOMAIN cached : Cardinality(Lookups(data, p)) > 1}
        choices == {c \in [open -> UNION {Lookups(data, p) : p \in open}] : \A p \in open : c[p] \in Lookups(data, p)}
    IN  {[p \in Paths |-> CASE p \in DOMAIN cached -> cached[p]
                            [] p \in open -> c[p]
                            [] OTHER -> CHOOSE v \in Lookups(data, p) : TRUE] : c \in choices}

Init ==
    /\ raw \in Raws
    /\ \E look \in Looks(raw, <<>>) :
           event = Made(look) /\ cache = [p \in AskedInMaking(look) |-> look[p]]
    /\ reader = [r \in Readers |-> Idle] /\ answers = {} /\ reads = 0

-----------------------------------------------------------------------------
Answers(path, value, ok) == answers' = answers \cup {[path |-> path, value |-> value, ok |-> ok]}

(* GetField under the read lock. *)
ReadCache(r, path) ==
    /\ reader[r] = Idle /\ reads < MaxReads
    /\ reads' = reads + 1
    /\ \/ path \in DOMAIN cache /\ Answers(path, cache[path], TRUE) /\ UNCHANGED reader
       \/ /\ path \notin DOMAIN cache
          /\ reader' = [reader EXCEPT ![r] = [at |-> "missed", path |-> path]] /\ UNCHANGED answers
    /\ UNCHANGED <<raw, event, cache>>

(* Faulty variant: the cache is not looked at again under the lock. *)
FillCacheAnew(r) ==
    /\ reader[r].at = "missed"
    /\ LET path == reader[r].path
       IN  \E v \in Lookups(raw, path) :
               /\ cache' = [p \in DOMAIN cache \cup {path} |-> IF p = path THEN v ELSE cache[p]]
               /\ Answers(path, v, path \in DOMAIN raw.of \/ v # Nil)
    /\ reader' = [reader EXCEPT ![r] = Idle]
    /\ UNCHANGED <<raw, event, reads>>

(* GetField under the write lock: once more the cache, then the data; what
   is not there is cached as nil. *)
FillCache(r) ==
    /\ reader[r].at = "missed"
    /\ LET path == reader[r].path
       IN  \/ path \in DOMAIN cache /\ Answers(path, cache[path], TRUE) /\ UNCHANGED cache
           \/ /\ path \notin DOMAIN cache
              /\ \E v \in Lookups(raw, path) :
                     /\ cache' = [p \in DOMAIN cache \cup {path} |-> IF p = path THEN v ELSE cache[p]]
                     /\ Answers(path, v, path \in DOMAIN raw.of \/ v # Nil)
    /\ reader' = [reader EXCEPT ![r] = Idle]
    /\ UNCHANGED <<raw, event, reads>>

Next == \E r \in Readers : FillCache(r) \/ \E p \in Fields : ReadCache(r, p)

Spec == Init /\ [][Next]_vars

-----------------------------------------------------------------------------
TypeOK ==
    /\ raw \in Raws /\ reads \in 0 .. MaxReads
    /\ DOMAIN cache \subseteq Paths
    /\ \A r \in Readers : reader[r] = Idle \/ reader[r].path \in Fields

(***************************************************************************)
(* Whoever reads a field of an event, and however often, gets one value,   *)
(* although a key may be found in several spellings and the order of a Go  *)
(* map is random; and the event that would be made of the values the       *)
(* readers see is the event that was made.                                 *)
(***************************************************************************)
OneAnswer ==
    /\ \A a, b \in answers : a.path = b.path => a.value = b.value
    /\ \A look \in Looks(raw, cache) : Made(look) = event

(***************************************************************************)
(* Not so: a field that GetField has not found stays not found.  Its nil   *)
(* is cached, and the next call finds it.                                  *)
(***************************************************************************)
MissingStays == \A a, b \in answers : a.path = b.path => a.ok = b.ok
=============================================================================
