---------------------------- MODULE SigmaRuleFile ---------------------------
(***************************************************************************)
(* One Sigma rule from its file to its verdict on an event: the checks of  *)
(* the decoded YAML, the conversion to a domain rule, the checks of that   *)
(* rule, the loader's and the engine's filters, and the comparison of the  *)
(* rule's values with the event's, the filters and the confidence.  A      *)
(* string is a sequence of letters, a value is tagged with its type, and a *)
(* condition is given by the selections it names and the sets of           *)
(* selections it holds for.  Of the letters a and b have capitals; bs is a *)
(* backslash, nl the end of a line.  A confidence is scaled by 100000.     *)
(***************************************************************************)
EXTENDS Integers, Sequences, SequencesExt, FiniteSets

CONSTANTS
    Files,      \* the decoded files, see MeaningOf for their shape
    Events,     \* [field name -> value or None]
    Whitelist,  \* the products wanted, empty for all
    MinLevel, AllowedStatus, SkipExperimental,
    Bad,        \* the strings regexp and net.ParseCIDR refuse
    Addresses,  \* the strings net.ParseIP reads
    Covers,     \* pairs of a pattern, network or wildcard and a string it matches
    Base64(_),  \* the encoding of a string
    InBase64,   \* pairs of a string and one with its base64 at some offset
    EnableFilters, MinConfidence,
    None

VARIABLES file, rule, stage, event, verdict
vars == <<file, rule, stage, event, verdict>>

Levels == <<"informational", "low", "medium", "high", "critical">>
Statuses == {"stable", "test", "experimental", "deprecated", "unsupported"}
Products == {"windows", "linux", "macos", "freebsd", "aix"}

Str(s) == [t |-> "str", v |-> s]

Fold(letter) == CASE letter = "A" -> "a" [] letter = "B" -> "b" [] OTHER -> letter
ToLower(s) == [i \in 1 .. Len(s) |-> Fold(s[i])]

(* Levels are checked in small letters and kept as they are spelled. *)
Known(level) == IF level = "High" THEN "high" ELSE level

(* A process reads a file; verdicts are given later, on any event. *)
Init == file \in Files /\ rule = None /\ stage = "read" /\ event = None /\ verdict = FALSE

TypeOK ==
    /\ file \in Files /\ event \in Events \cup {None}
    /\ stage \in {"read", "refused", "skipped", "parsed", "left", "loaded"}
    /\ (rule = None) <=> (stage \in {"read", "refused", "skipped"})

-----------------------------------------------------------------------------
(* yamlRule.validate and the conversion.                                   *)

validate(f) ==
    /\ f.title >= 5
    /\ f.detection # None
    /\ f.detection.condition # None /\ f.detection.selections # {}
    /\ f.level # "" => Known(f.level) \in Range(Levels)
    /\ f.status # "" => f.status \in Statuses

(* Faulty variant: of a list of values the first is kept. *)
parseSelectionFieldFirst(f) ==
    [name |-> f.name, mods |-> f.mods, values |-> {CHOOSE v \in f.values : TRUE}, compiled |-> {}]

(* A pattern that does not compile is left out of the compiled ones. *)
parseSelectionField(f) ==
    [name |-> f.name, mods |-> f.mods, values |-> f.values,
     compiled |-> IF f.mods \cap {"re", "Re", "regex"} = {} THEN {}
                  ELSE {v.v : v \in {w \in f.values : w.t = "str" /\ w.v \notin Bad}}]

(* A list is a keyword selection, of those of its items that are strings. *)
parseSelection(s) ==
    [name |-> s.name, filter |-> s.filter, keyword |-> s.data.kind = "list",
     keywords |-> IF s.data.kind = "list" THEN {i.v : i \in {j \in s.data.items : j.t = "str"}} ELSE {},
     fields |-> IF s.data.kind = "map" THEN {parseSelectionField(f) : f \in s.data.fields} ELSE {}]

parseDetection(d) == [condition |-> d.condition, selections |-> {parseSelection(s) : s \in d.selections}]

(* condition must be a string, a selection a list or a map. *)
Convertible(d) == d.condition.string /\ \A s \in d.selections : s.data.kind \in {"list", "map"}

OrElse(text, default) == IF text = "" THEN default ELSE text

toSigmaRule(f) ==
    [title |-> f.title, description |-> f.description, product |-> f.product, category |-> f.category,
     level |-> OrElse(f.level, "medium"), status |-> OrElse(f.status, "test"),
     detection |-> parseDetection(f.detection)]

-----------------------------------------------------------------------------
(* SigmaRule.Validate, LogSource.Validate and Detection.Validate.          *)

LogSourceValid(r) ==
    /\ r.product # None \/ r.category # None
    /\ r.product # None => r.product \in Products

DetectionValid(d) ==
    d.condition.names \subseteq {s.name : s \in d.selections}

Validate(r) ==
    /\ ~r.detection.condition.empty
    /\ LogSourceValid(r) /\ DetectionValid(r.detection)

Wanted(r) == Whitelist = {} \/ r.product = None \/ r.product \in Whitelist

Rank(level) == CHOOSE i \in 1 .. Len(Levels) : Levels[i] = Known(level)

Allowed(r) ==
    /\ r.status = "experimental" => ~SkipExperimental
    /\ AllowedStatus # {} => r.status \in AllowedStatus

(* The filters of RuleLoader.LoadRules and of the engine. *)
LoaderKeeps(r) ==
    /\ Rank(r.level) >= Rank(MinLevel) /\ Allowed(r)
    /\ AllowedStatus = {} => r.status # "deprecated"

EngineKeeps(r) == r.description /\ Allowed(r) /\ Rank(r.level) >= Rank(MinLevel)

(* ParseFile. *)
ParseFile ==
    /\ stage = "read"
    /\ LET r == toSigmaRule(file) IN
       IF ~validate(file) \/ ~Convertible(file.detection)
       THEN stage' = "refused" /\ UNCHANGED rule
       ELSE IF ~Wanted(r) THEN stage' = "skipped" /\ UNCHANGED rule
       ELSE IF ~Validate(r) THEN stage' = "refused" /\ UNCHANGED rule
       ELSE stage' = "parsed" /\ rule' = r
    /\ UNCHANGED <<file, event, verdict>>

LoadRule ==
    /\ stage = "parsed"
    /\ stage' = IF LoaderKeeps(rule) /\ EngineKeeps(rule) THEN "loaded" ELSE "left"
    /\ UNCHANGED <<file, rule, event, verdict>>

-----------------------------------------------------------------------------
(* Values.                                                                 *)

Digits == <<"0", "1", "2", "3", "4", "5", "6", "7", "8", "9">>

Spelling(n) ==
    IF n < 10 THEN <<Digits[n + 1]>> ELSE <<Digits[(n \div 10) + 1], Digits[(n % 10) + 1]>>

toString(v) ==
    CASE v.t = "str" -> v.v
      [] v.t = "num" -> Spelling(v.v)
      [] v.t = "bool" -> IF v.v THEN <<"t", "r", "u", "e">> ELSE <<"f", "a", "l", "s", "e">>

Numbers == 0 .. 99

(* The number a value stands for, None when toFloat64 fails. *)
toFloat64(v) ==
    CASE v.t = "num" -> v.v
      [] v.t = "str" /\ (\E n \in Numbers : Spelling(n) = v.v) -> CHOOSE n \in Numbers : Spelling(n) = v.v
      [] OTHER -> -1

(* directCompare's own conversion: what is no number is nought. *)
convertToFloat64(v) == IF v.t = "num" THEN v.v ELSE 0

convertToBool(v) ==
    CASE v.t = "bool" -> v.v
      [] v.t = "num" -> v.v # 0
      [] v.t = "str" -> v.v \in {<<"t", "r", "u", "e">>, <<"1">>}

HasSubstring(s, t) == \E i \in 0 .. Len(s) : i + Len(t) <= Len(s) /\ \A j \in 1 .. Len(t) : s[i + j] = t[j]

(* strings.EqualFold *)
DirectScalar(v, p) ==
    CASE v.t = "str" -> ToLower(v.v) = ToLower(toString(p))
      [] v.t = "num" -> v.v = convertToFloat64(p)
      [] v.t = "bool" -> v.v = convertToBool(p)

(* An array matches when an element does. *)
directCompare(v, p) == IF v.t = "arr" THEN \E x \in v.v : DirectScalar(x, p) ELSE DirectScalar(v, p)

-----------------------------------------------------------------------------
(* Modifiers: "yes", "no" or "error".                                     *)

Ordered(m, a, b) ==
    CASE m = "lt" -> a < b [] m = "lte" -> a <= b [] m = "gt" -> a > b [] m = "gte" -> a >= b

modifierNumber(m, v, p) ==
    CASE toFloat64(v) = -1 -> "no"
      [] toFloat64(v) # -1 /\ toFloat64(p) = -1 -> "error"
      [] OTHER -> IF Ordered(m, toFloat64(v), toFloat64(p)) THEN "yes" ELSE "no"

modifierRegex(v, p) ==
    IF toString(p) \in Bad THEN "error"
    ELSE IF <<toString(p), toString(v)>> \in Covers THEN "yes" ELSE "no"

modifierCIDR(v, p) == IF toString(v) \notin Addresses THEN "no" ELSE modifierRegex(v, p)

Answer(matches) == IF matches THEN "yes" ELSE "no"

modifierContains(v, p) == Answer(HasSubstring(toString(v), toString(p)))
modifierStartsWith(v, p) == Answer(IsPrefix(toString(p), toString(v)))
modifierEndsWith(v, p) == Answer(IsSuffix(toString(p), toString(v)))
modifierBase64(v, p) == Answer(HasSubstring(toString(v), Base64(toString(p))))

(* One and two spaces before the text stand for the other offsets; base64
   has "=" at its end only. *)
modifierBase64Offset(v, p) ==
    LET encoded(offset) == Base64([i \in 1 .. offset |-> " "] \o toString(p))
    IN Answer(\E offset \in 0 .. 2 :
                  HasSubstring(toString(v), SelectSeq(encoded(offset), LAMBDA x : x # "=")))

(* The patterns of the model have no two dashes in a row. *)
Dashes(s) == {s, [i \in DOMAIN s |-> IF s[i] = "-" THEN "/" ELSE s[i]],
              [i \in DOMAIN s |-> IF s[i] = "/" THEN "-" ELSE s[i]]}

modifierWinDash(v, p) == Answer(\E s \in Dashes(toString(p)) : HasSubstring(toString(v), s))

(* Letters are compared as they are (caseInsensitive is false). *)
Outcome(m, v, p) ==
    CASE m \in {"lt", "lte", "gt", "gte"} -> modifierNumber(m, v, p)
      [] m \in {"re", "Re", "regex"} -> modifierRegex(v, p)
      [] m = "cidr" -> modifierCIDR(v, p)
      [] m = "startswith" -> modifierStartsWith(v, p)
      [] m = "endswith" -> modifierEndsWith(v, p)
      [] m = "base64" -> modifierBase64(v, p)
      [] m = "base64offset" -> modifierBase64Offset(v, p)
      [] m = "windash" -> modifierWinDash(v, p)
      [] OTHER -> modifierContains(v, p)

(* ApplyModifier of one pattern: the text is looked for when no modifier
   matches, and an error is no match. *)
ApplyModifier(v, p, mods) ==
    LET outcomes == {Outcome(m, v, p) : m \in mods \ {"all"}} IN
    /\ "error" \notin outcomes
    /\ "yes" \in outcomes \/ ("all" \notin mods /\ HasSubstring(toString(v), toString(p)))

EvaluateField(e, f) ==
    LET v == e[f.name] IN
    /\ v # None
    /\ IF f.mods \cap {"re", "regex"} # {} /\ f.compiled # {}
       THEN \E p \in f.compiled : <<p, toString(v)>> \in Covers
       ELSE \E p \in f.values : IF f.mods = {} THEN directCompare(v, p) ELSE ApplyModifier(v, p, f.mods)

(* What json.Marshal writes for a letter, and for a text. *)
Special == {"bs", "quote", "nl", "<", ">", "&"}

Escape(x) ==
    CASE x \in {"bs", "quote"} -> <<"bs", x>>
      [] x = "nl" -> <<"bs", "n">>
      [] x = "<" -> <<"bs", "u", "0", "0", "3", "c">>
      [] x = ">" -> <<"bs", "u", "0", "0", "3", "e">>
      [] x = "&" -> <<"bs", "u", "0", "0", "2", "6">>
      [] OTHER -> <<x>>

Escaped(s) ==
    LET out[i \in 0 .. Len(s)] == IF i = 0 THEN <<>> ELSE out[i - 1] \o Escape(s[i])
    IN  out[Len(s)]

(* The keys and the punctuation of the JSON text are left out: a keyword
   found in them is a match more. *)
evaluateKeywords(e, keywords) ==
    \E k \in keywords : \E f \in DOMAIN e :
        e[f] # None /\ HasSubstring(ToLower(Escaped(toString(e[f]))), ToLower(k))

EvaluateSelection(e, s) ==
    IF s.keyword THEN evaluateKeywords(e, s.keywords) ELSE \A f \in s.fields : EvaluateField(e, f)

(* getLevelConfidence, of levels in small letters. *)
LevelConfidence(level) == IF level \in Range(Levels) THEN 20 * Rank(level) ELSE 50

validateContext(r, e) ==
    LET names == UNION {{f.name : f \in s.fields} : s \in r.detection.selections}
        lacks(f) == f \notin DOMAIN e \/ e[f] \in {None, Str(<<>>)}
        factor(uses, f, less) == IF uses \cap names # {} /\ lacks(f) THEN less ELSE 100
    IN (factor({"ParentImage", "ParentCommandLine"}, "ParentImage", 80) * factor({"CommandLine"}, "CommandLine", 85)
            * factor({"User"}, "User", 90)) \div 1000

(* evaluateSelection collects the fields of the selections that match, all
   of which have a value, but not those of filters. *)
MatchedFields(matching) == UNION {{f.name : f \in s.fields} : s \in {t \in matching : ~t.filter}}

TotalFields(r) == Cardinality(UNION {{s} \X s.fields : s \in r.detection.selections})

(* calculateConfidence is not below the least one. *)
Confident(r, e, matching) ==
    LET level == LevelConfidence(r.level) * validateContext(r, e)
    IN IF TotalFields(r) = 0 THEN level >= MinConfidence
       ELSE level * Cardinality(MatchedFields(matching)) >= MinConfidence * TotalFields(r)

Matching(r, e) == {s \in r.detection.selections : EvaluateSelection(e, s)}

Suppressed(r, e) == EnableFilters /\ \E s \in Matching(r, e) : s.filter

(* evaluateRule. *)
Verdict(r, e) ==
    /\ {s.name : s \in Matching(r, e)} \in r.detection.condition.holds
    /\ ~Suppressed(r, e)
    /\ Confident(r, e, Matching(r, e))

Evaluate(e) ==
    /\ stage = "loaded" /\ e \in Events
    /\ event' = e
    /\ verdict' = Verdict(rule, e)
    /\ UNCHANGED <<file, rule, stage>>

Next == ParseFile \/ LoadRule \/ \E e \in Events : Evaluate(e)

Spec == Init /\ [][Next]_vars

-----------------------------------------------------------------------------
(* What a file says, for a reader of the Sigma format.  The format does    *)
(* not tell capitals from small letters; with blind FALSE a modifier does. *)

Wildcard(p) == p.t = "str" /\ Range(p.v) \cap {"*", "?"} # {}

Means(m, v, p, blind) ==
    LET as(s) == IF blind THEN ToLower(s) ELSE s IN
    CASE m \in {"lt", "lte", "gt", "gte"} ->
            v.t = "num" /\ p.t = "num" /\ Ordered(m, v.v, p.v)
      [] m \in {"re", "Re", "regex", "cidr"} -> v.t = "str" /\ <<p.v, v.v>> \in Covers
      [] m = "startswith" -> v.t = "str" /\ IsPrefix(as(toString(p)), as(v.v))
      [] m = "endswith" -> v.t = "str" /\ IsSuffix(as(toString(p)), as(v.v))
      [] m = "base64" -> v.t = "str" /\ HasSubstring(v.v, Base64(toString(p)))
      [] m = "base64offset" -> v.t = "str" /\ <<toString(p), v.v>> \in InBase64
      [] m = "windash" -> v.t = "str" /\ \E s \in Dashes(p.v) : HasSubstring(as(v.v), as(s))
      [] OTHER -> v.t = "str" /\ HasSubstring(as(v.v), as(toString(p)))

(* A value without a modifier. *)
ValueIs(v, p) ==
    CASE Wildcard(p) -> v.t = "str" /\ <<p.v, v.v>> \in Covers
      [] ~Wildcard(p) /\ p.t = "str" -> v.t = "str" /\ ToLower(v.v) = ToLower(p.v)
      [] OTHER -> v = p

(* All the values with "all", one of them without. *)
FieldMeans(e, f, blind) ==
    LET holds(p) == IF f.mods = {} THEN ValueIs(e[f.name], p)
                    ELSE \A m \in f.mods \ {"all"} : Means(m, e[f.name], p, blind)
    IN e[f.name] # None /\ IF "all" \in f.mods THEN \A p \in f.values : holds(p) ELSE \E p \in f.values : holds(p)

MapMeans(e, fields, blind) == \A f \in fields : FieldMeans(e, f, blind)

(* A list is one of its items: a word somewhere in the event, or a map. *)
ItemMeans(e, i, blind) ==
    IF i.t = "str"
    THEN \E f \in DOMAIN e : e[f] # None /\ e[f].t = "str" /\ HasSubstring(ToLower(e[f].v), ToLower(i.v))
    ELSE MapMeans(e, i.fields, blind)

SelectionMeans(e, s, blind) ==
    IF s.data.kind = "list" THEN \E i \in s.data.items : ItemMeans(e, i, blind)
    ELSE MapMeans(e, s.data.fields, blind)

Meant(f, e, blind) == {s \in f.detection.selections : SelectionMeans(e, s, blind)}

MeaningOf(f, e, blind) == {s.name : s \in Meant(f, e, blind)} \in f.detection.condition.holds

(* Files without the forms below that the engine reads otherwise. *)
Plain(f) ==
    \A s \in f.detection.selections :
        IF s.data.kind = "list" THEN \A i \in s.data.items : i.t = "str" /\ Range(i.v) \cap Special = {}
        ELSE \A d \in s.data.fields :
                 /\ d.mods # {"all"} /\ "base64offset" \notin d.mods
                 /\ d.mods = {} => \A p \in d.values : ~Wildcard(p)

(* The selections the file describes are enough for the confidence, and no
   filter's selection matches. *)
Reported(f, r, e, blind) ==
    ~Suppressed(r, e) /\ Confident(r, e, {parseSelection(s) : s \in Meant(f, e, blind)})

(* Without negation a condition goes on holding when more selections match. *)
Unnegated(f) ==
    \A some \in f.detection.condition.holds, more \in SUBSET {s.name : s \in f.detection.selections} :
        some \subseteq more => more \in f.detection.condition.holds

(* What the format asks of a field: values, each of them a scalar, patterns
   that are strings, and networks that hold nothing but addresses. *)
Scalar(p) ==
    \/ p.t = "str" /\ p.v \in Seq(STRING)
    \/ p.t = "num" /\ p.v \in Nat
    \/ p.t = "bool" /\ p.v \in BOOLEAN

WellFormed(f) ==
    /\ f.values # {} /\ \A p \in f.values : Scalar(p)
    /\ f.mods \cap {"re", "Re", "regex", "cidr", "windash"} # {} => \A p \in f.values : p.t = "str"
    /\ "cidr" \in f.mods => \A p \in f.values, c \in Covers : c[1] = p.v => c[2] \in Addresses

(***************************************************************************)
(* The engine misses nothing that a loaded rule describes: through the     *)
(* defaults, the compiled patterns, the conversions between numbers and    *)
(* text, the escapes of JSON and the order in which modifiers are tried,   *)
(* an event for which the file's condition holds, one with no negation in  *)
(* it, is a match, when the selections described, in the letters the file  *)
(* has, are enough for the confidence and no filter suppresses it.         *)
(***************************************************************************)
NothingMissed ==
    (stage = "loaded" /\ event # None /\ Plain(file) /\ Unnegated(file) /\ Reported(file, rule, event, FALSE))
        => (MeaningOf(file, event, FALSE) => verdict)

(***************************************************************************)
(* The same of every file.  Not so: a list of maps becomes a keyword       *)
(* selection without keywords; a keyword with a backslash, a quote or a    *)
(* bracket is looked for in JSON text, where these are escaped; with no    *)
(* modifier but all no value is tried; base64offset looks for the text     *)
(* with spaces before it; and a wildcard is an asterisk.                   *)
(***************************************************************************)
NothingEverMissed ==
    (stage = "loaded" /\ event # None /\ Unnegated(file) /\ Reported(file, rule, event, FALSE))
        => (MeaningOf(file, event, FALSE) => verdict)

(***************************************************************************)
(* The same in the letters of the format, which are of no case.  Not so:   *)
(* ApplyModifier is called with caseInsensitive false.                     *)
(***************************************************************************)
NothingMissedInCapitals ==
    (stage = "loaded" /\ event # None /\ Plain(file) /\ Unnegated(file) /\ Reported(file, rule, event, TRUE))
        => (MeaningOf(file, event, TRUE) => verdict)

(***************************************************************************)
(* The same whatever the confidence.  Not so: a field of an alternative    *)
(* that does not match counts against the rule, and a level with a capital *)
(* counts as none.                                                         *)
(***************************************************************************)
NothingMissedInDoubt ==
    (stage = "loaded" /\ event # None /\ Plain(file) /\ Unnegated(file) /\ ~Suppressed(rule, event))
        => (MeaningOf(file, event, FALSE) => verdict)

(***************************************************************************)
(* A match is one the file describes.  Not so: numbers that fail lt or gt  *)
(* are compared as text, and "all" is satisfied by one value.              *)
(***************************************************************************)
NothingAdded == (stage = "loaded" /\ event # None) => (verdict => MeaningOf(file, event, TRUE))
=============================================================================
