---------------------------- MODULE SigmaMatching ---------------------------
(***************************************************************************)
(* SigmaDetectionEngine on one event after the other: the rules the index  *)
(* proposes, the field values the mapper finds or the cache remembers, the *)
(* selections and modifiers, the filters, the confidence, and the one      *)
(* alert made of all the rules that match.  A condition is the set of the  *)
(* sets of matching selections it holds for (SigmaCondition).  Strings are *)
(* sequences of letters.  A confidence is scaled by 100000.                *)
(***************************************************************************)
EXTENDS Naturals, Sequences, SequencesExt, FiniteSets, FiniteSetsExt

CONSTANTS
    Rules,        \* [id, product, category, service, level, selections, holds]
    Directories,  \* the sets of rules a start may find
    Events,       \* [product, category, key, agent, data]; the key of an agent's event is its own
    Paths, Fields,
    Direct,       \* the paths that are keys of the event, which a null ends the search at
    Chain, Fallback,   \* per field: the paths tried, and those tried when not empty
    Late,         \* per field: its other names, each with its paths, tried last in any order
    Whitelisted,  \* [images, users, parents] never looked at
    EnableFilters, MinConfidence, CacheSize,
    Null, None

VARIABLES loaded, cache, last
vars == <<loaded, cache, last>>

Nothing == [event |-> None, seen |-> <<>>, found |-> {}, alert |-> 0]

(* main loads the rules of the directory before the first event. *)
Init == loaded \in Directories /\ cache = <<>> /\ last = Nothing

TypeOK ==
    /\ loaded \subseteq Rules
    /\ DOMAIN cache \subseteq {e.key : e \in Events} \X Fields /\ Cardinality(DOMAIN cache) <= CacheSize
    /\ last.found \subseteq loaded /\ last.alert \in 0 .. 5

-----------------------------------------------------------------------------
(* RuleIndexer: three tables; the first with an entry for the event gives  *)
(* the candidates, an event no entry fits is matched against all rules.    *)

Star(part) == IF part = None THEN "*" ELSE part
BuildKey(r) == <<Star(r.product), Star(r.category), Star(r.service)>>

GetRules(e) ==
    LET exact == {r \in loaded : BuildKey(r) = <<e.product, e.category, "">>}
        category == {r \in loaded : r.product = e.product /\ r.category = e.category}
        product == {r \in loaded : r.product = e.product}
    IN CASE exact # {} -> exact
         [] exact = {} /\ category # {} -> category
         [] exact = {} /\ category = {} /\ product # {} -> product
         [] OTHER -> loaded

-----------------------------------------------------------------------------
(* FieldMapper.ResolveField.                                               *)

(* The first value of the paths; a null of a path with a dot is passed over. *)
FirstOf(paths, e, refused) ==
    LET usable == SelectSeq(paths, LAMBDA p : e.data[p] \notin refused /\ (e.data[p] = Null => p \in Direct))
    IN IF usable = <<>> THEN None ELSE e.data[Head(usable)]

(* The values the mapper may find: its last names come out of a Go map. *)
ResolveField(e, f) ==
    LET direct == FirstOf(Chain[f], e, {None})
        fallback == FirstOf(Fallback[f], e, {None, <<>>})
        late == {FirstOf(paths, e, {None}) : paths \in Late[f]} \ {None}
        value(v) == IF v = Null THEN None ELSE v
    IN CASE direct # None -> {value(direct)}
         [] direct = None /\ fallback # None -> {value(fallback)}
         [] OTHER -> IF late = {} THEN {None} ELSE {value(v) : v \in late}

(* The fields of which an event holds several values. *)
Vague(e) == {f \in Fields : \E v, w \in ResolveField(e, f) : v # w}

(* The event as the rules may read it, the names coming in one order or another. *)
Readings(e) ==
    LET picks == {p \in [Vague(e) -> UNION {ResolveField(e, f) : f \in Vague(e)}] :
                      \A f \in Vague(e) : p[f] \in ResolveField(e, f)}
    IN {[product |-> e.product, category |-> e.category, key |-> e.key,
         value |-> [f \in Fields |-> IF f \in Vague(e) THEN p[f] ELSE CHOOSE v \in ResolveField(e, f) : TRUE]] :
            p \in picks}

(* Faulty variant: values are remembered by the field alone. *)
CacheKeyField(e, f) == <<(CHOOSE d \in Events : TRUE).key, f>>

(* ComputeHash and the field. *)
CacheKey(e, f) == <<e.key, f>>

(* resolveFieldValue: what the selections see of a reading of the event. *)
Seen(e, f) == IF CacheKey(e, f) \in DOMAIN cache THEN cache[CacheKey(e, f)] ELSE e.value[f]

-----------------------------------------------------------------------------
(* Modifiers and selections.                                               *)

Fold(letter) == CASE letter = "A" -> "a" [] letter = "B" -> "b" [] OTHER -> letter

EqualFold(s, t) == Len(s) = Len(t) /\ \A i \in 1 .. Len(s) : Fold(s[i]) = Fold(t[i])

HasSubstring(s, t) == \E i \in 0 .. Len(s) : i + Len(t) <= Len(s) /\ SubSeq(s, i + 1, i + Len(t)) = t

ModifierHolds(m, v, p) ==
    CASE m = "startswith" -> IsPrefix(p, v)
      [] m = "endswith" -> IsSuffix(p, v)
      [] OTHER -> HasSubstring(v, p)

(* ApplyModifier, which compareValue calls with one pattern at a time: what
   no modifier matches is still compared with contains. *)
ApplyModifier(v, p, mods) ==
    LET matched == \E m \in mods \ {"all"} : ModifierHolds(m, v, p)
    IN matched \/ ("all" \notin mods /\ HasSubstring(v, p))

EvaluateField(e, field) ==
    LET v == Seen(e, field.name) IN
    /\ v # None
    /\ \E p \in field.values : IF field.mods = {} THEN EqualFold(v, p) ELSE ApplyModifier(v, p, field.mods)

EvaluateSelection(e, sel) == \A field \in sel.fields : EvaluateField(e, field)

IsFilter(sel) == sel.filter

-----------------------------------------------------------------------------
(* Confidence: the level, the share of the rule's fields that matched, and *)
(* the context that is missing.                                            *)

LevelConfidence(level) ==
    CASE level = "critical" -> 100 [] level = "high" -> 80 [] level = "medium" -> 60
      [] level = "low" -> 40 [] level = "informational" -> 20 [] OTHER -> 50

RuleReferences(r, f) == \E sel \in r.selections : \E field \in sel.fields : field.name = f

Blank(e, f) == e.value[f] \in {None, <<>>}

ValidateContext(r, e) ==
    LET parent == RuleReferences(r, "ParentImage") \/ RuleReferences(r, "ParentCommandLine") IN
    ((IF parent /\ Blank(e, "ParentImage") THEN 80 ELSE 100)
        * (IF RuleReferences(r, "CommandLine") /\ Blank(e, "CommandLine") THEN 85 ELSE 100)
        * (IF RuleReferences(r, "User") /\ Blank(e, "User") THEN 90 ELSE 100)) \div 1000

CalculateConfidence(r, e, matching) ==
    LET names == UNION {{field.name : field \in sel.fields} : sel \in {s \in matching : ~IsFilter(s)}}
        count == Cardinality({f \in names : e.value[f] # None})
        total == Cardinality(UNION {{sel} \X sel.fields : sel \in r.selections})
    IN IF total = 0 THEN LevelConfidence(r.level) * ValidateContext(r, e)
       ELSE (LevelConfidence(r.level) * count * ValidateContext(r, e)) \div total

(* isWhitelistedEvent looks at the event itself. *)
IsWhitelisted(e) ==
    \/ ~Blank(e, "Image") /\ e.value["Image"] \in Whitelisted.images
    \/ ~Blank(e, "User") /\ \E user \in Whitelisted.users : EqualFold(e.value["User"], user)
    \/ ~Blank(e, "ParentImage") /\ e.value["ParentImage"] \in Whitelisted.parents

(* evaluateRule: the confidence of the match, 0 for no match. *)
EvaluateRule(r, e) ==
    LET matching == {sel \in r.selections : EvaluateSelection(e, sel)}
        confidence == CalculateConfidence(r, e, matching)
    IN IF /\ {sel.name : sel \in matching} \in r.holds
          /\ EnableFilters => \A sel \in matching : ~IsFilter(sel)
          /\ confidence >= MinConfidence
       THEN confidence ELSE 0

(* evaluateRuleForAggregation repeats evaluateRule. *)
EvaluateRuleForAggregation(r, e) ==
    LET matching == {sel \in r.selections : EvaluateSelection(e, sel)}
        confidence == CalculateConfidence(r, e, matching)
    IN IF /\ {sel.name : sel \in matching} \in r.holds
          /\ EnableFilters => {sel \in r.selections : IsFilter(sel) /\ EvaluateSelection(e, sel)} = {}
          /\ confidence >= MinConfidence
       THEN confidence ELSE 0

Detect(e) == IF IsWhitelisted(e) THEN {} ELSE {r \in GetRules(e) : EvaluateRule(r, e) > 0}

-----------------------------------------------------------------------------
(* The alert made of all matches.                                          *)

SeverityFromString(level) ==
    CASE level = "informational" -> 1 [] level = "low" -> 2 [] level \in {"high", "High"} -> 4
      [] level = "critical" -> 5 [] OTHER -> 3

SeverityRank(level) ==
    CASE level = "critical" -> 5 [] level = "high" -> 4 [] level = "medium" -> 3
      [] level = "low" -> 2 [] level = "informational" -> 1 [] OTHER -> 0

(* Faulty variant: the first match is the alert's, whatever its level. *)
HighestSeverityMatchAny(found, e) == found

(* The matches the primary one is picked from, in the order of the rules. *)
HighestSeverityMatch(found, e) ==
    LET top == {r \in found : \A q \in found : SeverityRank(q.level) <= SeverityRank(r.level)}
    IN {r \in top : \A q \in top : EvaluateRuleForAggregation(q, e) <= EvaluateRuleForAggregation(r, e)}

CombinedConfidence(found, e) ==
    LET best == Max({EvaluateRuleForAggregation(r, e) : r \in found})
        bonus == Min({5000 * (Cardinality(found) - 1), 20000})
    IN Min({best + bonus, 100000})

CalculateAggregatedSeverity(base, n, combined) ==
    LET high == IF n > 3 /\ base < 4 THEN 4 ELSE base
        many == IF n > 5 /\ combined > 80000 /\ base < 5 THEN 5 ELSE high
    IN IF combined > 90000 /\ many < 5 THEN many + 1 ELSE many

(* DetectAggregated and GenerateAggregatedAlert: the severities the alert can have. *)
AggregatedAlert(e) ==
    LET found == IF IsWhitelisted(e) THEN {} ELSE {r \in GetRules(e) : EvaluateRuleForAggregation(r, e) > 0}
    IN IF found = {} THEN {0}
       ELSE {CalculateAggregatedSeverity(SeverityFromString(r.level), Cardinality(found),
                                         CombinedConfidence(found, e)) : r \in HighestSeverityMatch(found, e)}

(* An event is processed, in a reading of its own for each of the two
   evaluations.  Selections stop at the first field that fails and the cache
   evicts: of what it held and what was resolved, it keeps some. *)
Process(e) ==
    \E once, again \in Readings(e) :
        LET resolved == {CacheKey(e, f) : f \in {g \in Fields : Seen(once, g) # None}}
            after == [k \in DOMAIN cache \cup resolved |-> IF k \in DOMAIN cache THEN cache[k] ELSE Seen(once, k[2])]
        IN /\ \E severity \in AggregatedAlert(once) :
                 last' = [event |-> e, seen |-> [f \in Fields |-> Seen(once, f)],
                          found |-> Detect(again), alert |-> severity]
           /\ \E kept \in SUBSET DOMAIN after :
                 /\ Cardinality(kept) <= CacheSize
                 /\ cache' = Restrict(after, kept)
           /\ UNCHANGED loaded

Next == \E e \in Events : Process(e)
Spec == Init /\ [][Next]_vars

-----------------------------------------------------------------------------
(***************************************************************************)
(* Rules are matched against the event's own values, whatever the cache    *)
(* was left with by the events before it, for every event that carries an  *)
(* identifier of its own (resolveFieldValue, ComputeHash).                 *)
(***************************************************************************)
OwnValues ==
    last # Nothing /\ last.event.agent =>
        \A f \in Fields : last.seen[f] \in ResolveField(last.event, f)

(***************************************************************************)
(* There is an alert for an event exactly when Detect finds a rule for it, *)
(* when no field of the event has two values, and its severity is not      *)
(* below that of any rule found whose level is spelled in small letters:   *)
(* the level is read by four functions that treat case and unknown levels  *)
(* differently, and the two evaluations of a rule are separate code.       *)
(***************************************************************************)
AlertCoversMatches ==
    last # Nothing /\ Vague(last.event) = {} =>
        /\ last.alert > 0 <=> last.found # {}
        /\ \A r \in last.found : SeverityRank(r.level) > 0 => SeverityFromString(r.level) <= last.alert

(***************************************************************************)
(* The same of every rule.  Not so: a level High passes the checks of a    *)
(* rule, is read as high by SeverityFromString and as none by              *)
(* severityRank, so that a rule of medium level gives the alert its own.   *)
(***************************************************************************)
AlertCoversAll ==
    last # Nothing /\ Vague(last.event) = {} =>
        \A r \in last.found : SeverityFromString(r.level) <= last.alert

(***************************************************************************)
(* The same of every event.  Not so: getAllFieldVariants lists a field's   *)
(* names in the random order of a Go map, and the values of two names may  *)
(* differ.                                                                 *)
(***************************************************************************)
DetectionsAgree == last.alert > 0 <=> last.found # {}

(***************************************************************************)
(* Not so: "GetRules returns rules matching the given logsource            *)
(* parameters" (rule_indexer.go:101), by which a loaded rule whose         *)
(* logsource fits the event is among its candidates.                       *)
(***************************************************************************)
CandidatesComplete ==
    \A e \in Events, r \in loaded :
        r.product \in {None, e.product} /\ r.category \in {None, e.category} /\ r.service = None
            => r \in GetRules(e)
=============================================================================
