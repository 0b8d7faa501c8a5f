--------------------------- MODULE SigmaRuleIndex ---------------------------
(***************************************************************************)
(* The rules of the detection engine while it runs, through its port       *)
(* (pkg/ports/engine.go): LoadRules, AddRules, RemoveRule, GetRules,       *)
(* Shutdown, and the three tables of the RuleIndexer below them.  A table  *)
(* maps a key to a Go slice; a slice is the sequence of what it shows.     *)
(***************************************************************************)
EXTENDS Naturals, Sequences, SequencesExt, FiniteSets, Functions

CONSTANTS
    Rules,         \* [id, product, category, service, level, tags]
    None,          \* a part of the log source that is not given
    MaxGiven,      \* bounds of the model: rules in a call,
    MaxOps         \* and calls

VARIABLES
    rules,         \* the engine's own slice
    allRules,      \* the indexer's slices
    index, categoryIndex, productIndex,
    total, perProduct, perCategory,   \* IndexStats
    removed,       \* ids taken out since the rules were loaded, by the engine
    ops

vars == <<rules, allRules, index, categoryIndex, productIndex, total, perProduct, perCategory, removed, ops>>

Empty == <<>>

TypeOK ==
    /\ rules \in Seq(Rules) /\ allRules \in Seq(Rules)
    /\ \A k \in DOMAIN index : index[k] \in Seq(Rules)
    /\ \A k \in DOMAIN categoryIndex : categoryIndex[k] \in Seq(Rules)
    /\ \A k \in DOMAIN productIndex : productIndex[k] \in Seq(Rules)
    /\ total \in Nat

NewRuleIndexer ==
    /\ allRules' = <<>> /\ index' = Empty /\ categoryIndex' = Empty /\ productIndex' = Empty
    /\ total' = 0 /\ perProduct' = Empty /\ perCategory' = Empty

Init ==
    /\ rules = <<>> /\ allRules = <<>>
    /\ index = Empty /\ categoryIndex = Empty /\ productIndex = Empty
    /\ total = 0 /\ perProduct = Empty /\ perCategory = Empty
    /\ removed = {} /\ ops = 0

-----------------------------------------------------------------------------
Star(part) == IF part = None THEN "*" ELSE part
buildKey(r) == <<Star(r.product), Star(r.category), Star(r.service)>>
catKey(r) == <<r.product, r.category>>

(* The rules that go under a key of each table. *)
InCategory(r) == r.product # None /\ r.category # None
InProduct(r) == r.product # None

(* What a loop over q gathers of the rules in X, in the order of q. *)
Chosen(q, X) ==
    LET upTo[i \in 0 .. Len(q)] ==
            IF i = 0 THEN <<>> ELSE IF q[i] \in X THEN Append(upTo[i - 1], q[i]) ELSE upTo[i - 1]
    IN  upTo[Len(q)]

(* A table with q under its keys. *)
Table(q, K(_), In(_)) ==
    [k \in {K(r) : r \in {s \in Range(q) : In(s)}} |-> Chosen(q, {r \in Rules : In(r) /\ K(r) = k})]
Always(r) == TRUE
Product(r) == r.product

(* The statistics are written over what is there: a key that the new rules
   do not have keeps the number of the old ones. *)
Counted(stats, t) == [k \in DOMAIN t |-> Len(t[k])] @@ stats

BuildIndex(q) ==
    /\ allRules' = q
    /\ index' = Table(q, buildKey, Always)
    /\ categoryIndex' = Table(q, catKey, InCategory)
    /\ productIndex' = Table(q, Product, InProduct)
    /\ total' = Len(q)
    /\ perProduct' = Counted(perProduct, productIndex')
    /\ perCategory' = Counted(perCategory, categoryIndex')

-----------------------------------------------------------------------------
(* RuleIndexer.AddRule and RemoveRule, on tables of one value each.        *)

State == [all |-> allRules, index |-> index, category |-> categoryIndex, product |-> productIndex,
          total |-> total, per |-> perProduct]

At(t, k) == IF k \in DOMAIN t THEN t[k] ELSE <<>>
Put(t, k, v) == [j \in DOMAIN t \cup {k} |-> IF j = k THEN v ELSE t[j]]
Bump(t, k, by) == Put(t, k, (IF k \in DOMAIN t THEN t[k] ELSE 0) + by)

Has(q, id) == \E i \in DOMAIN q : q[i].id = id
Position(q, id) == CHOOSE i \in DOMAIN q : q[i].id = id /\ \A j \in 1 .. i - 1 : q[j].id # id

(* Faulty variant: the table of the products is forgotten. *)
AddRuleHalf(s, r) ==
    IF Has(s.all, r.id) THEN s
    ELSE [s EXCEPT !.all = Append(@, r), !.total = @ + 1,
                   !.index = Put(@, buildKey(r), Append(At(@, buildKey(r)), r)),
                   !.category = IF InCategory(r) THEN Put(@, catKey(r), Append(At(@, catKey(r)), r)) ELSE @]

AddRule(s, r) ==
    IF Has(s.all, r.id) THEN s
    ELSE [s EXCEPT !.all = Append(@, r), !.total = @ + 1,
                   !.index = Put(@, buildKey(r), Append(At(@, buildKey(r)), r)),
                   !.category = IF InCategory(r) THEN Put(@, catKey(r), Append(At(@, catKey(r)), r)) ELSE @,
                   !.product = IF InProduct(r) THEN Put(@, r.product, Append(At(@, r.product), r)) ELSE @,
                   !.per = IF InProduct(r) THEN Bump(@, r.product, 1) ELSE @]

(* The rule is cut out of a local slice: in the table the rules behind it
   move up, and the length stays, so that the last is there twice; a rule at
   the end stays. *)
removeFromSlice(q, id) ==
    IF ~Has(q, id) THEN q
    ELSE [i \in DOMAIN q |-> IF i < Position(q, id) \/ i = Len(q) THEN q[i] ELSE q[i + 1]]

RemoveRule(s, id) ==
    IF ~Has(s.all, id) THEN s
    ELSE LET r == s.all[Position(s.all, id)]
         IN [s EXCEPT !.all = RemoveAt(@, Position(s.all, id)), !.total = @ - 1,
                      !.index = Put(@, buildKey(r), removeFromSlice(At(@, buildKey(r)), id)),
                      !.category = IF InCategory(r) THEN Put(@, catKey(r), removeFromSlice(At(@, catKey(r)), id)) ELSE @,
                      !.product = IF InProduct(r) THEN Put(@, r.product, removeFromSlice(At(@, r.product), id)) ELSE @,
                      !.per = IF InProduct(r) THEN Bump(@, r.product, -1) ELSE @]

Becomes(s) ==
    /\ allRules' = s.all /\ index' = s.index /\ categoryIndex' = s.category /\ productIndex' = s.product
    /\ total' = s.total /\ perProduct' = s.per
    /\ UNCHANGED perCategory

-----------------------------------------------------------------------------
(* The engine's operations, each under its lock.                           *)

Step == ops < MaxOps /\ ops' = ops + 1

Sequences(n) == UNION {[1 .. m -> Rules] : m \in 0 .. n}
Given == {q \in Sequences(MaxGiven) : \A i, j \in DOMAIN q : i # j => q[i].id # q[j].id}

LoadRules(q) ==
    /\ Step
    /\ rules' = q /\ removed' = {}
    /\ BuildIndex(q)

(* AddRules stops, without an error, at the first rule it knows. *)
Added(q) ==
    LET new == {n \in 0 .. Len(q) : \A i \in 1 .. n : ~Has(rules, q[i].id)}
    IN  SubSeq(q, 1, CHOOSE n \in new : \A m \in new : m <= n)

(* The indexer's state after each of the rules q. *)
Adding(q) ==
    LET state[i \in 0 .. Len(q)] == IF i = 0 THEN State ELSE AddRule(state[i - 1], q[i])
    IN  state

AddRules(q) ==
    /\ Step
    /\ rules' = rules \o Added(q)
    /\ Becomes(Adding(Added(q))[Len(Added(q))])
    /\ UNCHANGED removed

EngineRemoveRule(id) ==
    /\ Step
    /\ Has(rules, id)
    /\ rules' = Chosen(rules, {r \in Rules : r.id # id})
    /\ Becomes(RemoveRule(State, id))
    /\ removed' = removed \cup {id}

Shutdown ==
    /\ Step
    /\ rules' = <<>> /\ removed' = {}
    /\ NewRuleIndexer

Next ==
    \/ \E q \in Given : LoadRules(q) \/ AddRules(q)
    \/ \E r \in Rules : EngineRemoveRule(r.id)
    \/ Shutdown

Spec == Init /\ [][Next]_vars

-----------------------------------------------------------------------------
(* What the lookups answer. *)

GetRules(product, category, service) ==
    CASE <<product, category, service>> \in DOMAIN index -> index[<<product, category, service>>]
      [] <<product, category, service>> \notin DOMAIN index /\ <<product, category>> \in DOMAIN categoryIndex
             -> categoryIndex[<<product, category>>]
      [] <<product, category, service>> \notin DOMAIN index /\ <<product, category>> \notin DOMAIN categoryIndex
             /\ product \in DOMAIN productIndex -> productIndex[product]
      [] OTHER -> allRules

GetRulesByProduct(product) == At(productIndex, product)
GetRulesByCategory(category) == UNION {Range(categoryIndex[k]) : k \in {j \in DOMAIN categoryIndex : j[2] = category}}

(* The port's own GetRules looks at the engine's slice; a filter that is not
   given is None or {}. *)
PortGetRules(product, category, level, ids, tags) ==
    Chosen(rules, {r \in Rules :
        /\ product \in {None, r.product} /\ category \in {None, r.category} /\ level \in {None, r.level}
        /\ ids = {} \/ r.id \in ids
        /\ tags \subseteq r.tags})

(***************************************************************************)
(* Until a rule is removed the tables hold the engine's rules and nothing  *)
(* else, each once and in order, however loading and adding mix: a rule    *)
(* is found through the most exact table that has a key for it.            *)
(***************************************************************************)
IndexAgrees ==
    removed = {} =>
        /\ allRules = rules /\ total = Len(rules)
        /\ \A r \in Range(rules) :
               /\ index[buildKey(r)] = Chosen(rules, {s \in Rules : buildKey(s) = buildKey(r)})
               /\ InProduct(r) => GetRulesByProduct(r.product) = PortGetRules(r.product, None, None, {}, {})
               /\ InCategory(r) => r \in GetRulesByCategory(r.category)

(* A rule that was removed is proposed for no event any more.  It does not
   hold: removeFromSlice changes a local variable. *)
RemovedIsGone ==
    \A r \in Rules : r.id \in removed /\ ~Has(rules, r.id) /\ InProduct(r) =>
        ~Has(GetRules(r.product, Star(r.category), Star(r.service)), r.id)
=============================================================================
