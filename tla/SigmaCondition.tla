--------------------------- MODULE SigmaCondition ---------------------------
(***************************************************************************)
(* The condition of a Sigma rule: how the rule parser accepts it, the      *)
(* condition parser turns it into a tree and the engine evaluates the tree *)
(* over the selections that matched.  A condition is a sequence of words;  *)
(* other is a word with a character the tokenizer does not know, such as   *)
(* the pipe of an aggregation, for which it answers with its end token.    *)
(***************************************************************************)
EXTENDS Naturals, Sequences, FiniteSets

CONSTANTS
    Names,        \* the selections of the rule, each a word
    Prefixed,     \* those the pattern "sel*" stands for
    MaxWords,     \* bounds of the model: of any sequence of words,
    MaxLong       \* and of those built up from one that parses

Keyword == {"and", "or", "not", "of", "all", "any", "them"}
Ident == Names \cup {"sel*", "absent"}     \* absent is no selection of the rule
Words == Keyword \cup Ident \cup {"(", ")", "1", "2", "other"}

VARIABLE condition
vars == <<condition>>

TypeOK == condition \in Seq(Words) /\ Len(condition) <= MaxLong

Init == condition = <<>>

-----------------------------------------------------------------------------
(* Tokenizer.NextToken: past the end, and at an unknown character, the end. *)
Token(c, i) == IF i > Len(c) \/ c[i] = "other" THEN "end" ELSE c[i]

(* A node stands for the sets of matching selections it evaluates to true for. *)
Nodes == SUBSET SUBSET Names

Failed == [ok |-> FALSE]
Parsed(node, i) == [ok |-> TRUE, node |-> node, next |-> i]

(* SelectionNode.Evaluate: what is no selection of the rule has not matched. *)
Selection(name) == {matched \in SUBSET Names : name \in matched}

(* expandPattern: the names the pattern's regular expression matches; "them" is the pattern "*". *)
ExpandPattern(p) == CASE p = "them" -> Names [] p = "sel*" -> Prefixed [] OTHER -> {p} \cap Names

Count(word) == IF word = "2" THEN 2 ELSE 1

(* PatternNode.Evaluate, of a pattern after "all of", "any of" or a number. *)
Pattern(first, keys) ==
    {matched \in SUBSET Names :
        keys # {} /\ IF first = "all" THEN keys \subseteq matched
                     ELSE Cardinality(keys \cap matched) >= Count(first)}

(* parseAggregation, parseAllOf and parseAnyOf: "of" and its target, from i on. *)
ParseOf(c, i, first) ==
    IF Token(c, i) = "of" /\ Token(c, i + 1) \in Ident \cup {"them"}
    THEN Parsed(Pattern(first, ExpandPattern(Token(c, i + 1))), i + 2)
    ELSE Failed

(* The functions of the parser call each other through parse: the function
   called, the word it starts at, and the node its loop has built so far. *)

Then(result, parse, fn) == IF result.ok THEN parse[<<fn, result.next, result.node>>] ELSE Failed

ParseExpression(c, i, parse) == Then(parse[<<"term", i, {}>>], parse, "or")

MoreTerms(c, i, left, parse) ==
    IF Token(c, i) # "or" THEN Parsed(left, i)
    ELSE LET right == parse[<<"term", i + 1, {}>>] IN
         IF right.ok THEN parse[<<"or", right.next, left \cup right.node>>] ELSE Failed

ParseTerm(c, i, parse) == Then(parse[<<"factor", i, {}>>], parse, "and")

MoreFactors(c, i, left, parse) ==
    IF Token(c, i) # "and" THEN Parsed(left, i)
    ELSE LET right == parse[<<"factor", i + 1, {}>>] IN
         IF right.ok THEN parse[<<"and", right.next, left \cap right.node>>] ELSE Failed

Negated(child) == IF child.ok THEN Parsed((SUBSET Names) \ child.node, child.next) ELSE Failed

Closed(c, inner) ==
    IF inner.ok /\ Token(c, inner.next) = ")" THEN Parsed(inner.node, inner.next + 1) ELSE Failed

(* Faulty variant: "not" takes everything up to the next "or". *)
ParseNotLoose(i, parse) == Negated(parse[<<"term", i + 1, {}>>])

ParseNot(i, parse) == Negated(parse[<<"factor", i + 1, {}>>])

ParseFactor(c, i, parse) ==
    LET t == Token(c, i) IN
    CASE t = "not" -> ParseNot(i, parse)
      [] t = "(" -> Closed(c, parse[<<"expression", i + 1, {}>>])
      [] t \in {"1", "2", "all", "any"} -> ParseOf(c, i + 1, t)
      [] t \in Ident -> Parsed(Selection(t), i + 1)
      [] OTHER -> Failed

Calls == {"expression", "or", "term", "and", "factor"}

Parser(c) ==
    LET parse[call \in Calls \X (1 .. Len(c) + 1) \X Nodes] ==
            LET i == call[2] left == call[3] IN
            CASE call[1] = "expression" -> ParseExpression(c, i, parse)
              [] call[1] = "or" -> MoreTerms(c, i, left, parse)
              [] call[1] = "term" -> ParseTerm(c, i, parse)
              [] call[1] = "and" -> MoreFactors(c, i, left, parse)
              [] call[1] = "factor" -> ParseFactor(c, i, parse)
    IN parse

(* Parse: the empty condition is a selection called true; something left over is an error. *)
Parse(c) ==
    IF c = <<>> THEN Parsed(Selection("true"), 1)
    ELSE LET e == Parser(c)[<<"expression", 1, {}>>] IN
         IF e.ok /\ Token(c, e.next) = "end" THEN e ELSE Failed

(* extractSelectionNames: every word that is no keyword, with no star in it. *)
ExtractSelectionNames(c) ==
    {c[i] : i \in {j \in 1 .. Len(c) : c[j] \notin {"and", "or", "not", "of", "all", "them", "(", ")", "sel*"}}}

(* Detection.Validate, which every rule file has to pass. *)
Validate(c) == c # <<>> /\ ExtractSelectionNames(c) \subseteq Names

(* evaluateRuleForAggregation: a condition that does not parse matches nothing. *)
ConditionHolds(c, matched) ==
    LET p == Parse(c) IN Validate(c) /\ p.ok /\ matched \in p.node

-----------------------------------------------------------------------------
(* The conditions enumerated: every short sequence of words, and longer    *)
(* ones built from a condition that parses.                                *)

AddWord(w) ==
    /\ Len(condition) < MaxWords
    /\ condition' = Append(condition, w)

Build ==
    /\ Parse(condition).ok /\ Len(condition) <= MaxLong - 2
    /\ \/ condition' = <<"not">> \o condition
       \/ condition' = <<"(">> \o condition \o <<")">>
       \/ \E op \in {"and", "or"}, n \in Names :
             condition' \in {condition \o <<op, n>>, <<n, op>> \o condition}

Next == (\E w \in Words : AddWord(w)) \/ Build
Spec == Init /\ [][Next]_vars

-----------------------------------------------------------------------------
(* What a condition means, by its grammar: "not" binds closer than "and",  *)
(* "and" closer than "or", both associate to the left.                     *)

(* The places from i to j where the word stands outside parentheses. *)
Outside(c, i, j, word) ==
    {k \in i .. j : c[k] = word /\ Cardinality({n \in i .. k : c[n] = "("}) = Cardinality({n \in i .. k : c[n] = ")"})}

Last(S) == CHOOSE i \in S : \A j \in S : j <= i

Target(word) == CASE word = "them" -> Names [] word = "sel*" -> Prefixed [] OTHER -> {word} \cap Names

OfMeans(first, keys) ==
    CASE first \in {"1", "any"} -> {{m \in SUBSET Names : keys \cap m # {}}}
      [] first = "2" -> {{m \in SUBSET Names : Cardinality(keys \cap m) >= 2}}
      [] first = "all" -> {{m \in SUBSET Names : keys # {} /\ keys \subseteq m}}

(* What the words from i to j mean without "and" or "or" outside parentheses,
   where sense gives the meaning of fewer words. *)
SimpleMeans(c, i, j, sense) ==
    CASE i = j /\ c[i] \in Ident -> {{m \in SUBSET Names : c[i] \in m}}
      [] i < j /\ c[i] = "not" -> {(SUBSET Names) \ x : x \in sense[<<i + 1, j>>]}
      [] i + 1 < j /\ c[i] = "(" /\ c[j] = ")" -> sense[<<i + 1, j - 1>>]
      [] i + 2 = j /\ c[i] \in {"1", "2", "all", "any"} /\ c[i + 1] = "of" /\ c[j] \in Ident \cup {"them"} ->
             OfMeans(c[i], Target(c[j]))
      [] OTHER -> {}

(* The words split at the last "or" outside parentheses, or else at the last "and". *)
Split(c, i, j, sense) ==
    LET ors == Outside(c, i, j, "or") ands == Outside(c, i, j, "and") IN
    IF i > j THEN {}
    ELSE IF ors # {} THEN {x \cup y : x \in sense[<<i, Last(ors) - 1>>], y \in sense[<<Last(ors) + 1, j>>]}
    ELSE IF ands # {} THEN {x \cap y : x \in sense[<<i, Last(ands) - 1>>], y \in sense[<<Last(ands) + 1, j>>]}
    ELSE SimpleMeans(c, i, j, sense)

(* The nodes that the grammar gives the words from i to j: one, or none when
   they are no sentence of it. *)
Senses(c) ==
    LET sense[span \in (1 .. Len(c) + 1) \X (0 .. Len(c))] == Split(c, span[1], span[2], sense)
    IN  sense

Means(c) == Senses(c)[<<1, Len(c)>>]

(***************************************************************************)
(* A condition that a rule file passes validation with holds exactly when  *)
(* the grammar says so, for every set of selections that matched, and what *)
(* is no sentence of the grammar never holds: precedence, parentheses, the *)
(* loops of parseExpression and parseTerm, and the quantifiers.            *)
(***************************************************************************)
ParseAgrees ==
    Validate(condition) =>
        \A matched \in SUBSET Names :
            ConditionHolds(condition, matched) <=> \E node \in Means(condition) : matched \in node

(***************************************************************************)
(* Not so: the condition parser is there for patterns "like 1 of           *)
(* selection_*" (condition_parser.go:236), by which a condition over       *)
(* selections of the rule that it parses is one that passes validation.    *)
(***************************************************************************)
ParsableIsValid ==
    condition # <<>> /\ Parse(condition).ok
        /\ (\A i \in 1 .. Len(condition) : condition[i] \notin {"absent", "other"})
    => Validate(condition)
=============================================================================
