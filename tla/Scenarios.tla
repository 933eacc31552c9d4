----------------------------- MODULE Scenarios -----------------------------
(***************************************************************************)
(* The scenario generator: from a rule's own conditions, fact sets meant   *)
(* to reach every leaf, both sides of every threshold, a missing field, a  *)
(* wrongly typed field and irrelevant facts. A scenario is [label, facts]; *)
(* a generated value is optional, absent when the field is left out. The   *)
(* seeded fuzz draws from the same values and is a choice among them.      *)
(***************************************************************************)
EXTENDS RuleRuntime

CONSTANT Different(_)   \* another word: the same one with a suffix

(* An integer literal that a signed JSON integer cannot hold is a float.   *)
DecimalJson(m, e) ==
  CASE e > 0 -> FloatFact(DecimalToF64(m, e))
    [] e <= 0 /\ m \in - ((MaxJsonInt + 1) \div 2) .. (MaxJsonInt \div 2) -> IntFact(m)
    [] OTHER -> FloatFact(F64(<<m, 0>>))

OperandToJsonPart(x, json) ==
  CASE IsDecimal(x) -> DecimalJson(x.m, x.e)
    [] IsList(x) -> List([i \in DOMAIN x.list |-> json[x.list[i]]])
    [] OTHER -> x

OperandToJson(v) == LET json[x \in Parts(v)] == OperandToJsonPart(x, json) IN json[v]

(* One unit in the last place away; the sum wraps at the largest mantissa. *)
Shift(operand, delta) ==
  LET wrapped == CASE operand.m + delta > MaxMantissa -> - MaxMantissa - 1
                   [] operand.m + delta < - MaxMantissa - 1 -> MaxMantissa
                   [] OTHER -> operand.m + delta
  IN  IF IsDecimal(operand) THEN DecimalJson(wrapped, operand.e)
                            ELSE OperandToJson(operand)

DifferentFrom(operand) ==
  CASE IsStr(operand) -> Str(Different(operand.str))
    [] IsBool(operand) -> Bool(~ operand.bool)
    [] IsDecimal(operand) -> Shift(operand, 1)
    [] IsList(operand) -> Str(Word("__NOMATCH__"))

NonMember == Str(Word("__NOT_IN_SET__"))

FirstMember(operand) ==
  IF IsList(operand) /\ operand.list # <<>>
  THEN OperandToJson(operand.list[1]) ELSE NonMember

(* Mutant: the threshold itself is taken to exceed the threshold.          *)
ValueTrueAtThreshold(c) ==
  CASE c.operator \in {"==", ">=", "<=", ">", "<"} -> {OperandToJson(c.value)}
    [] c.operator = "!=" -> {DifferentFrom(c.value)}
    [] c.operator = "in" -> {FirstMember(c.value)}
    [] c.operator = "not_in" -> {NonMember}
    [] c.operator = "exists" -> {Str(Word("present"))}

(* A value for the field of c meant to make it true.                       *)
ValueTrue(c) ==
  CASE c.operator \in {"==", ">=", "<="} -> {OperandToJson(c.value)}
    [] c.operator = "!=" -> {DifferentFrom(c.value)}
    [] c.operator = "in" -> {FirstMember(c.value)}
    [] c.operator = "not_in" -> {NonMember}
    [] c.operator = ">" -> {Shift(c.value, 1)}
    [] c.operator = "<" -> {Shift(c.value, -1)}
    [] c.operator = "exists" -> {Str(Word("present"))}

(* A value, or its absence, meant to make it false.                        *)
ValueFalse(c) ==
  CASE c.operator = "==" -> {DifferentFrom(c.value)}
    [] c.operator \in {"!=", ">", "<"} -> {OperandToJson(c.value)}
    [] c.operator = "in" -> {NonMember}
    [] c.operator = "not_in" -> {FirstMember(c.value)}
    [] c.operator = ">=" -> {Shift(c.value, -1)}
    [] c.operator = "<=" -> {Shift(c.value, 1)}
    [] c.operator = "exists" -> {}

WrongType(operand) ==
  IF IsDecimal(operand) THEN Str(Word("not_a_number")) ELSE Bool(TRUE)

(* One of five draws, two of them the same.                                *)
FuzzValue(draw, c) ==
  << ValueTrue(c), ValueFalse(c), {}, {WrongType(c.value)}, ValueTrue(c) >>[draw]

-----------------------------------------------------------------------------
(* Pairs are [field, gen], gen an optional value.                          *)

Pair(field, gen) == [field |-> field, gen |-> gen]

CollectTree(entry) ==
  LET conditions[x \in Parts(entry)] ==
        IF IsLeaf(x) THEN <<>>
        ELSE <<x.condition>> \o conditions[x.true_branch] \o conditions[x.false_branch]
  IN  conditions[entry]

AppliesChecks(rule) ==
  FlattenSeq(SetToSeq({ Flatten(g) : g \in rule.applies_if }))

(* Every condition of the rule.                                            *)
Catalog(rule) == AppliesChecks(rule) \o CollectTree(rule.decision_tree)

(* The fields some membership condition tests.                             *)
InFields(rule) ==
  { c.field : c \in { d \in ToSet(Catalog(rule)) : d.operator \in {"in", "not_in"} } }

TruePairs(checks) ==
  [i \in DOMAIN checks |-> Pair(checks[i].field, ValueTrue(checks[i]))]

(* Facts under which the rule applies, or does not: one false check is     *)
(* enough where all must hold.                                             *)
ApplicabilityPairs(rule, satisfy) ==
  LET checks == AppliesChecks(rule)
      all    == \A g \in rule.applies_if : GroupMode(g) = "all"
      false  == [i \in DOMAIN checks |-> Pair(checks[i].field, ValueFalse(checks[i]))]
  IN  CASE checks = <<>> -> <<>>
        [] satisfy /\ checks # <<>> -> TruePairs(checks)
        [] ~ satisfy /\ checks # <<>> -> IF all THEN <<false[1]>> ELSE false

(* Every way to a leaf: the pairs that lead there and the leaf.            *)
EnumeratePaths(entry) ==
  LET paths[x \in Parts(entry)] ==
        LET c == x.condition
            through(value, rest) ==
              { [p EXCEPT !.pairs = <<Pair(c.field, value)>> \o @] : p \in rest }
        IN  IF IsLeaf(x) THEN {[pairs |-> <<>>, leaf |-> x]}
            ELSE through(ValueTrue(c), paths[x.true_branch]) \cup
                 through(ValueFalse(c), paths[x.false_branch])
  IN  paths[entry]

(* The last pair for a field counts.                                       *)
BuildFacts(pairs) ==
  LET last(f) == pairs[Max({ i \in DOMAIN pairs : pairs[i].field = f })]
      fields  == { f \in { pairs[i].field : i \in DOMAIN pairs } : last(f).gen # {} }
  IN  [f \in fields |-> CHOOSE v \in last(f).gen : TRUE]

Thresholds(rule) ==
  { c \in ToSet(Catalog(rule)) : c.operator \in {">", "<", ">=", "<="} }

Scenario(label, pairs) == [label |-> label, facts |-> BuildFacts(pairs)]

(* One unit below a threshold, on it and one unit above it.                *)
BoundaryScenarios(rule, anchor) ==
  { Scenario("boundary", Append(anchor, Pair(c.field, {Shift(c.value, delta)}))) :
      c \in Thresholds(rule), delta \in {-1, 0, 1} }

(* generate_for_rule, its fuzz as every draw the values allow.             *)
GenerateForRule(rule) ==
  LET applies == ApplicabilityPairs(rule, TRUE)
      anchor  == applies \o TruePairs(Catalog(rule))
  IN  { Scenario("path", applies \o p.pairs) :
          p \in EnumeratePaths(rule.decision_tree) }
      \cup { Scenario("not_applicable", ApplicabilityPairs(rule, FALSE)) :
               g \in rule.applies_if }
      \cup BoundaryScenarios(rule, anchor)
      \cup (IF Catalog(rule) = <<>> THEN {}
            ELSE LET c == Catalog(rule)[1]
                 IN  { Scenario("missing", Append(anchor, Pair(c.field, {}))),
                       Scenario("wrong_type",
                         Append(anchor, Pair(c.field, {WrongType(c.value)}))) })
      \cup { Scenario("irrelevant_facts",
               anchor \o << Pair(Word("__irrelevant_a"), {Bool(TRUE)}),
                            Pair(Word("__irrelevant_b"), {Str(Word("noise"))}) >>) }
      \cup { Scenario("fuzz", [i \in DOMAIN Catalog(rule) |->
                 Pair(Catalog(rule)[i].field, FuzzValue(draws[i], Catalog(rule)[i]))]) :
               draws \in [DOMAIN Catalog(rule) -> 1..4] }

=============================================================================
