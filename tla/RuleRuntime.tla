---------------------------- MODULE RuleRuntime ----------------------------
(***************************************************************************)
(* The preview runtime: fact values, the coercions and comparisons it      *)
(* takes from Python, and the evaluation of one rule against a set of      *)
(* facts. Evaluation is total.                                             *)
(*                                                                         *)
(* Facts are a function from fields to fact values. Integers and floats    *)
(* are kept apart, as JSON literals are: [int |-> n], [float |-> <<m, e>>].*)
(* A float is an f64 already; an integer becomes one when it is compared.  *)
(***************************************************************************)
EXTENDS RuleForm

CONSTANT TextLess(_, _)  \* the byte order of texts

Null     == [null |-> TRUE]
IntFact(n) == [int |-> n]
FloatFact(d) == [float |-> d]

IsPresent(v) == v # Null

(* A JSON value as a fact: an integer literal past the exact range becomes *)
(* a float, an object its own text.                                        *)
FromJsonPart(x, fact) ==
  CASE "int" \in DOMAIN x ->
         IF x.int \in - ((MaxJsonInt + 1) \div 2) .. MaxJsonInt
         THEN x ELSE FloatFact(F64(<<x.int, 0>>))
    [] "list" \in DOMAIN x -> List([i \in DOMAIN x.list |-> fact[x.list[i]]])
    [] "object" \in DOMAIN x -> Str([json |-> x.object])
    [] OTHER -> x

FromJson(json) == LET fact[x \in Parts(json)] == FromJsonPart(x, fact) IN fact[json]

(* The payload must be an object; here [object |-> field -> value].        *)
FactsFromJson(json) ==
  IF "object" \in DOMAIN json
  THEN {[f \in DOMAIN json.object |-> FromJson(json.object[f])]} ELSE {}

Lookup(facts, field) == IF field \in DOMAIN facts THEN facts[field] ELSE Null

(* A value as a number, where it is one: a bool is 0 or 1.                 *)
AsNumber(v) ==
  CASE "int" \in DOMAIN v -> {F64(<<v.int, 0>>)}
    [] "float" \in DOMAIN v -> {v.float}
    [] IsBool(v) -> {<<IF v.bool THEN 1 ELSE 0, 0>>}
    [] OTHER -> {}

OperandAsNumber(v) ==
  CASE IsDecimal(v) -> {DecimalToF64(v.m, v.e)}
    [] IsBool(v) -> {<<IF v.bool THEN 1 ELSE 0, 0>>}
    [] OTHER -> {}

-----------------------------------------------------------------------------
(* Python's str(): a float shows at least one digit after its point.       *)

PythonFloatStr(d) ==
  LET s == Stripped(d[1], d[2])
  IN  Number(IF s[2] = 0 THEN <<s[1] * 10, 1>> ELSE s)

PythonBool(b) == Word(IF b THEN "True" ELSE "False")

Repr(isStr, text) == IF isStr THEN [quoted |-> text] ELSE text

(* A list shows its items, given what each of them shows.                  *)
ReprList(items, str) ==
  [repr |-> [i \in DOMAIN items |-> Repr(IsStr(items[i]), str[items[i]])]]

PythonStrFactPart(x, str) ==
  CASE IsStr(x) -> x.str
    [] IsBool(x) -> PythonBool(x.bool)
    [] "int" \in DOMAIN x -> Number(<<x.int, 0>>)
    [] "float" \in DOMAIN x -> PythonFloatStr(x.float)
    [] IsList(x) -> ReprList(x.list, str)
    [] OTHER -> Word("None")

PythonStrFact(v) == LET str[x \in Parts(v)] == PythonStrFactPart(x, str) IN str[v]

PythonStrScalarPart(x, str) ==
  CASE IsStr(x) -> x.str
    [] IsBool(x) -> PythonBool(x.bool)
    [] IsDecimal(x) -> IF x.e <= 0 THEN DecimalToString(x.m, x.e)
                       ELSE PythonFloatStr(DecimalToF64(x.m, x.e))
    [] IsList(x) -> ReprList(x.list, str)

PythonStrScalar(v) == LET str[x \in Parts(v)] == PythonStrScalarPart(x, str) IN str[v]

-----------------------------------------------------------------------------
(* Comparisons. A pair of types Python cannot order compares as false.     *)

EvalEq(actual, operand) ==
  LET equals[x \in Parts(actual)] ==
        { y \in Parts(operand) :
            IF AsNumber(x) # {} /\ OperandAsNumber(y) # {}
            THEN \A a \in AsNumber(x), b \in OperandAsNumber(y) : SameNumber(a, b)
            ELSE \/ IsStr(x) /\ IsStr(y) /\ x.str = y.str
                 \/ /\ IsList(x) /\ IsList(y) /\ Len(x.list) = Len(y.list)
                    /\ \A i \in DOMAIN x.list : y.list[i] \in equals[x.list[i]] }
  IN  operand \in equals[actual]

ApplyOrd(less, greater, op) ==
  CASE op = ">"  -> greater
    [] op = "<"  -> less
    [] op = ">=" -> ~ less
    [] op = "<=" -> ~ greater

EvalOrd(actual, operand, op) ==
  \/ \E a \in AsNumber(actual), b \in OperandAsNumber(operand) :
       ApplyOrd(LessNumber(a, b), LessNumber(b, a), op)
  \/ /\ IsStr(actual) /\ IsStr(operand)
     /\ ApplyOrd(TextLess(actual.str, operand.str),
                 TextLess(operand.str, actual.str), op)

EvalIn(actual, operand) ==
  /\ IsList(operand)
  /\ \E i \in DOMAIN operand.list :
       PythonStrScalar(operand.list[i]) = PythonStrFact(actual)

(* One condition: actual <op> operand.                                     *)
Compare(actual, op, operand) ==
  CASE op = "==" -> EvalEq(actual, operand)
    [] op = "!=" -> ~ EvalEq(actual, operand)
    [] op = "in" -> EvalIn(actual, operand)
    [] op = "not_in" -> ~ EvalIn(actual, operand)
    [] op = "exists" -> IsPresent(actual)
    [] OTHER -> EvalOrd(actual, operand, op)

Holds(c, facts) == Compare(Lookup(facts, c.field), c.operator, c.value)

NormStep(c, facts) ==
  [field |-> c.field, operator |-> c.operator, result |-> Holds(c, facts)]

-----------------------------------------------------------------------------
(* Applicability. Nested groups are spliced in place and their own mode is *)
(* dropped, as the executor the runtime mirrors does.                      *)

NonEmpty(opt) == \E s \in opt : s # <<>>

GroupMode(g) == IF NonEmpty(g.all) THEN "all" ELSE "any"

(* Mutant: conditions of nested groups are left out.                       *)
FlattenTopOnly(g) ==
  LET items == IF NonEmpty(g.all) THEN CHOOSE s \in g.all : TRUE
               ELSE IF NonEmpty(g.any) THEN CHOOSE s \in g.any : TRUE ELSE <<>>
  IN  SelectSeq(items, LAMBDA x : ~ IsGroup(x))

Flatten(g) ==
  LET flat[x \in Parts(g)] ==
        LET items == IF NonEmpty(x.all) THEN CHOOSE s \in x.all : TRUE
                     ELSE IF NonEmpty(x.any) THEN CHOOSE s \in x.any : TRUE ELSE <<>>
        IN  IF IsGroup(x) THEN FlattenSeq([i \in DOMAIN items |-> flat[items[i]]])
                          ELSE <<x>>
  IN  flat[g]

(* The checks in order, up to the one that settles the question.           *)
Applicability(applies_if, facts) ==
  LET checks  == FlattenSeq(SetToSeq({ Flatten(g) : g \in applies_if }))
      all     == \A g \in applies_if : GroupMode(g) = "all"
      settles == { i \in DOMAIN checks : Holds(checks[i], facts) # all }
      last    == IF settles = {} THEN Len(checks) ELSE Min(settles)
  IN  [ holds |-> checks = <<>> \/ (settles = {}) = all,
        steps |-> [i \in 1..last |-> NormStep(checks[i], facts)] ]

(* Mutant: the branches are swapped at the last node.                      *)
WalkSwapped(entry, facts) ==
  LET walk[x \in Parts(entry)] ==
        IF IsLeaf(x) THEN [leaf |-> x, path |-> <<>>]
        ELSE LET last == IsLeaf(x.true_branch) /\ IsLeaf(x.false_branch)
                 next == walk[IF Holds(x.condition, facts) # last
                              THEN x.true_branch ELSE x.false_branch]
             IN  [next EXCEPT !.path = <<NormStep(x.condition, facts)>> \o @]
  IN  walk[entry]

(* The leaf the decision tree leads to, with the branches taken.           *)
Walk(entry, facts) ==
  LET walk[x \in Parts(entry)] ==
        IF IsLeaf(x) THEN [leaf |-> x, path |-> <<>>]
        ELSE LET next == walk[IF Holds(x.condition, facts)
                              THEN x.true_branch ELSE x.false_branch]
             IN  [next EXCEPT !.path = <<NormStep(x.condition, facts)>> \o @]
  IN  walk[entry]

(* A rule that does not apply has no decision, and its tree is not walked. *)
Evaluation(rule, app, walk) ==
  IF app.holds
  THEN [ rule_id |-> rule.rule_id, applicable |-> TRUE,
         decision |-> {walk.leaf.result},
         obligations |-> UNION { ToSet(s) : s \in walk.leaf.obligations },
         applicability_steps |-> app.steps, decision_path |-> walk.path ]
  ELSE [ rule_id |-> rule.rule_id, applicable |-> FALSE, decision |-> {},
         obligations |-> {}, applicability_steps |-> app.steps,
         decision_path |-> <<>> ]

(* The whole evaluation, its obligations as the set of ids compared.       *)
Evaluate(rule, facts) ==
  Evaluation(rule, Applicability(rule.applies_if, facts), Walk(rule.decision_tree, facts))

=============================================================================
