----------------------------- MODULE RuleChecks -----------------------------
(***************************************************************************)
(* The verification passes a rule set goes through before it is assembled: *)
(* T0 (structure), T1 (source coverage and interpretation notes), T4       *)
(* (conflicts between two rules) and T5 (lint); and the reading of an      *)
(* intent specification, which has no such pass.                           *)
(*                                                                         *)
(* A finding is [rule, code, blocking] and a conflict [class, pair], pair  *)
(* the positions of the two rules.                                         *)
(***************************************************************************)
EXTENDS RuleParser

CONSTANT Spaced   \* the words with white space inside

Finding(rule, code, blocking) ==
  [rule |-> rule.rule_id, code |-> code, blocking |-> blocking]

LeavesOf(entry) == { x \in Parts(entry) : IsLeaf(x) }

-----------------------------------------------------------------------------
(* T0.                                                                     *)

GroupIsEmpty(g) == ~ NonEmpty(g.all) /\ ~ NonEmpty(g.any)

CheckT0(rule) ==
  LET codes == { c \in {"empty_rule_id", "empty_version", "empty_source_document",
                        "empty_applies_if", "empty_result"} :
                   CASE c = "empty_rule_id" -> IsBlank(rule.rule_id)
                     [] c = "empty_version" -> IsBlank(rule.rule_version)
                     [] c = "empty_source_document" -> IsBlank(rule.document_id)
                     [] c = "empty_applies_if" ->
                          \E g \in rule.applies_if : GroupIsEmpty(g)
                     [] c = "empty_result" ->
                          \E leaf \in LeavesOf(rule.decision_tree) : IsBlank(leaf.result) }
  IN  { Finding(rule, c, TRUE) : c \in codes }

-----------------------------------------------------------------------------
(* T1. No part of a tree carries a span of its own, so a rule is covered   *)
(* by its source or not at all.                                            *)

IsThreshold(c) ==
  \/ c.operator \in {">", "<", ">=", "<="} /\ IsDecimal(c.value)
  \/ c.operator = "not_in"

GroupHasThreshold(g) == \E x \in Parts(g) : ~ IsGroup(x) /\ IsThreshold(x)

TreeHasThreshold(entry) ==
  \E x \in Parts(entry) : ~ IsLeaf(x) /\ IsThreshold(x.condition)

RuleHasThresholdOrException(rule) ==
  \/ \E g \in rule.applies_if : GroupHasThreshold(g)
  \/ TreeHasThreshold(rule.decision_tree)

CheckT1(rule) ==
  LET codes == { c \in {"source_coverage", "missing_interpretation_notes"} :
                   CASE c = "source_coverage" -> IsBlank(rule.document_id)
                     [] c = "missing_interpretation_notes" ->
                          /\ rule.interpretation_notes = {}
                          /\ RuleHasThresholdOrException(rule) }
  IN  { Finding(rule, c, TRUE) : c \in codes }

-----------------------------------------------------------------------------
(* T5: advice, but for a rule id of several words.                         *)

HasUnannotatedTerminalLeaf(entry) ==
  \E leaf \in LeavesOf(entry) : /\ ~ NonEmpty(leaf.obligations)
                                /\ \A n \in leaf.notes : IsBlank(n)

CheckT5(rule) ==
  LET advice == { c \in {"missing_description", "missing_tags", "unannotated_leaf"} :
                    CASE c = "missing_description" ->
                           \A d \in rule.description : IsBlank(d)
                      [] c = "missing_tags" -> ~ NonEmpty(rule.tags)
                      [] c = "unannotated_leaf" ->
                           HasUnannotatedTerminalLeaf(rule.decision_tree) }
  IN  { Finding(rule, c, FALSE) : c \in advice }
      \cup (IF rule.rule_id \in { Word(w) : w \in Spaced }
            THEN {Finding(rule, "rule_id_whitespace", TRUE)} ELSE {})

-----------------------------------------------------------------------------
(* T4. The values a rule's premises allow are compared as texts: a decimal *)
(* by its mantissa and scale, not by its value.                            *)

StringifyPart(x, text) ==
  CASE IsStr(x) -> x.str
    [] IsBool(x) -> Word(IF x.bool THEN "true" ELSE "false")
    [] IsDecimal(x) -> [mantissa_scale |-> <<x.m, x.e>>]
    [] IsList(x) -> [joined |-> [i \in DOMAIN x.list |-> text[x.list[i]]]]

Stringify(v) == LET text[x \in Parts(v)] == StringifyPart(x, text) IN text[v]

(* The top-level `all` conditions that pin a field to some values.         *)
PremiseConditions(rule) ==
  LET items == UNION { ToSet(s) : s \in UNION { g.all : g \in rule.applies_if } }
  IN  { c \in items : /\ ~ IsGroup(c)
                      /\ \/ c.operator = "=="
                         \/ c.operator = "in" /\ IsList(c.value) }

(* Mutant: only equalities are taken for premises.                         *)
ExtractPremisesEqOnly(rule) ==
  LET premises == { c \in PremiseConditions(rule) : c.operator = "==" }
  IN  [f \in { c.field : c \in premises } |->
         { Stringify(c.value) : c \in { d \in premises : d.field = f } }]

ExtractPremises(rule) ==
  LET premises == PremiseConditions(rule)
      values(c) == IF c.operator = "==" THEN {Stringify(c.value)}
                   ELSE { Stringify(v) : v \in ToSet(c.value.list) }
  IN  [f \in { c.field : c \in premises } |->
         UNION { values(c) : c \in { d \in premises : d.field = f } }]

(* Some field is pinned by both, and no such field to disjoint values.     *)
ScopesOverlap(a, b) ==
  LET shared == DOMAIN a \cap DOMAIN b
  IN  /\ shared # {}
      /\ \A f \in shared : a[f] \cap b[f] # {}

(* The branch a path last takes at a condition.                            *)
Assigned(path, cond) ==
  LET at == { i \in DOMAIN path.branches : path.branches[i].cond = cond }
  IN  path.branches[Max(at)].taken

PathsConsistent(pa, pb) ==
  \A i \in DOMAIN pb.branches :
    LET cond == pb.branches[i].cond
    IN  (\E k \in DOMAIN pa.branches : pa.branches[k].cond = cond)
          => Assigned(pa, cond) = pb.branches[i].taken

SharedScenario(pa, pb) ==
  LET fields(p) == { br.cond.field : br \in ToSet(p.branches) }
  IN  \/ fields(pa) \cap fields(pb) # {}
      \/ fields(pa) = {} /\ fields(pb) = {}

Contradiction(a, b) ==
  \E pa \in a.decision_paths, pb \in b.decision_paths :
    /\ pa.outcome.result # pb.outcome.result
    /\ PathsConsistent(pa, pb) /\ SharedScenario(pa, pb)

(* Mutant: a window that ends the day the other begins overlaps it.        *)
WindowsOverlapClosed(a, b) ==
  LET end(w) == IF w.to = {} THEN <<MaxYear, 12, 31>> ELSE CHOOSE d \in w.to : TRUE
  IN  \E wa \in a, wb \in b : /\ ~ DateBefore(end(wb), wa.from)
                              /\ ~ DateBefore(end(wa), wb.from)

(* Both rules must have a window.                                          *)
WindowsOverlap(a, b) ==
  LET end(w) == IF w.to = {} THEN <<MaxYear, 12, 31>> ELSE CHOOSE d \in w.to : TRUE
  IN  \E wa \in a, wb \in b : DateBefore(wa.from, end(wb)) /\ DateBefore(wb.from, end(wa))

(* The classes of conflict between two rules.                              *)
Between(ra, rb) ==
  LET a == SemanticRule(ra)
      b == SemanticRule(rb)
  IN  IF a.applicability = b.applicability /\ a.decision_paths = b.decision_paths
      THEN {"DuplicateRule"}
      ELSE { class \in {"ContradictoryOutcome", "OverlappingScope", "TemporalOverlap"} :
               /\ ScopesOverlap(ExtractPremises(ra), ExtractPremises(rb))
               /\ CASE class = "ContradictoryOutcome" -> Contradiction(a, b)
                    [] class = "OverlappingScope" -> ~ Contradiction(a, b)
                    [] class = "TemporalOverlap" -> WindowsOverlap(a.effective, b.effective) }

DetectConflicts(rules) ==
  UNION { { [class |-> c, pair |-> p] : c \in Between(rules[p[1]], rules[p[2]]) } :
            p \in { p \in (DOMAIN rules) \X (DOMAIN rules) : p[1] < p[2] } }

DefaultSeverity(class) ==
  CASE class = "ContradictoryOutcome" -> "Blocking"
    [] class \in {"OverlappingScope", "TemporalOverlap"} -> "ReviewRequired"
    [] class = "DuplicateRule" -> "Advisory"

-----------------------------------------------------------------------------
Verify(rules) ==
  [ findings |-> UNION { CheckT0(r) \cup CheckT1(r) \cup CheckT5(r) : r \in ToSet(rules) },
    conflicts |-> DetectConflicts(rules) ]

(* Mutant: conflicts are reported and not acted on.                        *)
HasBlockingFindings(report) == \E f \in report.findings : f.blocking

HasBlocking(report) ==
  \/ \E f \in report.findings : f.blocking
  \/ \E c \in report.conflicts : DefaultSeverity(c.class) = "Blocking"

-----------------------------------------------------------------------------
(* An intent specification: criteria [name, threshold, volatility], read   *)
(* from a document whose thresholds are texts.                             *)

ParseVolatility(word) == IF word \in {"stable", "volatile"} THEN {word} ELSE {}

IsIntent(document) == "criteria" \in DOMAIN document

ParseCriterion(c) ==
  { [ name |-> c.name, threshold |-> t, volatility |-> v ] :
      t \in ParseThreshold(c.threshold), v \in ParseVolatility(c.volatility) }

ParseIntentSpec(input) ==
  IF ~ IsIntent(input) \/ input.criteria = <<>> THEN {}
  ELSE { [input EXCEPT !.criteria = criteria] :
           criteria \in AllOf([i \in DOMAIN input.criteria |->
                                 ParseCriterion(input.criteria[i])]) }

=============================================================================
