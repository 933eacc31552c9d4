--------------------------- MODULE RuleProperties ---------------------------
(***************************************************************************)
(* What the rule pipeline promises: storing a rule set changes neither its *)
(* meaning nor its decisions and gives all its spellings one form, the     *)
(* conflict pass overlooks no pair of rules it can see, and generated      *)
(* scenarios go where they are meant to go.                                *)
(***************************************************************************)
EXTENDS RulePipeline

StoredRules == { item.rules : item \in { p \in stored : "rules" \in DOMAIN p } }

ConditionsOf(rule) == ToSet(Catalog(rule))

(* An intent specification is stored as it was parsed, with no encoder     *)
(* profile in between: its thresholds are canonical and stand for exactly  *)
(* the number the author wrote (compile.rs parse_decimal).                 *)
ThresholdsAreExact ==
  answer.what = "intent" =>
    \A i \in DOMAIN answer.spec.criteria :
      LET t == answer.spec.criteria[i].threshold
      IN  /\ DecimalIsCanonical(t.m, t.e)
          /\ SameNumber(<<t.m, t.e>>, doc.criteria[i].threshold.num)

(* What was stored can be read back, and means what its source means: the  *)
(* strict decoder accepts what the encoder made, and rule by rule the      *)
(* stored set and the compiled document have the same semantic form        *)
(* (semantic_diff finds nothing).                                          *)
MeaningSurvivesStoring ==
  \A rules \in StoredRules, source \in Compiled : \A i \in DOMAIN source :
    /\ RuleValid(rules[i])
    /\ SemanticDiff(SemanticRule(source[i]), SemanticRule(rules[i])) = {}

(* A membership list with a literal such as 1.0 anywhere in it, which has  *)
(* an integer's value and a float's text.                                  *)
ListsAnIntegerAsFloat(rule) ==
  \E c \in ConditionsOf(rule) :
    /\ c.operator \in {"in", "not_in"} /\ IsList(c.value)
    /\ \E v \in Parts(c.value) :
         IsDecimal(v) /\ v.e > 0 /\ Stripped(v.m, v.e)[2] = 0

(* A dry run against the stored payload decides as a dry run against its   *)
(* source, steps and obligations included, whatever the facts; membership  *)
(* lists with a literal like 1.0 excepted.                                 *)
DecisionsSurviveStoring ==
  answer.what = "evaluations" /\ answer.from = "hash" =>
    \A source \in Compiled : \A i \in DOMAIN source :
      \/ ListsAnIntegerAsFloat(source[i])
      \/ answer.evaluations[i] = Evaluate(source[i], answer.facts)

-----------------------------------------------------------------------------
(* One encoding. What differs between two rules only in how it was spelled *)
(* is stated here without the encoder: a number is itself whatever zeros   *)
(* follow its point, and tags come in any order. A function `alike` gives  *)
(* for each part of one rule the parts of the other that are alike.        *)

Itemwise(s, t, alike) == Len(s) = Len(t) /\ \A i \in DOMAIN s : t[i] \in alike[s[i]]

AlikeScalars(x, y, alike) ==
  CASE IsDecimal(x) -> IsDecimal(y) /\ SameNumber(<<x.m, x.e>>, <<y.m, y.e>>)
    [] IsList(x) -> IsList(y) /\ Itemwise(x.list, y.list, alike)
    [] OTHER -> x = y

AlikeValues(a, b) ==
  LET alike[x \in Parts(a)] == { y \in Parts(b) : AlikeScalars(x, y, alike) }
  IN  b \in alike[a]

AlikeConditions(c, d) ==
  c.field = d.field /\ c.operator = d.operator /\ AlikeValues(c.value, d.value)

AlikeSides(s, t, alike) ==
  /\ s = {} <=> t = {}
  /\ \A u \in s, v \in t : Itemwise(u, v, alike)

AlikeMembers(x, y, alike) ==
  IF IsGroup(x)
  THEN /\ IsGroup(y)
       /\ AlikeSides(x.all, y.all, alike) /\ AlikeSides(x.any, y.any, alike)
  ELSE ~ IsGroup(y) /\ AlikeConditions(x, y)

AlikeGroups(g, h) ==
  LET alike[x \in Parts(g)] == { y \in Parts(h) : AlikeMembers(x, y, alike) }
  IN  h \in alike[g]

AlikeEntries(x, y, alike) ==
  IF IsLeaf(x) THEN x = y
  ELSE /\ ~ IsLeaf(y) /\ x.node_id = y.node_id
       /\ AlikeConditions(x.condition, y.condition)
       /\ y.true_branch \in alike[x.true_branch]
       /\ y.false_branch \in alike[x.false_branch]

AlikeTrees(t, u) ==
  LET alike[x \in Parts(t)] == { y \in Parts(u) : AlikeEntries(x, y, alike) }
  IN  u \in alike[t]

(* The same tags, in whatever order.                                       *)
SameTags(s, t) ==
  \E p \in Bijection(DOMAIN s, DOMAIN t) : \A i \in DOMAIN s : t[p[i]] = s[i]

AlikeRules(r, q) ==
  /\ RuleWith(r, {}, {}, {}, r.window) = RuleWith(q, {}, {}, {}, q.window)
  /\ r.tags = {} <=> q.tags = {}
  /\ \A s \in r.tags, t \in q.tags : SameTags(s, t)
  /\ r.applies_if = {} <=> q.applies_if = {}
  /\ \A g \in r.applies_if, h \in q.applies_if : AlikeGroups(g, h)
  /\ AlikeTrees(r.decision_tree, q.decision_tree)

RuleSets == UNION { CompileRules(d) : d \in { x \in Documents : ~ IsIntent(x) } }

Encodings == { [rules |-> rules, encoded |-> EncodeRules(rules)] : rules \in RuleSets }

(* What a rule set is stored as is what every rule set that differs from   *)
(* it only in spelling would be stored as, and no other: the address, a    *)
(* hash of these bytes, is one for all the spellings and for nothing else  *)
(* (ordering.rs normalize_decimal, canonicalize_set).                      *)
OneEncodingPerRuleSet ==
  answer.what = "stored" =>
    \A rules \in StoredRules, source \in Compiled, other \in Encodings :
      rules \in other.encoded
        <=> /\ Len(source) = Len(other.rules)
            /\ \A i \in DOMAIN source : AlikeRules(source[i], other.rules[i])

-----------------------------------------------------------------------------
(* Conflicts.                                                              *)

(* The fields two rules both pin, when all they are pinned to is words.    *)
SharedByWords(a, b) ==
  LET premises == PremiseConditions(a) \cup PremiseConditions(b)
      words(c) == IF c.operator = "in" THEN \A v \in ToSet(c.value.list) : IsStr(v)
                                       ELSE IsStr(c.value)
      shared   == { c.field : c \in PremiseConditions(a) } \cap
                  { c.field : c \in PremiseConditions(b) }
  IN  /\ shared # {}
      /\ \A c \in premises : c.field \in shared => words(c)

(* If there are facts to which two rules of a document both apply, and     *)
(* they pin some field by name, the report has a conflict for the pair     *)
(* (t4.rs scopes_overlap: "cannot co-apply").                              *)
ConflictsAreNotMissed ==
  answer.what = "evaluations" /\ answer.from = "source" =>
    \A rules \in Compiled : \A i, j \in DOMAIN rules :
      /\ i < j /\ SharedByWords(rules[i], rules[j])
      /\ answer.evaluations[i].applicable /\ answer.evaluations[j].applicable
      => \E c \in Verify(rules).conflicts : c.pair = <<i, j>>

(* What passed verification never decides one case in two ways: stored     *)
(* rules without branches that both apply decide the same.                 *)
NoContradictionIsStored ==
  answer.what = "evaluations" /\ answer.from = "hash" =>
    \A rules \in StoredRules : \A i, j \in DOMAIN rules :
      /\ SharedByWords(rules[i], rules[j])
      /\ IsLeaf(rules[i].decision_tree) /\ IsLeaf(rules[j].decision_tree)
      /\ answer.evaluations[i].applicable /\ answer.evaluations[j].applicable
      => answer.evaluations[i].decision = answer.evaluations[j].decision

ProperWindow(window) ==
  \E w \in window : /\ w.from # <<MaxYear, 12, 31>>
                    /\ \A to \in w.to : DateBefore(w.from, to)

(* The conflict pass and the runtime agree on windows: a temporal overlap  *)
(* is reported for rules in conflict exactly when one is in force on the   *)
(* first day of the other (t4.rs windows_overlap, effective.rs             *)
(* effective_at).                                                          *)
OverlapMeansBothInForce ==
  answer.what = "report" =>
    \A rules \in Compiled : \A c \in answer.report.conflicts :
      LET a == rules[c.pair[1]].window
          b == rules[c.pair[2]].window
      IN  c.class \in {"ContradictoryOutcome", "OverlappingScope"}
          /\ ProperWindow(a) /\ ProperWindow(b)
          => ( [class |-> "TemporalOverlap", pair |-> c.pair] \in answer.report.conflicts
               <=> \/ \A w \in b : EffectiveAt(a, w.from)
                   \/ \A w \in a : EffectiveAt(b, w.from) )

-----------------------------------------------------------------------------
(* Evaluation and scenarios.                                               *)

(* The group's own meaning, mode by mode.                                  *)
Satisfied(g, facts) ==
  LET holds[x \in Parts(g)] ==
        IF ~ IsGroup(x) THEN Holds(x, facts)
        ELSE /\ \A s \in x.all : \A i \in DOMAIN s : holds[s[i]]
             /\ \A s \in x.any : \E i \in DOMAIN s : holds[s[i]]
  IN  holds[g]

(* No empty group, and no group inside one of the other mode.              *)
OneMode(g) ==
  \A x \in Parts(g) : IsGroup(x) => ~ GroupIsEmpty(x) /\ GroupMode(x) = GroupMode(g)

(* Splicing nested groups and stopping at the first check that settles the *)
(* question decides what the groups say, when all are of one mode (exec.rs *)
(* applicability, flatten).                                                *)
ApplicabilityIsTheGroups ==
  answer.what = "scenario" =>
    \A g \in answer.rule.applies_if :
      OneMode(g) => ( answer.evaluation.applicable
                      <=> Satisfied(g, answer.facts) )

(* The trace of an evaluation is one of the rule's decision paths, branch  *)
(* by branch, and the outcome is that path's: what a reviewer compares and *)
(* what the runtime walks are the same tree (form.rs collect_paths,        *)
(* exec.rs walk).                                                          *)
TraceIsADecisionPath ==
  answer.what = "scenario" /\ answer.evaluation.applicable =>
    \E p \in SemanticRule(answer.rule).decision_paths :
      /\ Len(p.branches) = Len(answer.evaluation.decision_path)
      /\ \A i \in DOMAIN p.branches :
           LET step == answer.evaluation.decision_path[i]
           IN  /\ step.field = p.branches[i].cond.field
               /\ step.operator = p.branches[i].cond.operator
               /\ step.result = p.branches[i].taken
      /\ answer.evaluation.decision = {p.outcome.result}
      /\ answer.evaluation.obligations = p.outcome.obligations

(* Where the decimals around an operand are other numbers once rounded: at *)
(* 2^53 one more is not more.                                              *)
Around(v, delta) == DecimalToF64(v.m + delta, v.e)
RoomAbove(v) == v.m < MaxMantissa /\ LessNumber(Around(v, 0), Around(v, 1))
RoomBelow(v) == v.m > - MaxMantissa /\ LessNumber(Around(v, -1), Around(v, 0))

(* A condition the generator has values for on both sides: a number with   *)
(* another one above or below it, whichever side the operator needs; a     *)
(* membership list whose first item is no list and, as an integer, is one  *)
(* JSON can hold, and which does not have the word the generator keeps for *)
(* what is in no list.                                                     *)
Drivable(c) ==
  \/ c.operator \in {">", "<="} /\ IsDecimal(c.value) /\ RoomAbove(c.value)
  \/ c.operator \in {"<", ">="} /\ IsDecimal(c.value) /\ RoomBelow(c.value)
  \/ c.operator \in {"==", "!="} /\ (IsDecimal(c.value) => RoomAbove(c.value))
  \/ /\ c.operator \in {"in", "not_in"}
     /\ IsList(c.value) /\ c.value.list # <<>> /\ NonMember \notin ToSet(c.value.list)
     /\ LET first == c.value.list[1]
        IN  /\ ~ IsList(first)
            /\ IsDecimal(first) /\ first.e = 0 => Abs(first.m) <= MaxJsonInt \div 2
  \/ c.operator = "exists"

DistinctFields(rule) ==
  \A i, j \in DOMAIN Catalog(rule) :
    Catalog(rule)[i].field = Catalog(rule)[j].field => i = j

(* The generator covers the tree: each path's scenario applies and ends at *)
(* that path's leaf, and the case meant not to apply does not, when each   *)
(* field is tested once and by a condition the generator can drive         *)
(* (scenario.rs generate_for_rule).                                        *)
ScenariosReachTheirLeaf ==
  answer.what = "scenario" /\ DistinctFields(answer.rule)
  /\ (\A c \in ConditionsOf(answer.rule) : Drivable(c)) =>
    CASE answer.scenario.label = "path" ->
           /\ answer.evaluation.applicable
           /\ \E p \in EnumeratePaths(answer.rule.decision_tree) :
                /\ answer.scenario.facts =
                     BuildFacts(ApplicabilityPairs(answer.rule, TRUE) \o p.pairs)
                /\ answer.evaluation.decision = {p.leaf.result}
      [] answer.scenario.label = "not_applicable" ->
           AppliesChecks(answer.rule) # <<>> => ~ answer.evaluation.applicable
      [] OTHER -> TRUE

(* A field some membership condition tests is never given a number,        *)
(* whatever its list holds: what scenario.rs:15-17 says of the generator.  *)
(* What first_member gives is the first item, a number in a list of        *)
(* numbers.                                                                *)
InFieldsGetNoNumbers ==
  answer.what = "scenario" =>
    \A f \in InFields(answer.rule) \cap DOMAIN answer.scenario.facts :
      DOMAIN answer.scenario.facts[f] \notin {{"int"}, {"float"}}

=============================================================================
