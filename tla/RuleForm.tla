------------------------------ MODULE RuleForm ------------------------------
(***************************************************************************)
(* A rule as the compiler produces it, its canonical form (what the        *)
(* encoder writes and the strict decoder accepts) and its semantic form    *)
(* (what two rules are compared by).                                       *)
(*                                                                         *)
(* A condition is [field, operator, value]; a group is [all, any], each an *)
(* optional sequence whose items are conditions and groups; a decision     *)
(* tree is a leaf [result, obligations, notes] or a node [node_id,         *)
(* condition, true_branch, false_branch]. A rule's `citation` is the set   *)
(* of the articles, sections and paragraphs of its source. Descriptions    *)
(* and deadlines inside conditions and obligations are left out: they are  *)
(* only ever tested for NFC, as the rule's own prose is. The compiler sets *)
(* no source span, no time zone and no provenance text, so those branches  *)
(* of the walkers do nothing here.                                         *)
(***************************************************************************)
EXTENDS Scalars, SequencesExt, BagsExt

CONSTANT TagRank  \* the place of each tag in the order of encoded bytes

IsGroup(item) == "all" \in DOMAIN item
IsLeaf(entry) == "true_branch" \notin DOMAIN entry

(* The texts of a rule that are not part of its logic.                     *)
Prose(r) ==
  {r.rule_version} \cup r.description \cup r.interpretation_notes
    \cup {r.document_id} \cup r.citation

(* A sequence of optional values, when all of them are there.              *)
AllOf(s) ==
  IF \E i \in DOMAIN s : s[i] = {} THEN {}
  ELSE {[i \in DOMAIN s |-> CHOOSE x \in s[i] : TRUE]}

-----------------------------------------------------------------------------
(* Canonical form. Each operator returns the normalised value, or nothing  *)
(* when the encoder refuses the input.                                     *)

NfcOnly(text) == IF IsNfc(text) THEN {text} ELSE {}

(* Lists keep the author's order.                                          *)
CanonicalPart(x, canonical) ==
  CASE IsStr(x) -> { Str(t) : t \in NfcOnly(x.str) }
    [] IsBool(x) -> {x}
    [] IsDecimal(x) -> { Decimal(d[1], d[2]) : d \in NormalizeDecimal(x.m, x.e) }
    [] IsList(x) ->
         { List(s) : s \in AllOf([i \in DOMAIN x.list |-> canonical[x.list[i]]]) }
    [] OTHER -> {}

CanonicalScalar(v) ==
  LET canonical[x \in Parts(v)] == CanonicalPart(x, canonical) IN canonical[v]

CanonicalCondition(c) ==
  { [c EXCEPT !.value = v] : f \in NfcOnly(c.field),
                             v \in CanonicalScalar(c.value) }

GroupsOf(as, bs) == { [all |-> a, any |-> b] : a \in as, b \in bs }

CanonicalGroup(g) ==
  LET canonical[x \in Parts(g)] ==
        LET side(opt) ==
              IF opt = {} THEN {{}}
              ELSE LET s == CHOOSE s \in opt : TRUE
                   IN  { {t} : t \in AllOf([i \in DOMAIN s |-> canonical[s[i]]]) }
        IN  IF IsGroup(x) THEN GroupsOf(side(x.all), side(x.any))
                          ELSE CanonicalCondition(x)
  IN  canonical[g]

CanonicalApplicability(opt) ==
  IF opt = {} THEN {{}}
  ELSE { {g} : g \in CanonicalGroup(CHOOSE g \in opt : TRUE) }

(* A leaf's obligations are ids.                                           *)
CanonicalLeaf(leaf) ==
  IF /\ IsNfc(leaf.result)
     /\ \A s \in leaf.obligations : \A i \in DOMAIN s : IsNfc(s[i])
     /\ \A n \in leaf.notes : IsNfc(n)
  THEN {leaf} ELSE {}

CanonicalNode(node, ts, fs) ==
  { [node_id |-> id, condition |-> c, true_branch |-> t, false_branch |-> f] :
      id \in NfcOnly(node.node_id), c \in CanonicalCondition(node.condition),
      t \in ts, f \in fs }

CanonicalEntry(entry) ==
  LET canonical[x \in Parts(entry)] ==
        IF IsLeaf(x) THEN CanonicalLeaf(x)
        ELSE CanonicalNode(x, canonical[x.true_branch], canonical[x.false_branch])
  IN  canonical[entry]

CanonicalWindow(window) ==
  IF \A w \in window : /\ DateIsValid(w.from)
                       /\ \A to \in w.to : DateIsValid(to)
  THEN {window} ELSE {}

(* Mutant: without duplicates, but in the order they were written in.      *)
CanonicalSetAsWritten(tags) ==
  IF Cardinality(ToSet(tags)) = Len(tags) THEN {tags} ELSE {}

(* A sequence that stands for a set: arranged by its elements' encodings,  *)
(* one before the other, which has no way when two of them are equal.      *)
CanonicalSet(tags) ==
  { s \in { [i \in DOMAIN tags |-> tags[p[i]]] : p \in Bijection(DOMAIN tags, DOMAIN tags) } :
      \A i, j \in DOMAIN s : i < j => TagRank[s[i]] < TagRank[s[j]] }

CanonicalTags(opt) ==
  IF opt = {} THEN {{}}
  ELSE LET tags == CHOOSE t \in opt : TRUE
       IN  IF \A i \in DOMAIN tags : IsNfc(tags[i])
           THEN { {s} : s \in CanonicalSet(tags) } ELSE {}

(* The texts of the rule itself and the ids of its obligations.            *)
TextsAreNfc(r) ==
  /\ IsNfc(r.rule_id)
  /\ \A text \in Prose(r) : IsNfc(text)
  /\ \A i \in DOMAIN r.obligations : IsNfc(r.obligations[i])

(* encode_rule, by the rule its bytes decode to.                           *)
RuleWith(r, tags, group, tree, window) ==
  [r EXCEPT !.tags = tags, !.applies_if = group, !.decision_tree = tree, !.window = window]

CanonicalRule(r) ==
  IF ~ TextsAreNfc(r) THEN {}
  ELSE { RuleWith(r, tags, group, tree, window) :
           tags \in CanonicalTags(r.tags),
           group \in CanonicalApplicability(r.applies_if),
           tree \in CanonicalEntry(r.decision_tree),
           window \in CanonicalWindow(r.window) }

EncodeRules(rules) == AllOf([i \in DOMAIN rules |-> CanonicalRule(rules[i])])

-----------------------------------------------------------------------------
(* The strict decoder's checks.                                            *)

ScalarValid(v) ==
  \A x \in Parts(v) : /\ IsStr(x) => IsNfc(x.str)
                      /\ IsDecimal(x) => DecimalIsCanonical(x.m, x.e)

ConditionValid(c) == IsNfc(c.field) /\ ScalarValid(c.value)

GroupValid(g) == \A x \in Parts(g) : IsGroup(x) \/ ConditionValid(x)

EntryValid(entry) ==
  \A x \in Parts(entry) :
    IF IsLeaf(x)
    THEN /\ IsNfc(x.result)
         /\ \A s \in x.obligations : \A i \in DOMAIN s : IsNfc(s[i])
         /\ \A n \in x.notes : IsNfc(n)
    ELSE IsNfc(x.node_id) /\ ConditionValid(x.condition)

WindowValid(window) ==
  \A w \in window : DateIsValid(w.from) /\ \A to \in w.to : DateIsValid(to)

(* Strictly increasing, so sorted and free of duplicates.                  *)
SetIsCanonical(tags) ==
  \A i \in 1 .. Len(tags) - 1 : TagRank[tags[i]] < TagRank[tags[i + 1]]

RuleValid(r) ==
  /\ TextsAreNfc(r)
  /\ \A tags \in r.tags : /\ \A i \in DOMAIN tags : IsNfc(tags[i])
                          /\ SetIsCanonical(tags)
  /\ \A g \in r.applies_if : GroupValid(g)
  /\ EntryValid(r.decision_tree)
  /\ WindowValid(r.window)

-----------------------------------------------------------------------------
(* Semantic form. What the code sorts without removing duplicates is a     *)
(* bag, what it also deduplicates is a set.                                *)

SemPart(x, meaning) ==
  CASE IsDecimal(x) -> [num |-> NormDecimal(x.m, x.e)]
    [] IsList(x) -> [list |-> ToBag([i \in DOMAIN x.list |-> meaning[x.list[i]]])]
    [] OTHER -> x

SemValue(v) == LET meaning[x \in Parts(v)] == SemPart(x, meaning) IN meaning[v]

SemCond(c) == [field |-> c.field, operator |-> c.operator,
               value |-> SemValue(c.value)]

(* `all` wins when it is there, even empty; a group with neither is an     *)
(* empty conjunction.                                                      *)
SemPredicate(g) ==
  LET meaning[x \in Parts(g)] ==
        LET members(opt) == LET s == CHOOSE s \in opt : TRUE
                            IN  ToBag([i \in DOMAIN s |-> meaning[s[i]]])
        IN  IF ~ IsGroup(x) THEN SemCond(x)
            ELSE IF x.all # {} THEN [mode |-> "all", members |-> members(x.all)]
            ELSE IF x.any # {} THEN [mode |-> "any", members |-> members(x.any)]
            ELSE [mode |-> "all", members |-> EmptyBag]
  IN  meaning[g]

CollectPaths(entry) ==
  LET paths[x \in Parts(entry)] ==
        LET through(taken, rest) ==
              { [p EXCEPT !.branches =
                   <<[cond |-> SemCond(x.condition), taken |-> taken]>> \o @] : p \in rest }
        IN  IF IsLeaf(x)
            THEN {[ branches |-> <<>>,
                    outcome |-> [ result |-> x.result,
                                  obligations |-> UNION { ToSet(s) :
                                                          s \in x.obligations } ] ]}
            ELSE through(TRUE, paths[x.true_branch]) \cup
                 through(FALSE, paths[x.false_branch])
  IN  paths[entry]

SemanticRule(r) ==
  [ rule_id |-> r.rule_id,
    applicability |-> { SemPredicate(g) : g \in r.applies_if },
    decision_paths |-> CollectPaths(r.decision_tree),
    source_document |-> r.document_id,
    effective |-> r.window,
    tags |-> UNION { ToSet(t) : t \in r.tags } ]

(* semantic_diff: the parts in which two forms differ.                     *)
SemanticDiff(a, b) == { part \in DOMAIN a : a[part] # b[part] }

=============================================================================
