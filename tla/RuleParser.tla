----------------------------- MODULE RuleParser -----------------------------
(***************************************************************************)
(* From a YAML document to rules: the parser (document -> syntax tree) and *)
(* the lowering (syntax tree -> rule).                                     *)
(*                                                                         *)
(* A YAML node is a scalar [scalar |-> [text, quoted]], a sequence         *)
(* [seq |-> <<nodes>>] or a mapping [map |-> record of nodes]. A key whose *)
(* node has another shape than the one asked for counts as missing, which  *)
(* is how the loader's accessors answer. A syntax tree keeps optional      *)
(* parts optional; what must be there is demanded by the lowering.         *)
(***************************************************************************)
EXTENDS RuleRuntime

CONSTANT MaxPage  \* the largest page number (u32::MAX)

(* The node of a key of a mapping, when it is of a kind.                   *)
Keys(node) == IF "map" \in DOMAIN node THEN DOMAIN node.map ELSE {}

Get(node, key, kind) ==
  { n \in { node.map[k] : k \in {key} \cap Keys(node) } : kind \in DOMAIN n }

GetScalar(node, key)   == { n.scalar : n \in Get(node, key, "scalar") }
GetSequence(node, key) == { n.seq : n \in Get(node, key, "seq") }
GetMapping(node, key)  == Get(node, key, "map")

OptScalar(node, key) == { s.text : s \in GetScalar(node, key) }
ReqScalar(node, key) == OptScalar(node, key)  \* a missing one refuses the document

(* An optional part: absent is fine, present must parse.                   *)
Optional(opt, Parse(_)) ==
  IF opt = {} THEN {{}} ELSE UNION { { {x} : x \in Parse(y) } : y \in opt }

(* A sequence of mappings, every one of which must parse.                  *)
EachMapping(seq, Parse(_)) ==
  AllOf([i \in DOMAIN seq |->
           IF "map" \in DOMAIN seq[i] THEN Parse(seq[i]) ELSE {}])

OrEmpty(opt) == IF opt = {} THEN <<>> ELSE CHOOSE s \in opt : TRUE

(* The scalars of a sequence; anything else in it is skipped.              *)
ScalarsOf(seq) ==
  FlattenSeq([i \in DOMAIN seq |->
                IF "scalar" \in DOMAIN seq[i] THEN <<seq[i].scalar.text>> ELSE <<>>])

-----------------------------------------------------------------------------
(* Parsing.                                                                *)

NodeToValue(node) ==
  LET value[n \in Parts(node)] ==
        IF "scalar" \in DOMAIN n THEN {ScalarToValue(n.scalar)}
        ELSE IF "seq" \in DOMAIN n
             THEN { List(items) : items \in AllOf([i \in DOMAIN n.seq |-> value[n.seq[i]]]) }
        ELSE {}
  IN  value[node]

(* The operand of a condition: a scalar, or a list of values.              *)
ParseValue(node) ==
  IF "value" \in Keys(node) THEN NodeToValue(node.map["value"]) ELSE {}

ParseCondition(node) ==
  LET operator == OptScalar(node, "operator")
  IN  { [ field |-> f,
          operator |-> IF operator = {} THEN Word("==") ELSE CHOOSE o \in operator : TRUE,
          value |-> v ] : f \in ReqScalar(node, "field"), v \in ParseValue(node) }

(* `all` before `any`; an item with a `field` is a condition.              *)
ParseGroup(node) ==
  LET group[n \in Parts(node)] ==
        LET all == GetSequence(n, "all")
            seq == IF all # {} THEN all ELSE GetSequence(n, "any")
            item(m) == IF GetScalar(m, "field") # {} THEN ParseCondition(m) ELSE group[m]
        IN  UNION { { [ kind |-> IF all # {} THEN "all" ELSE "any", items |-> items ] :
                        items \in EachMapping(s, item) } : s \in seq }
  IN  group[node]

ParseObligations(seq) == EachMapping(seq, LAMBDA m : ReqScalar(m, "id"))

ParseLeaf(node) ==
  { [ result |-> r, obligations |-> o, notes |-> OptScalar(node, "notes") ] :
      r \in ReqScalar(node, "result"),
      o \in ParseObligations(OrEmpty(GetSequence(node, "obligations"))) }

(* A node's parts are optional, its branches among them.                   *)
ParseNode(node, ts, fs) ==
  { [ node_id |-> OptScalar(node, "node_id"), condition |-> c, branches |-> <<t, f>> ] :
      c \in Optional(GetMapping(node, "condition"), ParseCondition), t \in ts, f \in fs }

(* A decision is a leaf when it has a result.                              *)
ParseDecision(node) ==
  LET decision[n \in Parts(node)] ==
        LET branch(key) == Optional(GetMapping(n, key), LAMBDA m : decision[m])
        IN  IF GetScalar(n, "result") # {} THEN ParseLeaf(n)
            ELSE ParseNode(n, branch("true_branch"), branch("false_branch"))
  IN  decision[node]

(* Every page must be a number that fits.                                  *)
PagesParse(seq) ==
  \A i \in DOMAIN seq :
    /\ "scalar" \in DOMAIN seq[i]
    /\ LET text == seq[i].scalar.text
       IN  "num" \in DOMAIN text /\ text.num[2] = 0 /\ text.num[1] \in 0..MaxPage

ParseSource(node) ==
  IF \E seq \in GetSequence(node, "pages") : ~ PagesParse(seq) THEN {}
  ELSE { [ document_id |-> d,
           citation |-> OptScalar(node, "article") \cup OptScalar(node, "section")
             \cup ToSet(ScalarsOf(OrEmpty(GetSequence(node, "paragraphs")))) ] :
           d \in ReqScalar(node, "document_id") }

ParseRule(node) ==
  { [ rule_id |-> id, decision_tree |-> tree, source |-> source,
      applies_if |-> group, obligations |-> obligations,
      tags |-> ScalarsOf(OrEmpty(GetSequence(node, "tags"))),
      version |-> OptScalar(node, "version"),
      description |-> OptScalar(node, "description"),
      interpretation_notes |-> OptScalar(node, "interpretation_notes"),
      effective_from |-> OptScalar(node, "effective_from"),
      effective_to |-> OptScalar(node, "effective_to") ] :
      id \in ReqScalar(node, "rule_id"),
      tree \in UNION { ParseDecision(m) : m \in GetMapping(node, "decision_tree") },
      source \in UNION { ParseSource(m) : m \in GetMapping(node, "source") },
      group \in Optional(GetMapping(node, "applies_if"), ParseGroup),
      obligations \in ParseObligations(OrEmpty(GetSequence(node, "obligations"))) }

(* A document is one rule or a list of rules.                              *)
ParseRules(root) ==
  CASE "map" \in DOMAIN root -> EachMapping(<<root>>, ParseRule)
    [] "seq" \in DOMAIN root -> EachMapping(root.seq, ParseRule)
    [] "scalar" \in DOMAIN root -> {}

-----------------------------------------------------------------------------
(* Lowering.                                                               *)

(* The operators and the other spellings of three of them.                 *)
OperatorFromStr(text) ==
  LET token == text.word
      alias == [eq |-> {"==", "="}, ne |-> {"!=", "<>"}, ni |-> {"not_in", "not in"}]
  IN  IF "word" \notin DOMAIN text THEN {}
      ELSE CASE token \in alias.eq -> {"=="}
             [] token \in alias.ne -> {"!="}
             [] token \in alias.ni -> {"not_in"}
             [] token \in {"in", ">", "<", ">=", "<=", "exists"} -> {token}
             [] OTHER -> {}

LowerCondition(c) ==
  { [c EXCEPT !.operator = op] : op \in OperatorFromStr(c.operator) }

LowerGroup(g) ==
  LET lower[x \in Parts(g)] ==
        IF "items" \notin DOMAIN x THEN LowerCondition(x)
        ELSE { IF x.kind = "all" THEN [all |-> {items}, any |-> {}]
                                 ELSE [all |-> {}, any |-> {items}] :
                 items \in AllOf([i \in DOMAIN x.items |-> lower[x.items[i]]]) }
  IN  lower[g]

(* No obligations is the absence of the list.                              *)
LowerLeaf(leaf) ==
  [leaf EXCEPT !.obligations = IF @ = <<>> THEN {} ELSE {@}]

LowerNode(node, ts, fs) ==
  { [ node_id |-> IF node.node_id = {} THEN Word("unnamed")
                  ELSE CHOOSE id \in node.node_id : TRUE,
      condition |-> c, true_branch |-> t, false_branch |-> f ] :
      c \in UNION { LowerCondition(c) : c \in node.condition }, t \in ts, f \in fs }

LowerDecision(d) ==
  LET lower[x \in Parts(d)] ==
        IF "branches" \notin DOMAIN x THEN {LowerLeaf(x)}
        ELSE LowerNode(x, UNION { lower[t] : t \in x.branches[1] },
                          UNION { lower[f] : f \in x.branches[2] })
  IN  lower[d]

ParseDate(text) ==
  { d \in { text.date : k \in {"date"} \cap DOMAIN text } :
      d \in (MinYear .. MaxYear) \X (1 .. 12) \X (1 .. 31) }

(* Without a first day there is no window, whatever the last day says.     *)
LowerWindow(ast) ==
  IF ast.effective_from = {} THEN {{}}
  ELSE { {w} : w \in { [from |-> from, to |-> to] :
                        from \in UNION { ParseDate(t) : t \in ast.effective_from },
                        to \in Optional(ast.effective_to, ParseDate) } }

LowerRule(ast) ==
  { [ rule_id |-> ast.rule_id,
      rule_version |-> IF ast.version = {} THEN Number(<<10, 1>>)
                       ELSE CHOOSE v \in ast.version : TRUE,
      description |-> ast.description,
      interpretation_notes |-> ast.interpretation_notes,
      tags |-> IF ast.tags = <<>> THEN {} ELSE {ast.tags},
      applies_if |-> group, decision_tree |-> tree,
      obligations |-> ast.obligations,
      document_id |-> ast.source.document_id, citation |-> ast.source.citation,
      window |-> window ] :
      group \in Optional(ast.applies_if, LowerGroup),
      tree \in LowerDecision(ast.decision_tree),
      window \in LowerWindow(ast) }

(* Parse, then lower every rule; the first error refuses the document.     *)
CompileRules(root) ==
  UNION { AllOf([i \in DOMAIN rules |-> LowerRule(rules[i])]) :
            rules \in ParseRules(root) }

=============================================================================
