---------------------------- MODULE RulePipeline ----------------------------
(***************************************************************************)
(* The authoring pipeline: one YAML rule document and what an author does  *)
(* with it. It is previewed, linted and compiled into the store; scenarios *)
(* are generated from it; facts are dry-run against the document or        *)
(* against a stored payload. An intent specification is compiled instead.  *)
(* Every operation is synchronous: it leaves one answer, read before the   *)
(* next operation begins.                                                  *)
(*                                                                         *)
(* The store holds payloads, [rules |-> rules] or [intent |-> spec], as    *)
(* they decode; the registry that keeps them is module Registry's subject. *)
(***************************************************************************)
EXTENDS RuleChecks, Scenarios

CONSTANTS
  Documents,        \* YAML rule documents
  IntentDocuments,  \* intent specifications, JSON documents
  Payloads(_)       \* what is sent for the facts in dry runs of a document

VARIABLES
  doc,      \* the document worked on
  stored,   \* the payloads stored
  answer    \* the last operation's answer, [what, ...]

vars == <<doc, stored, answer>>

Idle   == [what |-> "idle"]
Fail(why) == [what |-> "refused", why |-> why]

(* An intent specification read as YAML is a mapping that is no rule.      *)
Compiled == IF IsIntent(doc) THEN {} ELSE CompileRules(doc)

(* What spells a number spells an integer and how many of its digits       *)
(* follow the point, and a text with a suffix is another text.             *)
IsText(text) == /\ "num" \in DOMAIN text => text.num \in Int \X Nat
                /\ Different(text) # text

(* A YAML document is made of scalars, sequences and mappings, and nests   *)
(* no deeper than MaxDepth.                                                *)
IsYaml(d) ==
  /\ Shallow(d)
  /\ \A n \in Parts(d) : /\ DOMAIN n \in {{"scalar"}, {"seq"}, {"map"}}
                         /\ "seq" \in DOMAIN n => n.seq \in Seq(Parts(d))
                         /\ "scalar" \in DOMAIN n => IsText(n.scalar.text)

IsIntentJson(d) == \A i \in DOMAIN d.criteria : IsText(d.criteria[i].threshold)

ASSUME DocumentsAssumption ==
  \A d \in Documents \cup IntentDocuments :
    IF IsIntent(d) THEN IsIntentJson(d) ELSE IsYaml(d)

(* JSON is made of literals and lists; what an object says is no fact's.   *)
IsJson(v) ==
  /\ Shallow(v)
  /\ \A x \in Parts(v) :
       /\ DOMAIN x \in { {k} : k \in {"null", "bool", "str", "int", "float", "list", "object"} }
       /\ "list" \in DOMAIN x => x.list \in Seq(Parts(v))

(* Any JSON may be sent, also what is not an object of facts.              *)
ASSUME PayloadsAssumption ==
  \A d \in Documents \cup IntentDocuments : \A payload \in Payloads(d) :
    IF "object" \in DOMAIN payload
    THEN \A f \in DOMAIN payload.object : IsJson(payload.object[f])
    ELSE IsJson(payload)

(* The tags the encoder arranges have their places in an order.            *)
ASSUME TagRankAssumption ==
  \A d \in { x \in Documents \cup IntentDocuments : ~ IsIntent(x) } :
    \A rules \in CompileRules(d) :
      \A i \in DOMAIN rules : \A tags \in rules[i].tags : \A k \in DOMAIN tags :
        IsNfc(tags[k]) => TagRank[tags[k]] \in Int

Init == doc \in Documents \cup IntentDocuments /\ stored = {} /\ answer = Idle

(* POST /compile/preview: nothing is stored.                               *)
Preview ==
  /\ answer = Idle
  /\ \/ Compiled = {} /\ answer' = Fail("compile_error")
     \/ \E rules \in Compiled : answer' = [what |-> "report", report |-> Verify(rules)]
  /\ UNCHANGED <<doc, stored>>

(* ke lint: the lint tier only.                                            *)
Lint ==
  /\ answer = Idle
  /\ \/ Compiled = {} /\ answer' = Fail("compile_error")
     \/ \E rules \in Compiled :
          answer' = [what |-> "lint",
                     findings |-> UNION { CheckT5(r) : r \in ToSet(rules) }]
  /\ UNCHANGED <<doc, stored>>

(* ke compile: compile, verify, encode, store.                             *)
Compile ==
  /\ answer = Idle
  /\ \/ Compiled = {} /\ answer' = Fail("compile_error") /\ UNCHANGED stored
     \/ \E rules \in Compiled :
          \/ HasBlocking(Verify(rules)) /\ answer' = Fail("blocking") /\ UNCHANGED stored
          \/ /\ ~ HasBlocking(Verify(rules))
             /\ EncodeRules(rules) = {} /\ answer' = Fail("not_canonical")
             /\ UNCHANGED stored
          \/ /\ ~ HasBlocking(Verify(rules))
             /\ \E canonical \in EncodeRules(rules) :
                  /\ answer' = [what |-> "stored"]
                  /\ stored' = stored \cup {[rules |-> canonical]}
  /\ UNCHANGED doc

(* ke compile-intent: no verification tier, and no canonical profile.      *)
CompileIntent ==
  /\ answer = Idle
  /\ \/ /\ ParseIntentSpec(doc) = {} /\ answer' = Fail("intent_error")
        /\ UNCHANGED stored
     \/ \E spec \in ParseIntentSpec(doc) :
          /\ answer' = [what |-> "intent", spec |-> spec]
          /\ stored' = stored \cup {[intent |-> spec]}
  /\ UNCHANGED doc

(* gen-scenarios: every scenario of every rule, with its evaluation.       *)
GenScenarios ==
  /\ answer = Idle
  /\ \E rules \in Compiled : \E i \in DOMAIN rules :
       \E s \in GenerateForRule(rules[i]) :
         \E facts \in FactsFromJson([object |-> s.facts]) :
           answer' = [ what |-> "scenario", rule |-> rules[i], scenario |-> s,
                       facts |-> facts, evaluation |-> Evaluate(rules[i], facts) ]
  /\ UNCHANGED <<doc, stored>>

(* POST /dry-run and ke-eval, with the document or a stored payload.       *)
EvaluateAll(rules, from, payload) ==
  IF FactsFromJson(payload) = {} THEN Fail("facts_error")
  ELSE LET facts == CHOOSE f \in FactsFromJson(payload) : TRUE
       IN  [ what |-> "evaluations", from |-> from, facts |-> facts,
             evaluations |-> [i \in DOMAIN rules |-> Evaluate(rules[i], facts)] ]

DryRunSource ==
  /\ answer = Idle
  /\ \/ Compiled = {} /\ answer' = Fail("compile_error")
     \/ \E rules \in Compiled, payload \in Payloads(doc) :
          answer' = EvaluateAll(rules, "source", payload)
  /\ UNCHANGED <<doc, stored>>

(* decode_artifact is strict: it refuses rules that are not canonical.     *)
Decodes(item) ==
  "rules" \in DOMAIN item => \A i \in DOMAIN item.rules : RuleValid(item.rules[i])

DryRunHash ==
  /\ answer = Idle
  /\ \E item \in stored, payload \in Payloads(doc) :
       answer' = IF ~ Decodes(item) THEN Fail("artifact_decode")
                 ELSE IF "rules" \notin DOMAIN item THEN Fail("bad_request")
                 ELSE EvaluateAll(item.rules, "hash", payload)
  /\ UNCHANGED <<doc, stored>>

(* The answer is read.                                                     *)
ReadAnswer ==
  /\ answer # Idle
  /\ answer' = Idle
  /\ UNCHANGED <<doc, stored>>

Next ==
  \/ Preview
  \/ Lint
  \/ Compile
  \/ CompileIntent
  \/ GenScenarios
  \/ DryRunSource
  \/ DryRunHash
  \/ ReadAnswer

Spec == Init /\ [][Next]_vars

=============================================================================
