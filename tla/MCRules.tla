------------------------------ MODULE MCRules ------------------------------
(***************************************************************************)
(* Rule documents for the model checker: families that vary one thing at a *)
(* time around a small rule - the literal and operator of a condition, the *)
(* shape of the applicability groups and of the tree, a second rule that   *)
(* competes with the first, and the ways a document can be malformed.      *)
(***************************************************************************)
EXTENDS RuleProperties

(* YAML nodes.                                                             *)
W(w)      == [scalar |-> [text |-> Word(w), quoted |-> FALSE]]
Q(w)      == [scalar |-> [text |-> Word(w), quoted |-> TRUE]]
N(m, e)   == [scalar |-> [text |-> Number(<<m, e>>), quoted |-> FALSE]]
QN(m, e)  == [scalar |-> [text |-> Number(<<m, e>>), quoted |-> TRUE]]
D(y, m, d) == [scalar |-> [text |-> [date |-> <<y, m, d>>], quoted |-> FALSE]]
L(items)  == [seq |-> items]
M(map)    == [map |-> map]

Cond(f, op, v) == M([field |-> W(f), operator |-> W(op), value |-> v])
Leaf(r)     == M([result |-> W(r)])
Oblige(r, o) == M([result |-> W(r), obligations |-> L(<<M([id |-> W(o)])>>),
                   notes |-> W("why")])
Branch(c, t, f) == M([node_id |-> W("n"), condition |-> c,
                      true_branch |-> t, false_branch |-> f])
Source == M([document_id |-> W("mica"), article |-> W("a1"),
             paragraphs |-> L(<<W("p1")>>), pages |-> L(<<N(1, 0)>>)])

(* A rule with the required keys, and those of `more` over them.           *)
Rule(more) ==
  M([k \in {"rule_id", "decision_tree", "source", "interpretation_notes"} \cup DOMAIN more |->
       IF k \in DOMAIN more THEN more[k]
       ELSE CASE k = "rule_id" -> W("r1")
              [] k = "decision_tree" -> Leaf("yes")
              [] k = "source" -> Source
              [] k = "interpretation_notes" -> W("why")])

(* Literals: both sides of the bounds on digits and scale, integers whose  *)
(* neighbours round to them or do not, equal numbers written differently,  *)
(* texts that look like numbers.                                           *)
Literals ==
  { N(1, 0), N(10, 1), N(5, 1), N(150, 2), N(0, 1), N(-20, 1), N(300, 0), N(302, 0), N(600, 0),
    N(MaxMantissa, 0),
    N(MaxMantissa + 1, 0), N(12, MaxScale + 1), QN(10, 1), W("true"), W("uk"), Q("true") }

Numbers ==
  { Rule([decision_tree |-> Branch(Cond("amount", op, v), Oblige("yes", "o1"), Leaf("no"))]) :
      op \in {"==", "=", "!=", "<>", ">", "<", ">=", "<="}, v \in Literals }
  \cup
  { Rule([decision_tree |-> Branch(Cond("amount", op, L(<<v, w>>)), Leaf("yes"), Leaf("no"))]) :
      op \in {"in", "not_in", "not in", "=="}, v \in Literals, w \in {N(2, 0), W("eu")} }
  \cup
  { Rule([decision_tree |-> Branch(Cond("amount", op, L(<<L(<<v, W("eu")>>), N(2, 0)>>)),
                                   Leaf("yes"), Leaf("no"))]) :
      op \in {"in", "=="}, v \in {N(1, 0), N(10, 1), N(5, 1)} }

(* Applicability groups, one inside the other.                             *)
Kinds == {"all", "any"}
Group(kind, items) == M([k \in {kind} |-> L(items)])
A == Cond("a", "==", W("x"))
B == Cond("b", "exists", W("true"))
C == Cond("c", ">", N(1, 0))

Groups ==
  { Rule([applies_if |-> g,
          decision_tree |-> Branch(Cond("d", "in", L(<<W("x")>>)), Leaf("yes"), Leaf("no"))]) :
      g \in { Group(k, <<A, Group(j, items)>>) :
                k \in Kinds, j \in Kinds, items \in {<<>>, <<B>>, <<B, C>>} }
            \cup { Group(k, items) : k \in Kinds, items \in {<<>>, <<A>>, <<A, B, C>>} } }

Trees ==
  { Rule([decision_tree |-> t, tags |-> L(tags)]) :
      t \in { Branch(A, Branch(B, Oblige("yes", "o1"), Leaf("no")), Leaf("maybe")),
              Branch(C, Leaf("no"), Branch(A, Leaf("yes"), Oblige("no", "o2"))),
              Branch(A, Branch(A, Leaf("yes"), Leaf("no")), Leaf("no")) },
      tags \in { <<>>, <<W("t2"), W("t1")>>, <<W("t1"), W("t2")>>, <<W("t1"), W("t1")>> } }

(* Two rules over the same or different scopes and windows.                *)
Scope(c) == Group("all", <<c>>)
Scopes == { Cond("place", "==", W("uk")), Cond("place", "in", L(<<W("uk"), W("eu")>>)),
            Cond("place", "==", W("us")), A }
Window(from, to) == [effective_from |-> from, effective_to |-> to]
Windows == { Window(D(2024, 1, 1), D(2024, 6, 1)), Window(D(2024, 6, 1), D(2025, 1, 1)),
             Window(D(2024, 5, 31), D(2024, 6, 2)) }

Pairs ==
  { L(<< Rule([applies_if |-> Scope(s), decision_tree |-> t]),
         Rule([rule_id |-> W("r2"), applies_if |-> Scope(z), decision_tree |-> u]) >>) :
      s \in Scopes, z \in Scopes,
      t \in {Leaf("yes"), Branch(B, Leaf("yes"), Leaf("no"))},
      u \in {Leaf("yes"), Leaf("no"), Branch(B, Leaf("yes"), Leaf("yes"))} }
  \cup
  { L(<< Rule(v @@ [applies_if |-> Scope(Cond("place", "==", W("uk")))]),
         Rule(w @@ [rule_id |-> W("r2"), applies_if |-> Scope(Cond("place", "==", W("uk"))),
                    decision_tree |-> Branch(B, Leaf("yes"), Leaf("no"))]) >>) :
      v \in Windows \cup {[effective_from |-> D(2024, 6, 1)]},
      w \in Windows \cup {[effective_from |-> D(2024, 6, 2)], [effective_to |-> D(2024, 6, 2)]} }

(* What the compiler, the verifier or the encoder refuses.                 *)
Malformed ==
  { W("text"), L(<<W("text")>>), M([rule_id |-> W("r1")]),
    Rule([rule_id |-> W("")]), Rule([rule_id |-> W("two words")]),
    Rule([description |-> W("cafe+accent")]), Rule([source |-> M([article |-> W("a1")])]),
    Rule([source |-> M([document_id |-> W(""), pages |-> L(<<N(1, 0)>>)])]),
    Rule([source |-> M([document_id |-> W("mica"), pages |-> L(<<N(MaxPage + 1, 0)>>)])]),
    Rule([interpretation_notes |-> L(<<>>), decision_tree |-> Branch(C, Leaf("yes"), Leaf(""))]),
    Rule([decision_tree |-> M([node_id |-> W("n")])]),
    Rule([decision_tree |-> Branch(Cond("a", "like", W("x")), Leaf("yes"), Leaf("no"))]),
    Rule([decision_tree |-> Branch(Cond("a", "==", M([k |-> W("x")])), Leaf("yes"), Leaf("no"))]),
    Rule([effective_from |-> D(2024, 13, 1)]), Rule([effective_from |-> W("soon")]) }

MCDocuments == Numbers \cup Groups \cup Trees \cup Pairs \cup Malformed

Criterion(n, t, v) == [name |-> n, threshold |-> t, volatility |-> v]
MCIntents ==
  { [criteria |-> <<Criterion("c1", Number(t), v)>>] :
      t \in { <<100, 2>>, <<150, 2>>, <<0, 2>>, <<-5, 1>>, <<MaxMantissa, 1>>,
              <<MaxMantissa + 1, 0>>, <<1, MaxScale + 1>> },
      v \in {"stable", "volatile", "often"} }
  \cup { [criteria |-> <<>>], [criteria |-> <<Criterion("c1", Word("ten"), "stable")>>] }

(* Facts worth trying: those the generator derives from the rules, a few   *)
(* more of the types JSON has, and what is no object.                      *)
Sent(v) == [object |-> [f \in {Word("amount")} |-> v]]
MCPayloads(d) ==
  {List(<<>>)}
  \cup { Sent(v) : v \in { Null, FloatFact(<<10, 1>>), [object |-> "o"],
                           List(<<List(<<IntFact(1), Str(Word("eu"))>>), FloatFact(<<20, 1>>)>>) } }
  \cup { [object |-> s.facts] :
           s \in UNION { UNION { GenerateForRule(r) : r \in ToSet(rules) } :
                           rules \in IF IsIntent(d) THEN {} ELSE CompileRules(d) } }

(* The order of the texts the conditions compare, and other texts.         *)
Order == << Word("eu"), Word("true"), Word("uk"), Word("x") >>
MCTextLess(a, b) ==
  \E i, j \in DOMAIN Order : Order[i] = a /\ Order[j] = b /\ i < j
MCDifferent(text) == [different |-> text]
MCTagRank == [t \in {Word("t1"), Word("t2")} |-> IF t = Word("t1") THEN 1 ELSE 2]

(* Floats of eight bits: integers beyond 2^8 are rounded, to even from the *)
(* middle, at half the range of the integers a JSON number may be, as those *)
(* beyond 2^53 are with i64; the few digits of the fractions here are kept. *)
MCNearest(d) ==
  LET step    == CHOOSE s \in {1, 2, 4, 8, 16, 32, 64} :
                   Abs(d[1]) <= 256 * s /\ (s > 1 => Abs(d[1]) > 128 * s)
      below   == d[1] \div step
      beyond  == 2 * (d[1] % step)
      rounded == IF beyond > step \/ (beyond = step /\ below % 2 = 1)
                 THEN below + 1 ELSE below
  IN  IF d[2] = 0 THEN <<rounded * step, 0>> ELSE d

MCSpaced == {"two words"}
MCNonNfc == {"cafe+accent"}

=============================================================================
