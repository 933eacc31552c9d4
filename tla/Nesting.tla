------------------------------ MODULE Nesting ------------------------------
(***************************************************************************)
(* Data that nest: lists of scalars, groups of conditions, decision trees, *)
(* YAML nodes and the syntax trees made of them. The code walks them with  *)
(* recursive functions; here such a function is defined on the parts of    *)
(* the value it is given.                                                  *)
(***************************************************************************)
EXTENDS Integers, SequencesExt

CONSTANT MaxDepth  \* how deep a value of the model nests

ASSUME DepthAssumption == MaxDepth \in Nat

(* What a value directly holds under a key: a list its items, a group the  *)
(* members of its optional sides, a tree its branches, a YAML mapping its  *)
(* nodes.                                                                  *)
Held(x, k) ==
  CASE k \in {"list", "seq", "items"} -> ToSet(x[k])
    [] k = "all" -> UNION { ToSet(s) : s \in x.all \cup x.any }
    [] k = "true_branch" -> {x.true_branch, x.false_branch}
    [] k = "branches" -> x.branches[1] \cup x.branches[2]
    [] k = "map" -> { x.map[j] : j \in DOMAIN x.map }
    [] OTHER -> {}

Inside(x) == UNION { Held(x, k) : k \in DOMAIN x }

InsideAll(S) == UNION { Inside(y) : y \in S }

(* What it holds n levels down.                                            *)
Layers(x) ==
  LET layer[n \in 0 .. MaxDepth] ==
        IF n = 0 THEN {x} ELSE InsideAll(layer[n - 1])
  IN  layer

Parts(x) == UNION { Layers(x)[n] : n \in 0 .. MaxDepth }

(* Nothing in x is n levels down but what holds nothing.                   *)
Depth(x, n) == \A y \in Layers(x)[n] : Inside(y) = {}

Shallow(x) == Depth(x, MaxDepth)

=============================================================================
