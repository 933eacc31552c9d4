----------------------------- MODULE RuleProofs -----------------------------
(***************************************************************************)
(* Theorems about rules, for every document and every set of facts.        *)
(*                                                                         *)
(* The functions on lists, groups, trees and syntax trees are recursive.   *)
(* For each there is a lemma that it is its body, applied to itself on     *)
(* what a value holds inside, for every value that nests no deeper than    *)
(* MaxDepth; what holds of all such values is then shown by induction on   *)
(* how deep they nest.                                                     *)
(***************************************************************************)
EXTENDS RuleProperties, Induction

-----------------------------------------------------------------------------
(* Nesting.                                                                *)

LayerFunction(f, x, m) ==
  f = [n \in 0 .. m |-> IF n = 0 THEN {x} ELSE InsideAll(f[n - 1])]

(* Each layer is what is inside the one above it.                          *)
LEMMA LayersAreLayers ==
  ASSUME NEW x
  PROVE  /\ Layers(x)[0] = {x}
         /\ \A n \in Nat : n + 1 <= MaxDepth => Layers(x)[n + 1] = InsideAll(Layers(x)[n])
<1> DEFINE S == {m \in Nat : \E f : LayerFunction(f, x, m)}
<1>1. 0 \in S
  <2> DEFINE f == [n \in 0 .. 0 |-> {x}]
  <2>1. f = [n \in 0 .. 0 |-> IF n = 0 THEN {x} ELSE InsideAll(f[n - 1])]
    OBVIOUS
  <2> QED BY <2>1 DEF LayerFunction
<1>2. ASSUME NEW m \in Nat, m \in S PROVE m + 1 \in S
  <2>1. PICK f : LayerFunction(f, x, m)
    BY <1>2
  <2> DEFINE g == [n \in 0 .. m + 1 |-> IF n = m + 1 THEN InsideAll(f[m]) ELSE f[n]]
  <2>2. \A n \in 0 .. m : f[n] = IF n = 0 THEN {x} ELSE InsideAll(f[n - 1])
    BY <2>1 DEF LayerFunction
  <2>3. ASSUME NEW n \in 0 .. m + 1
        PROVE  g[n] = IF n = 0 THEN {x} ELSE InsideAll(g[n - 1])
    <3>1. CASE n = m + 1
      <4>1. g[n] = InsideAll(f[m]) /\ g[m] = f[m] /\ n - 1 = m /\ n # 0
        BY <3>1
      <4> QED BY <4>1
    <3>2. CASE n # m + 1
      <4>1. n \in 0 .. m /\ g[n] = f[n]
        BY <3>2
      <4>2. n # 0 => n - 1 \in 0 .. m /\ g[n - 1] = f[n - 1]
        BY <4>1
      <4> QED BY <2>2, <4>1, <4>2
    <3> QED BY <3>1, <3>2
  <2> HIDE DEF g
  <2>4. g = [n \in 0 .. m + 1 |-> IF n = 0 THEN {x} ELSE InsideAll(g[n - 1])]
    <3>1. g = [n \in 0 .. m + 1 |-> g[n]]
      BY DEF g
    <3> QED BY <2>3, <3>1
  <2> QED BY <2>4 DEF LayerFunction
<1> HIDE DEF S
<1>3. Nat \subseteq S
  BY <1>1, <1>2, NatSetInduction
<1>4. \E f : LayerFunction(f, x, MaxDepth)
  BY <1>3, DepthAssumption DEF S
<1>5. LayerFunction(Layers(x), x, MaxDepth)
  <2> DEFINE F == CHOOSE f : f = [n \in 0 .. MaxDepth |->
                                    IF n = 0 THEN {x} ELSE InsideAll(f[n - 1])]
  <2>1. Layers(x) = F
    BY Zenon DEF Layers
  <2>2. LayerFunction(F, x, MaxDepth)
    BY <1>4, Zenon DEF LayerFunction
  <2> QED BY <2>1, <2>2
<1>6. \A n \in 0 .. MaxDepth :
        Layers(x)[n] = IF n = 0 THEN {x} ELSE InsideAll(Layers(x)[n - 1])
  BY <1>5 DEF LayerFunction
<1>7. 0 \in 0 .. MaxDepth
  BY DepthAssumption
<1>8. ASSUME NEW n \in Nat, n + 1 <= MaxDepth
      PROVE  Layers(x)[n + 1] = InsideAll(Layers(x)[n])
  <2>1. n + 1 \in 0 .. MaxDepth /\ n + 1 # 0 /\ (n + 1) - 1 = n
    BY <1>8, DepthAssumption
  <2> QED BY <1>6, <2>1
<1> QED BY <1>6, <1>7, <1>8


(* ... or what is inside of what is inside at the top.                     *)
LEMMA LayersFromInside ==
  ASSUME NEW x
  PROVE  \A n \in Nat : n + 1 <= MaxDepth =>
           \A z : z \in Layers(x)[n + 1] <=> \E y \in Inside(x) : z \in Layers(y)[n]
<1> DEFINE S == {n \in Nat : n + 1 <= MaxDepth =>
                   \A z : z \in Layers(x)[n + 1] <=> \E y \in Inside(x) : z \in Layers(y)[n]}
<1>1. 0 \in S
  <2> SUFFICES ASSUME 0 + 1 <= MaxDepth
               PROVE  \A z : z \in Layers(x)[0 + 1] <=> \E y \in Inside(x) : z \in Layers(y)[0]
    OBVIOUS
  <2>1. Layers(x)[0 + 1] = InsideAll({x})
    BY LayersAreLayers
  <2>2. \A z : z \in InsideAll({x}) <=> z \in Inside(x)
    BY DEF InsideAll
  <2>3. \A y : Layers(y)[0] = {y}
    BY LayersAreLayers
  <2> HIDE DEF S
  <2> QED BY <2>1, <2>2, <2>3, Zenon
<1>2. ASSUME NEW n \in Nat, n \in S PROVE n + 1 \in S
  <2> SUFFICES ASSUME (n + 1) + 1 <= MaxDepth, NEW z
               PROVE  z \in Layers(x)[(n + 1) + 1]
                        <=> \E y \in Inside(x) : z \in Layers(y)[n + 1]
    OBVIOUS
  <2>1. n + 1 <= MaxDepth /\ n + 1 \in Nat
    BY DepthAssumption
  <2>2. \A w : w \in Layers(x)[n + 1] <=> \E y \in Inside(x) : w \in Layers(y)[n]
    BY <1>2, <2>1
  <2>3. Layers(x)[(n + 1) + 1] = InsideAll(Layers(x)[n + 1])
    BY <2>1, LayersAreLayers
  <2>4. \A y : Layers(y)[n + 1] = InsideAll(Layers(y)[n])
    BY <2>1, LayersAreLayers
  <2>5. \A T : z \in InsideAll(T) <=> \E w \in T : z \in Inside(w)
    BY DEF InsideAll
  <2>6. z \in Layers(x)[(n + 1) + 1] <=> \E w \in Layers(x)[n + 1] : z \in Inside(w)
    BY <2>3, <2>5
  <2>7. \A y : z \in Layers(y)[n + 1] <=> \E w \in Layers(y)[n] : z \in Inside(w)
    BY <2>4, <2>5
  <2> HIDE DEF S
  <2> QED BY <2>2, <2>6, <2>7
<1> HIDE DEF S
<1>3. Nat \subseteq S
  BY <1>1, <1>2, NatSetInduction
<1> QED BY <1>3 DEF S

(* To nest no deeper than n + 1 is to hold what nests no deeper than n.    *)
LEMMA DepthOfInside ==
  /\ \A x : Depth(x, 0) <=> Inside(x) = {}
  /\ \A x, n : n \in Nat /\ n + 1 <= MaxDepth
               => (Depth(x, n + 1) <=> \A y \in Inside(x) : Depth(y, n))
<1>1. ASSUME NEW x PROVE Depth(x, 0) <=> Inside(x) = {}
  BY LayersAreLayers DEF Depth
<1>2. ASSUME NEW x, NEW n, n \in Nat, n + 1 <= MaxDepth
      PROVE  Depth(x, n + 1) <=> \A y \in Inside(x) : Depth(y, n)
  <2>1. \A z : z \in Layers(x)[n + 1] <=> \E y \in Inside(x) : z \in Layers(y)[n]
    BY <1>2, LayersFromInside
  <2> QED BY <2>1, Zenon DEF Depth
<1> QED BY <1>1, <1>2

LEMMA DepthGrows ==
  ASSUME NEW n \in Nat
  PROVE  \A x : n + 1 <= MaxDepth /\ Depth(x, n) => Depth(x, n + 1)
<1> SUFFICES ASSUME NEW x, n + 1 <= MaxDepth, Depth(x, n) PROVE Depth(x, n + 1)
  OBVIOUS
<1>1. Layers(x)[n + 1] = InsideAll(Layers(x)[n])
  BY LayersAreLayers
<1>2. InsideAll(Layers(x)[n]) = {}
  BY DEF Depth, InsideAll
<1> QED BY <1>1, <1>2 DEF Depth

(* What is inside, however deep.                                           *)
Below(x) == UNION { Parts(y) : y \in Inside(x) }

(* What is inside x nests no deeper than x.                                *)
LEMMA PartsAreLower ==
  ASSUME NEW x, NEW n \in Nat, n <= MaxDepth, Depth(x, n)
  PROVE  \A y \in Parts(x) : Depth(y, n)
<1> DEFINE S == {k \in Nat : k <= MaxDepth => \A y \in Layers(x)[k] : Depth(y, n)}
<1>1. 0 \in S
  BY LayersAreLayers
<1>2. ASSUME NEW k \in Nat, k \in S PROVE k + 1 \in S
  <2> SUFFICES ASSUME k + 1 <= MaxDepth, NEW y \in Layers(x)[k + 1] PROVE Depth(y, n)
    OBVIOUS
  <2>1. PICK w \in Layers(x)[k] : y \in Inside(w)
    BY LayersAreLayers DEF InsideAll
  <2>2. Depth(w, n)
    BY <1>2, DepthAssumption
  <2>3. n # 0
    BY <2>1, <2>2, DepthOfInside
  <2>4. PICK m \in Nat : n = m + 1
    BY <2>3
  <2>5. Depth(y, m)
    BY <2>1, <2>2, <2>4, DepthOfInside
  <2> QED BY <2>4, <2>5, DepthGrows
<1> HIDE DEF S
<1>3. Nat \subseteq S
  BY <1>1, <1>2, NatSetInduction
<1>4. ASSUME NEW y \in Parts(x) PROVE Depth(y, n)
  <2>1. PICK k \in 0 .. MaxDepth : y \in Layers(x)[k]
    BY DEF Parts
  <2>2. k \in Nat /\ k <= MaxDepth
    BY DepthAssumption
  <2> QED BY <1>3, <2>1, <2>2 DEF S
<1> QED BY <1>4

(* The parts of a value of bounded depth are closed.                       *)
LEMMA PartsAreClosed ==
  ASSUME NEW x, Shallow(x)
  PROVE  /\ x \in Parts(x)
         /\ \A y \in Parts(x) : /\ Shallow(y)
                                /\ Inside(y) \subseteq Parts(x)
                                /\ Parts(y) \subseteq Parts(x)
                                /\ Below(y) \subseteq Parts(x)
<1>1. x \in Parts(x)
  <2>1. 0 \in 0 .. MaxDepth /\ x \in Layers(x)[0]
    BY LayersAreLayers, DepthAssumption
  <2> QED BY <2>1 DEF Parts
<1>2. ASSUME NEW y \in Parts(x) PROVE Shallow(y)
  BY PartsAreLower, DepthAssumption DEF Shallow
<1>3. ASSUME NEW y \in Parts(x) PROVE Inside(y) \subseteq Parts(x)
  <2>1. PICK k \in 0 .. MaxDepth : y \in Layers(x)[k]
    BY DEF Parts
  <2>2. CASE k = MaxDepth
    <3>1. Inside(y) = {}
      BY <2>1, <2>2 DEF Shallow, Depth
    <3> QED BY <3>1
  <2>3. CASE k # MaxDepth
    <3>1. k \in Nat /\ k + 1 <= MaxDepth /\ k + 1 \in 0 .. MaxDepth
      BY <2>3, DepthAssumption
    <3>2. Inside(y) \subseteq Layers(x)[k + 1]
      BY <2>1, <3>1, LayersAreLayers DEF InsideAll
    <3> QED BY <3>1, <3>2 DEF Parts
  <2> QED BY <2>2, <2>3
<1>4. ASSUME NEW y \in Parts(x) PROVE Parts(y) \subseteq Parts(x)
  <2> DEFINE S == {k \in Nat : k <= MaxDepth => Layers(y)[k] \subseteq Parts(x)}
  <2>1. 0 \in S
    BY LayersAreLayers
  <2>2. ASSUME NEW k \in Nat, k \in S PROVE k + 1 \in S
    <3> SUFFICES ASSUME k + 1 <= MaxDepth PROVE Layers(y)[k + 1] \subseteq Parts(x)
      OBVIOUS
    <3>1. Layers(y)[k] \subseteq Parts(x)
      BY <2>2, DepthAssumption
    <3>2. Layers(y)[k + 1] = InsideAll(Layers(y)[k])
      BY LayersAreLayers
    <3> QED BY <1>3, <3>1, <3>2 DEF InsideAll
  <2> HIDE DEF S
  <2>3. Nat \subseteq S
    BY <2>1, <2>2, NatSetInduction
  <2>4. \A k \in 0 .. MaxDepth : Layers(y)[k] \subseteq Parts(x)
    BY <2>3, DepthAssumption DEF S
  <2> QED BY <2>4 DEF Parts
<1>5. ASSUME NEW y \in Parts(x) PROVE Below(y) \subseteq Parts(x)
  BY <1>3, <1>4 DEF Below
<1> QED BY <1>1, <1>2, <1>3, <1>4, <1>5

(* The parts of r that nest no deeper than n - 1.                          *)
Lower(r, n) == {x \in Parts(r) : n > 0 /\ Depth(x, n - 1)}

LEMMA LowerGrows ==
  ASSUME NEW r, Shallow(r)
  PROVE  /\ Lower(r, 0) = {}
         /\ \A n \in Nat : n <= MaxDepth =>
              \A x \in Lower(r, n + 1) : Below(x) \subseteq Lower(r, n)
         /\ Lower(r, MaxDepth + 1) = Parts(r)
<1>1. Lower(r, 0) = {}
  BY DEF Lower
<1>2. ASSUME NEW n \in Nat, n <= MaxDepth, NEW x \in Lower(r, n + 1), NEW z \in Below(x)
      PROVE  z \in Lower(r, n)
  <2>1. x \in Parts(r) /\ Depth(x, n)
    BY <1>2 DEF Lower
  <2>2. PICK y \in Inside(x) : z \in Parts(y)
    BY DEF Below
  <2>3. n # 0
    BY <2>1, <2>2, DepthOfInside
  <2>4. PICK m \in Nat : n = m + 1
    BY <2>3
  <2>5. Depth(y, m)
    BY <1>2, <2>1, <2>2, <2>4, DepthOfInside
  <2>6. Depth(z, m)
    BY <1>2, <2>2, <2>4, <2>5, PartsAreLower, DepthAssumption
  <2>7. z \in Parts(r)
    BY <2>1, PartsAreClosed
  <2> QED BY <2>4, <2>6, <2>7 DEF Lower
<1>3. Lower(r, MaxDepth + 1) = Parts(r)
  <2>1. \A x \in Parts(r) : Depth(x, MaxDepth)
    BY PartsAreClosed DEF Shallow
  <2> QED BY <2>1, DepthAssumption DEF Lower
<1> QED BY <1>1, <1>2, <1>3

LEMMA LowerOnLower ==
  ASSUME NEW r, NEW n \in Nat, n <= MaxDepth
  PROVE  Lower(r, n) \subseteq Lower(r, n + 1)
<1> SUFFICES ASSUME NEW x \in Lower(r, n) PROVE x \in Lower(r, n + 1)
  OBVIOUS
<1>1. x \in Parts(r) /\ n > 0 /\ Depth(x, n - 1)
  BY DEF Lower
<1>2. PICK m \in Nat : n = m + 1
  BY <1>1
<1>3. Depth(x, m)
  BY <1>1, <1>2
<1>4. Depth(x, m + 1)
  BY <1>2, <1>3, DepthGrows
<1> QED BY <1>1, <1>2, <1>4 DEF Lower

(* What holds of a part when it holds of all below it holds of all parts.  *)
LEMMA NestingInduction ==
  ASSUME NEW r, Shallow(r), NEW S,
         \A x \in Parts(r) : Below(x) \subseteq S => x \in S
  PROVE  Parts(r) \subseteq S
<1> DEFINE N == {n \in Nat : n <= MaxDepth + 1 => Lower(r, n) \subseteq S}
<1>1. 0 \in N
  BY LowerGrows
<1>2. ASSUME NEW n \in Nat, n \in N PROVE n + 1 \in N
  <2> SUFFICES ASSUME n + 1 <= MaxDepth + 1, NEW x \in Lower(r, n + 1) PROVE x \in S
    OBVIOUS
  <2>1. n <= MaxDepth /\ n <= MaxDepth + 1
    BY DepthAssumption
  <2>2. Below(x) \subseteq S
    BY <1>2, <2>1, LowerGrows
  <2> QED BY <2>2 DEF Lower
<1> HIDE DEF N
<1>3. Nat \subseteq N
  BY <1>1, <1>2, NatSetInduction
<1> QED BY <1>3, LowerGrows, DepthAssumption DEF N

(* Two functions that each are determined at a value by what they are      *)
(* below it agree where both are defined.                                  *)
LEMMA NestedAgree ==
  ASSUME NEW r, Shallow(r), NEW x \in Parts(r), NEW f, NEW g,
         \A y \in Parts(x) : (\A z \in Below(y) : f[z] = g[z]) => f[y] = g[y]
  PROVE  f[x] = g[x]
<1> DEFINE S == {y \in Parts(x) : f[y] = g[y]}
<1>1. Shallow(x)
  BY PartsAreClosed
<1>2. ASSUME NEW y \in Parts(x), Below(y) \subseteq S PROVE y \in S
  BY <1>2
<1> HIDE DEF S
<1>3. Parts(x) \subseteq S
  BY <1>1, <1>2, NestingInduction
<1>4. x \in Parts(x)
  BY <1>1, PartsAreClosed
<1> QED BY <1>3, <1>4 DEF S


(* What is directly inside is below.                                       *)
LEMMA InsideIsBelow ==
  ASSUME NEW x
  PROVE  Inside(x) \subseteq Below(x)
<1> SUFFICES ASSUME NEW y \in Inside(x) PROVE y \in Below(x)
  OBVIOUS
<1>1. 0 \in 0 .. MaxDepth /\ y \in Layers(y)[0]
  BY LayersAreLayers, DepthAssumption
<1>2. y \in Parts(y)
  BY <1>1 DEF Parts
<1> QED BY <1>2 DEF Below

(* A value's parts are itself and what is below it.                        *)
LEMMA PartsAndBelow ==
  ASSUME NEW x, Shallow(x)
  PROVE  Parts(x) = {x} \cup Below(x)
<1>1. {x} \cup Below(x) \subseteq Parts(x)
  BY PartsAreClosed
<1>2. ASSUME NEW y \in Parts(x), y # x PROVE y \in Below(x)
  <2>1. PICK k \in 0 .. MaxDepth : y \in Layers(x)[k]
    BY DEF Parts
  <2>2. k # 0
    BY <1>2, <2>1, LayersAreLayers
  <2>3. PICK n \in Nat : k = n + 1 /\ n \in 0 .. MaxDepth
    BY <2>2, DepthAssumption
  <2>4. k <= MaxDepth
    BY <2>1, DepthAssumption
  <2>5. PICK z \in Inside(x) : y \in Layers(z)[n]
    BY <2>1, <2>3, <2>4, LayersFromInside
  <2>6. y \in Parts(z)
    BY <2>3, <2>5 DEF Parts
  <2> QED BY <2>5, <2>6 DEF Below
<1> QED BY <1>1, <1>2

(* What the kinds of values hold.                                          *)
LEMMA HeldByKey ==
  ASSUME NEW x
  PROVE  /\ \A k \in {"list", "seq", "items"} : Held(x, k) = ToSet(x[k])
         /\ Held(x, "all") = UNION { ToSet(s) : s \in x.all \cup x.any }
         /\ Held(x, "true_branch") = {x.true_branch, x.false_branch}
         /\ Held(x, "branches") = x.branches[1] \cup x.branches[2]
         /\ Held(x, "map") = { x.map[j] : j \in DOMAIN x.map }
         /\ \A k : k \notin {"list", "seq", "items", "all", "true_branch", "branches", "map"}
                  => Held(x, k) = {}
<1>1. \A k \in {"list", "seq", "items"} : Held(x, k) = ToSet(x[k])
  <2>1. Held(x, "list") = ToSet(x.list)
    BY DEF Held
  <2>2. Held(x, "seq") = ToSet(x.seq)
    BY DEF Held
  <2>3. Held(x, "items") = ToSet(x.items)
    BY DEF Held
  <2> QED BY <2>1, <2>2, <2>3
<1>2. Held(x, "all") = UNION { ToSet(s) : s \in x.all \cup x.any }
  BY DEF Held
<1>3. Held(x, "true_branch") = {x.true_branch, x.false_branch}
  BY DEF Held
<1>4. Held(x, "branches") = x.branches[1] \cup x.branches[2]
  BY DEF Held
<1>5. Held(x, "map") = { x.map[j] : j \in DOMAIN x.map }
  BY DEF Held
<1>6. \A k : k \notin {"list", "seq", "items", "all", "true_branch", "branches", "map"}
              => Held(x, k) = {}
  BY DEF Held
<1> QED BY <1>1, <1>2, <1>3, <1>4, <1>5, <1>6

(* A group's members are inside it.                                        *)
LEMMA MembersAreInside ==
  ASSUME NEW x, "all" \in DOMAIN x, NEW s \in x.all \cup x.any, NEW i \in DOMAIN s
  PROVE  s[i] \in Below(x)
<1>1. s[i] \in Held(x, "all")
  <2>1. s[i] \in ToSet(s)
    BY DEF ToSet
  <2>2. Held(x, "all") = UNION { ToSet(z) : z \in x.all \cup x.any }
    BY HeldByKey
  <2> QED BY <2>1, <2>2
<1> QED BY <1>1, InsideIsBelow DEF Inside

-----------------------------------------------------------------------------
(* The pipeline.                                                           *)

(* A document compiles to one set of rules or to none.                     *)
LEMMA CompiledIsOne ==
  ASSUME doc \in Documents \cup IntentDocuments
  PROVE  \A a, b \in Compiled : a = b
<1>1. \A s : \A a, b \in AllOf(s) : a = b
  BY DEF AllOf
<1>2. ASSUME NEW root, DOMAIN root \in {{"scalar"}, {"seq"}, {"map"}}
      PROVE  \A a, b \in ParseRules(root) : a = b
  <2>1. CASE DOMAIN root = {"scalar"}
    <3>1. ParseRules(root) = {}
      BY <2>1 DEF ParseRules
    <3> QED BY <3>1
  <2>2. CASE DOMAIN root = {"seq"}
    <3>1. \E s : ParseRules(root) = AllOf(s)
      BY <2>2 DEF ParseRules, EachMapping
    <3> QED BY <1>1, <3>1
  <2>3. CASE DOMAIN root = {"map"}
    <3>1. \E s : ParseRules(root) = AllOf(s)
      BY <2>3 DEF ParseRules, EachMapping
    <3> QED BY <1>1, <3>1
  <2> QED BY <1>2, <2>1, <2>2, <2>3
<1>3. CASE IsIntent(doc)
  BY <1>3 DEF Compiled
<1>4. CASE ~ IsIntent(doc)
  <2>1. IsYaml(doc)
    BY <1>4, DocumentsAssumption
  <2>2. DOMAIN doc \in {{"scalar"}, {"seq"}, {"map"}}
    BY <2>1, PartsAreClosed DEF IsYaml
  <2>3. ASSUME NEW a \in Compiled, NEW b \in Compiled PROVE a = b
    <3>1. a \in CompileRules(doc) /\ b \in CompileRules(doc)
      BY <1>4, <2>3 DEF Compiled
    <3>2. PICK s \in ParseRules(doc) : a \in AllOf([i \in DOMAIN s |-> LowerRule(s[i])])
      BY <3>1, Zenon DEF CompileRules
    <3>3. PICK z \in ParseRules(doc) : b \in AllOf([i \in DOMAIN z |-> LowerRule(z[i])])
      BY <3>1, Zenon DEF CompileRules
    <3>4. s = z
      BY <1>2, <2>2, <3>2, <3>3
    <3> QED BY <1>1, <3>2, <3>3, <3>4
  <2> QED BY <2>3
<1> QED BY <1>3, <1>4

EvaluatesAll(evaluations, rules, facts) ==
  evaluations = [i \in DOMAIN rules |-> Evaluate(rules[i], facts)]

(* What is stored is the canonical form of what the document compiled to,  *)
(* with nothing blocking in it.                                            *)
StoredIsCompiled ==
  \A rules \in StoredRules :
    \E source \in Compiled : /\ ~ HasBlocking(Verify(source))
                             /\ rules \in EncodeRules(source)

(* An answer is about the document, or what is stored.                     *)
AnswerIsOurs ==
  /\ answer.what = "intent" => answer.spec \in ParseIntentSpec(doc)
  /\ answer.what = "report" => \E rules \in Compiled : answer.report = Verify(rules)
  /\ answer.what = "scenario" =>
       \E rules \in Compiled : \E i \in DOMAIN rules :
         /\ answer.rule = rules[i] /\ answer.scenario \in GenerateForRule(rules[i])
         /\ answer.facts \in FactsFromJson([object |-> answer.scenario.facts])
         /\ answer.evaluation = Evaluate(rules[i], answer.facts)
  /\ answer.what = "evaluations" =>
       /\ answer.from = "source" =>
            \E rules \in Compiled : EvaluatesAll(answer.evaluations, rules, answer.facts)
       /\ answer.from = "hash" =>
            \E rules \in StoredRules : EvaluatesAll(answer.evaluations, rules, answer.facts)

PipelineInv ==
  /\ doc \in Documents \cup IntentDocuments
  /\ StoredIsCompiled
  /\ AnswerIsOurs

LEMMA EvaluateAllAnswers ==
  ASSUME NEW rules, NEW from, NEW payload, NEW a, a = EvaluateAll(rules, from, payload)
  PROVE  \/ a.what = "refused"
         \/ /\ a.what = "evaluations" /\ a.from = from
            /\ EvaluatesAll(a.evaluations, rules, a.facts)
<1>1. CASE FactsFromJson(payload) = {}
  BY <1>1 DEF EvaluateAll, Fail
<1>2. CASE FactsFromJson(payload) # {}
  <2> DEFINE facts == CHOOSE f \in FactsFromJson(payload) : TRUE
  <2>1. a = [ what |-> "evaluations", from |-> from, facts |-> facts,
              evaluations |-> [i \in DOMAIN rules |-> Evaluate(rules[i], facts)] ]
    BY <1>2, Zenon DEF EvaluateAll
  <2> HIDE DEF facts
  <2> QED BY <2>1 DEF EvaluatesAll
<1> QED BY <1>1, <1>2

(* The invariant: what the store holds and what was answered is true of    *)
(* the document, in every reachable state.                                 *)
THEOREM PipelineInvariance == Spec => []PipelineInv
<1>1. Init => PipelineInv
  BY DEF Init, PipelineInv, StoredIsCompiled, StoredRules, AnswerIsOurs, Idle
<1>2. PipelineInv /\ [Next]_vars => PipelineInv'
  <2> SUFFICES ASSUME PipelineInv, [Next]_vars PROVE PipelineInv'
    OBVIOUS
  <2> USE DEF PipelineInv
  <2>1. ASSUME UNCHANGED doc PROVE Compiled' = Compiled
    BY <2>1, Zenon DEF Compiled
  <2>2. ASSUME UNCHANGED <<doc, stored>> PROVE StoredIsCompiled' /\ StoredRules' = StoredRules
    <3>1. StoredRules' = StoredRules
      BY <2>2, Zenon DEF StoredRules
    <3> QED BY <2>1, <2>2, <3>1, Zenon DEF StoredIsCompiled
  <2>3. ASSUME answer'.what \notin {"intent", "report", "scenario", "evaluations"}
        PROVE  AnswerIsOurs'
    BY <2>3 DEF AnswerIsOurs
  <2>4. CASE Preview
    <3>1. UNCHANGED <<doc, stored>>
      BY <2>4 DEF Preview
    <3>2. CASE answer' = Fail("compile_error")
      BY <2>2, <2>3, <3>1, <3>2 DEF Fail
    <3>3. ASSUME NEW rules \in Compiled, answer' = [what |-> "report", report |-> Verify(rules)]
          PROVE  AnswerIsOurs'
      BY <2>1, <3>1, <3>3 DEF AnswerIsOurs
    <3> QED BY <2>2, <2>4, <3>1, <3>2, <3>3 DEF Preview
  <2>5. CASE Lint
    <3>1. UNCHANGED <<doc, stored>>
      BY <2>5 DEF Lint
    <3>2. answer'.what \in {"lint", "refused"}
      BY <2>5 DEF Lint, Fail
    <3> QED BY <2>2, <2>3, <3>1, <3>2
  <2>6. CASE Compile
    <3>1. UNCHANGED doc
      BY <2>6 DEF Compile
    <3>2. answer'.what \in {"stored", "refused"}
      BY <2>6 DEF Compile, Fail
    <3>3. CASE UNCHANGED stored
      BY <2>2, <2>3, <3>1, <3>2, <3>3
    <3>4. ASSUME NEW rules \in Compiled, ~ HasBlocking(Verify(rules)),
                 NEW canonical \in EncodeRules(rules),
                 stored' = stored \cup {[rules |-> canonical]}
          PROVE  StoredIsCompiled'
      <4>1. StoredRules' = StoredRules \cup {canonical}
        <5> DEFINE new == [rules |-> canonical]
                   Sets(P) == { item.rules : item \in { p \in P : "rules" \in DOMAIN p } }
        <5>1. DOMAIN new = {"rules"} /\ new.rules = canonical
          OBVIOUS
        <5>2. StoredRules = Sets(stored) /\ StoredRules' = Sets(stored')
          BY DEF StoredRules
        <5>3. stored' = stored \cup {new}
          BY <3>4
        <5> HIDE DEF new
        <5>4. Sets(stored \cup {new}) = Sets(stored) \cup {new.rules}
          BY <5>1
        <5> QED BY <5>1, <5>2, <5>3, <5>4
      <4> QED BY <2>1, <3>1, <3>4, <4>1 DEF StoredIsCompiled
    <3> QED BY <2>3, <2>6, <3>1, <3>2, <3>3, <3>4 DEF Compile
  <2>7. CASE CompileIntent
    <3>1. UNCHANGED doc
      BY <2>7 DEF CompileIntent
    <3>2. StoredRules' = StoredRules
      BY <2>7 DEF CompileIntent, StoredRules
    <3>3. StoredIsCompiled'
      BY <2>1, <3>1, <3>2 DEF StoredIsCompiled
    <3>4. CASE answer' = Fail("intent_error")
      BY <2>3, <3>1, <3>3, <3>4 DEF Fail
    <3>5. ASSUME NEW spec \in ParseIntentSpec(doc),
                 answer' = [what |-> "intent", spec |-> spec]
          PROVE  AnswerIsOurs'
      <4>1. ParseIntentSpec(doc)' = ParseIntentSpec(doc)
        BY <3>1, Zenon
      <4> QED BY <3>5, <4>1 DEF AnswerIsOurs
    <3> QED BY <2>7, <3>1, <3>3, <3>4, <3>5 DEF CompileIntent
  <2>8. CASE GenScenarios
    <3>1. UNCHANGED <<doc, stored>>
      BY <2>8 DEF GenScenarios
    <3>2. PICK rules \in Compiled : \E i \in DOMAIN rules :
            \E s \in GenerateForRule(rules[i]) :
              \E facts \in FactsFromJson([object |-> s.facts]) :
                answer' = [ what |-> "scenario", rule |-> rules[i], scenario |-> s,
                            facts |-> facts, evaluation |-> Evaluate(rules[i], facts) ]
      BY <2>8 DEF GenScenarios
    <3>3. PICK i \in DOMAIN rules : \E s \in GenerateForRule(rules[i]) :
            \E facts \in FactsFromJson([object |-> s.facts]) :
              answer' = [ what |-> "scenario", rule |-> rules[i], scenario |-> s,
                          facts |-> facts, evaluation |-> Evaluate(rules[i], facts) ]
      BY <3>2
    <3>4. AnswerIsOurs'
      BY <2>1, <3>1, <3>3 DEF AnswerIsOurs
    <3> QED BY <2>2, <3>1, <3>4
  <2>9. CASE DryRunSource
    <3>1. UNCHANGED <<doc, stored>>
      BY <2>9 DEF DryRunSource
    <3>2. CASE answer' = Fail("compile_error")
      BY <2>2, <2>3, <3>1, <3>2 DEF Fail
    <3>3. ASSUME NEW rules \in Compiled, NEW payload,
                 answer' = EvaluateAll(rules, "source", payload)
          PROVE  AnswerIsOurs'
      <4>1. \/ answer'.what = "refused"
            \/ /\ answer'.what = "evaluations" /\ answer'.from = "source"
               /\ EvaluatesAll(answer'.evaluations, rules, answer'.facts)
        BY <3>3, EvaluateAllAnswers
      <4> QED BY <2>1, <3>1, <4>1 DEF AnswerIsOurs
    <3> QED BY <2>2, <2>9, <3>1, <3>2, <3>3 DEF DryRunSource
  <2>10. CASE DryRunHash
    <3>1. UNCHANGED <<doc, stored>>
      BY <2>10 DEF DryRunHash
    <3>2. PICK item \in stored : \E payload :
            answer' = IF ~ Decodes(item) THEN Fail("artifact_decode")
                      ELSE IF "rules" \notin DOMAIN item THEN Fail("bad_request")
                      ELSE EvaluateAll(item.rules, "hash", payload)
      BY <2>10 DEF DryRunHash
    <3>3. PICK payload :
            answer' = IF ~ Decodes(item) THEN Fail("artifact_decode")
                      ELSE IF "rules" \notin DOMAIN item THEN Fail("bad_request")
                      ELSE EvaluateAll(item.rules, "hash", payload)
      BY <3>2
    <3>4. CASE "rules" \in DOMAIN item /\ answer' = EvaluateAll(item.rules, "hash", payload)
      <4>1. \/ answer'.what = "refused"
            \/ /\ answer'.what = "evaluations" /\ answer'.from = "hash"
               /\ EvaluatesAll(answer'.evaluations, item.rules, answer'.facts)
        BY <3>4, EvaluateAllAnswers
      <4>2. item.rules \in StoredRules
        BY <3>4 DEF StoredRules
      <4>3. AnswerIsOurs'
        BY <2>2, <3>1, <4>1, <4>2 DEF AnswerIsOurs
      <4> QED BY <2>2, <3>1, <4>3
    <3>5. CASE answer'.what = "refused"
      BY <2>2, <2>3, <3>1, <3>5
    <3>6. \/ "rules" \in DOMAIN item /\ answer' = EvaluateAll(item.rules, "hash", payload)
          \/ answer'.what = "refused"
      <4>1. CASE "rules" \notin DOMAIN item /\ Decodes(item)
        <5>1. answer' = Fail("bad_request")
          BY <3>3, <4>1
        <5> QED BY <5>1 DEF Fail
      <4>2. CASE "rules" \in DOMAIN item /\ Decodes(item)
        <5>1. answer' = EvaluateAll(item.rules, "hash", payload)
          BY <3>3, <4>2
        <5> QED BY <4>2, <5>1
      <4>3. CASE ~ Decodes(item)
        <5>1. answer' = Fail("artifact_decode")
          BY <3>3, <4>3
        <5> QED BY <5>1 DEF Fail
      <4> QED BY <4>1, <4>2, <4>3
    <3> QED BY <3>4, <3>5, <3>6
  <2>11. CASE ReadAnswer
    <3>1. UNCHANGED <<doc, stored>> /\ answer'.what = "idle"
      BY <2>11 DEF ReadAnswer, Idle
    <3> QED BY <2>2, <2>3, <3>1
  <2>12. CASE UNCHANGED vars
    <3>1. UNCHANGED <<doc, stored, answer>>
      BY <2>12 DEF vars
    <3>2. AnswerIsOurs'
      BY <2>1, <2>2, <3>1 DEF AnswerIsOurs
    <3> QED BY <2>2, <3>1, <3>2
  <2> QED BY <2>4, <2>5, <2>6, <2>7, <2>8, <2>9, <2>10, <2>11, <2>12 DEF Next
<1> QED BY <1>1, <1>2, PTL DEF Spec

-----------------------------------------------------------------------------
(* Windows.                                                                *)

LEMMA AllOfMembers ==
  ASSUME NEW s, NEW a \in AllOf(s)
  PROVE  /\ a = [i \in DOMAIN s |-> a[i]]
         /\ \A i \in DOMAIN s : a[i] \in s[i]
<1>1. a = [i \in DOMAIN s |-> CHOOSE x \in s[i] : TRUE] /\ \A i \in DOMAIN s : s[i] # {}
  BY DEF AllOf
<1>2. \A i \in DOMAIN s : (CHOOSE x \in s[i] : TRUE) \in s[i]
  BY <1>1
<1> QED BY <1>1, <1>2

(* Every rule of a document is some mapping of it, parsed and lowered.     *)
LEMMA CompiledRules ==
  ASSUME NEW d \in Documents \cup IntentDocuments, ~ IsIntent(d),
         NEW rules \in CompileRules(d)
  PROVE  /\ IsYaml(d)
         /\ \E n \in Nat : DOMAIN rules = 1 .. n
         /\ \A i \in DOMAIN rules :
              \E node \in Parts(d) : \E ast \in ParseRule(node) : rules[i] \in LowerRule(ast)
<1>1. IsYaml(d)
  BY DocumentsAssumption
<1>2. DOMAIN d \in {{"scalar"}, {"seq"}, {"map"}} /\ d \in Parts(d)
  BY <1>1, PartsAreClosed DEF IsYaml
<1>3. PICK s \in ParseRules(d) : rules \in AllOf([i \in DOMAIN s |-> LowerRule(s[i])])
  BY Zenon DEF CompileRules
<1>4. PICK seq : seq \in Seq(Parts(d)) /\ s \in EachMapping(seq, ParseRule)
  <2>1. CASE DOMAIN d = {"scalar"}
    BY <1>3, <2>1 DEF ParseRules
  <2>2. CASE DOMAIN d = {"seq"}
    <3>1. ParseRules(d) = EachMapping(d.seq, ParseRule)
      BY <2>2 DEF ParseRules
    <3>2. d.seq \in Seq(Parts(d))
      BY <1>1, <1>2, <2>2 DEF IsYaml
    <3> QED BY <1>3, <3>1, <3>2
  <2>3. CASE DOMAIN d = {"map"}
    <3>1. ParseRules(d) = EachMapping(<<d>>, ParseRule)
      BY <2>3 DEF ParseRules
    <3>2. <<d>> \in Seq(Parts(d))
      BY <1>2
    <3> QED BY <1>3, <3>1, <3>2
  <2> QED BY <1>2, <2>1, <2>2, <2>3
<1> DEFINE parsed == [i \in DOMAIN seq |->
                        IF "map" \in DOMAIN seq[i] THEN ParseRule(seq[i]) ELSE {}]
           lowered == [i \in DOMAIN s |-> LowerRule(s[i])]
<1>5. s \in AllOf(parsed)
  BY <1>4, Zenon DEF EachMapping
<1>6. s = [i \in DOMAIN parsed |-> s[i]] /\ \A i \in DOMAIN parsed : s[i] \in parsed[i]
  BY <1>5, AllOfMembers
<1>7. DOMAIN s = DOMAIN seq /\ \A i \in DOMAIN seq : s[i] \in ParseRule(seq[i])
  BY <1>6
<1>8. rules = [i \in DOMAIN lowered |-> rules[i]] /\ \A i \in DOMAIN lowered : rules[i] \in lowered[i]
  BY <1>3, AllOfMembers
<1>9. DOMAIN rules = DOMAIN s /\ \A i \in DOMAIN s : rules[i] \in LowerRule(s[i])
  BY <1>8
<1>10. DOMAIN seq = 1 .. Len(seq) /\ Len(seq) \in Nat /\ \A i \in DOMAIN seq : seq[i] \in Parts(d)
  BY <1>4
<1> QED BY <1>1, <1>7, <1>9, <1>10

Dates == (MinYear .. MaxYear) \X (1 .. 12) \X (1 .. 31)

(* A window: none, or from a first day to a last day if there is one.      *)
IsWindow(window) ==
  \/ window = {}
  \/ \E from \in Dates, to \in {{}} \cup { {d} : d \in Dates } :
       window = {[from |-> from, to |-> to]}

LEMMA RuleWindows ==
  ASSUME NEW ast, NEW rule \in LowerRule(ast)
  PROVE  IsWindow(rule.window)
<1>1. rule.window \in LowerWindow(ast)
  BY DEF LowerRule
<1>2. \A t, d : d \in ParseDate(t) => d \in Dates
  BY DEF ParseDate, Dates
<1>3. CASE ast.effective_from = {}
  BY <1>1, <1>3 DEF LowerWindow, IsWindow
<1>4. CASE ast.effective_from # {}
  <2>1. \E from \in Dates : \E to :
          /\ rule.window = {[from |-> from, to |-> to]}
          /\ to = {} \/ \E y : \E d \in ParseDate(y) : to = {d}
    <3> DEFINE F == UNION { ParseDate(t) : t \in ast.effective_from }
               T == Optional(ast.effective_to, ParseDate)
               windows == { [from |-> from, to |-> to] : from \in F, to \in T }
    <3>1. rule.window \in { {w} : w \in windows }
      BY <1>1, <1>4 DEF LowerWindow, Optional
    <3> HIDE DEF windows
    <3>2. PICK w \in windows : rule.window = {w}
      BY <3>1
    <3> USE DEF windows
    <3> HIDE DEF F, T
    <3>3. PICK from \in F, to \in T : w = [from |-> from, to |-> to]
      BY <3>2
    <3>4. from \in F /\ to \in T /\ rule.window = {[from |-> from, to |-> to]}
      BY <3>2, <3>3
    <3>5. from \in Dates
      BY <1>2, <3>4 DEF F
    <3>6. to = {} \/ \E y : \E d \in ParseDate(y) : to = {d}
      BY <3>4 DEF T, Optional
    <3> QED BY <3>4, <3>5, <3>6
  <2> QED BY <1>2, <2>1 DEF IsWindow
<1> QED BY <1>3, <1>4

(* Two windows overlap exactly when one is in force on the other's first   *)
(* day: days are in a line, and no day is past the last one.               *)
LEMMA OverlapIsInForce ==
  ASSUME NEW a, NEW b, IsWindow(a), IsWindow(b), ProperWindow(a), ProperWindow(b)
  PROVE  WindowsOverlap(a, b) <=> \/ \A w \in b : EffectiveAt(a, w.from)
                                  \/ \A w \in a : EffectiveAt(b, w.from)
<1> DEFINE last == <<MaxYear, 12, 31>>
           End(w) == IF w.to = {} THEN last ELSE CHOOSE d \in w.to : TRUE
<1>1. PICK wa : /\ a = {wa} /\ wa.from \in Dates /\ wa.from # last
                /\ wa.to = {} \/ \E d \in Dates : wa.to = {d} /\ DateBefore(wa.from, d)
  BY DEF IsWindow, ProperWindow
<1>2. PICK wb : /\ b = {wb} /\ wb.from \in Dates /\ wb.from # last
                /\ wb.to = {} \/ \E d \in Dates : wb.to = {d} /\ DateBefore(wb.from, d)
  BY DEF IsWindow, ProperWindow
<1>3. \A x \in Dates : \A y \in Dates : ~ (DateBefore(x, y) /\ DateBefore(y, x))
  BY DEF Dates, DateBefore
<1>4. \A x \in Dates, y \in Dates, z \in Dates :
        DateBefore(x, y) /\ DateBefore(y, z) => DateBefore(x, z)
  BY DEF Dates, DateBefore
<1>5. \A x \in Dates : x # last => DateBefore(x, last)
  BY ScalarsAssumption DEF Dates, DateBefore
<1>6. \A x \in Dates : ~ DateBefore(x, x)
  BY DEF Dates, DateBefore
<1>7. WindowsOverlap(a, b) <=> DateBefore(wa.from, End(wb)) /\ DateBefore(wb.from, End(wa))
  BY <1>1, <1>2, Zenon DEF WindowsOverlap
<1>8. DateBefore(wa.from, End(wa)) /\ DateBefore(wb.from, End(wb))
  BY <1>1, <1>2, <1>5
<1>9. \A x \in Dates : x # last =>
        /\ (\A to \in wa.to : DateBefore(x, to)) <=> DateBefore(x, End(wa))
        /\ (\A to \in wb.to : DateBefore(x, to)) <=> DateBefore(x, End(wb))
  BY <1>1, <1>2, <1>5
<1>10. (\A w \in b : EffectiveAt(a, w.from))
         <=> ~ DateBefore(wb.from, wa.from) /\ DateBefore(wb.from, End(wa))
  BY <1>1, <1>2, <1>9 DEF EffectiveAt
<1>11. (\A w \in a : EffectiveAt(b, w.from))
         <=> ~ DateBefore(wa.from, wb.from) /\ DateBefore(wa.from, End(wb))
  BY <1>1, <1>2, <1>9 DEF EffectiveAt
<1>12. End(wa) \in Dates \cup {last} /\ End(wb) \in Dates \cup {last}
  BY <1>1, <1>2
<1>13. \A x, y \in Dates, z \in Dates \cup {last} :
         ~ DateBefore(y, x) /\ DateBefore(y, z) => DateBefore(x, z)
  BY <1>4, <1>5 DEF DateBefore, Dates
<1> HIDE DEF End, last
<1>14. ASSUME ~ DateBefore(wb.from, wa.from) /\ DateBefore(wb.from, End(wa))
       PROVE  DateBefore(wa.from, End(wb))
  BY <1>1, <1>2, <1>8, <1>12, <1>13, <1>14
<1>15. ASSUME ~ DateBefore(wa.from, wb.from) /\ DateBefore(wa.from, End(wb))
       PROVE  DateBefore(wb.from, End(wa))
  BY <1>1, <1>2, <1>8, <1>12, <1>13, <1>15
<1>16. ~ (DateBefore(wa.from, wb.from) /\ DateBefore(wb.from, wa.from))
  BY <1>1, <1>2, <1>3
<1> QED BY <1>7, <1>10, <1>11, <1>14, <1>15, <1>16

(* A conflict of a report is of one of the classes between its two rules.  *)
LEMMA ConflictsAreBetween ==
  ASSUME NEW rules, NEW class, NEW p
  PROVE  [class |-> class, pair |-> p] \in DetectConflicts(rules)
           <=> /\ p \in (DOMAIN rules) \X (DOMAIN rules) /\ p[1] < p[2]
               /\ class \in Between(rules[p[1]], rules[p[2]])
<1> DEFINE Pairs == { q \in (DOMAIN rules) \X (DOMAIN rules) : q[1] < q[2] }
           Of(q) == { [class |-> c, pair |-> q] : c \in Between(rules[q[1]], rules[q[2]]) }
           one == [class |-> class, pair |-> p]
<1>1. DetectConflicts(rules) = UNION { Of(q) : q \in Pairs }
  BY DEF DetectConflicts
<1>2. one \in UNION { Of(q) : q \in Pairs } <=> \E q \in Pairs : one \in Of(q)
  <2> HIDE DEF Of, Pairs, one
  <2> QED OBVIOUS
<1>3. \A q : one \in Of(q) <=> q = p /\ class \in Between(rules[q[1]], rules[q[2]])
  OBVIOUS
<1> HIDE DEF Of, one
<1>4. one \in DetectConflicts(rules) <=> p \in Pairs /\ class \in Between(rules[p[1]], rules[p[2]])
  BY <1>1, <1>2, <1>3
<1> QED BY <1>4 DEF one

(* The conflict pass and the runtime agree on windows, whatever the        *)
(* document: a temporal overlap is reported for rules in conflict exactly  *)
(* when one is in force on the first day of the other.                     *)
THEOREM OverlapsAreReported == Spec => []OverlapMeansBothInForce
<1>1. PipelineInv => OverlapMeansBothInForce
  <2> SUFFICES ASSUME PipelineInv, answer.what = "report",
                      NEW rules \in Compiled, NEW c \in answer.report.conflicts
               PROVE  LET a == rules[c.pair[1]].window
                          b == rules[c.pair[2]].window
                      IN  c.class \in {"ContradictoryOutcome", "OverlappingScope"}
                          /\ ProperWindow(a) /\ ProperWindow(b)
                          => ( [class |-> "TemporalOverlap", pair |-> c.pair]
                                 \in answer.report.conflicts
                               <=> \/ \A w \in b : EffectiveAt(a, w.from)
                                   \/ \A w \in a : EffectiveAt(b, w.from) )
    BY DEF OverlapMeansBothInForce
  <2> DEFINE ra == rules[c.pair[1]]
             rb == rules[c.pair[2]]
             temporal == [class |-> "TemporalOverlap", pair |-> c.pair]
  <2>1. doc \in Documents \cup IntentDocuments
    BY DEF PipelineInv
  <2>2. answer.report = Verify(rules)
    <3>1. PICK r \in Compiled : answer.report = Verify(r)
      BY DEF PipelineInv, AnswerIsOurs
    <3> QED BY <2>1, <3>1, CompiledIsOne
  <2>3. answer.report.conflicts = DetectConflicts(rules)
    BY <2>2 DEF Verify
  <2>4. PICK class, p : c = [class |-> class, pair |-> p]
    <3> DEFINE Pairs == { q \in (DOMAIN rules) \X (DOMAIN rules) : q[1] < q[2] }
               Of(q) == { [class |-> k, pair |-> q] : k \in Between(rules[q[1]], rules[q[2]]) }
    <3>1. DetectConflicts(rules) = UNION { Of(q) : q \in Pairs }
      BY DEF DetectConflicts
    <3> HIDE DEF Pairs
    <3>2. \E q \in Pairs : c \in Of(q)
      <4> HIDE DEF Of
      <4> QED BY <2>3, <3>1
    <3> QED BY <3>2
  <2>5. c.class = class /\ c.pair = p
    BY <2>4
  <2>6. /\ p \in (DOMAIN rules) \X (DOMAIN rules) /\ p[1] < p[2]
        /\ c.class \in Between(ra, rb)
    <3>1. [class |-> class, pair |-> p] \in DetectConflicts(rules)
      BY <2>3, <2>4
    <3> QED BY <2>5, <3>1, ConflictsAreBetween
  <2>7. temporal \in answer.report.conflicts <=> "TemporalOverlap" \in Between(ra, rb)
    <3>1. temporal \in DetectConflicts(rules)
            <=> /\ c.pair \in (DOMAIN rules) \X (DOMAIN rules) /\ c.pair[1] < c.pair[2]
                /\ "TemporalOverlap" \in Between(ra, rb)
      BY ConflictsAreBetween
    <3> QED BY <2>3, <2>5, <2>6, <3>1
  <2>8. IsWindow(ra.window) /\ IsWindow(rb.window)
    <3>1. c.pair[1] \in DOMAIN rules /\ c.pair[2] \in DOMAIN rules
      BY <2>5, <2>6
    <3> QED BY <2>1, <3>1, CompiledRules, RuleWindows DEF Compiled
  <2> SUFFICES ASSUME c.class \in {"ContradictoryOutcome", "OverlappingScope"},
                      ProperWindow(ra.window), ProperWindow(rb.window)
               PROVE  temporal \in answer.report.conflicts
                        <=> \/ \A w \in rb.window : EffectiveAt(ra.window, w.from)
                            \/ \A w \in ra.window : EffectiveAt(rb.window, w.from)
    BY Zenon
  <2> HIDE DEF ra, rb, temporal
  <2>9. "TemporalOverlap" \in Between(ra, rb) <=> WindowsOverlap(ra.window, rb.window)
    <3>1. SemanticRule(ra).effective = ra.window /\ SemanticRule(rb).effective = rb.window
      BY DEF SemanticRule
    <3>2. "TemporalOverlap" \in Between(ra, rb)
            <=> WindowsOverlap(SemanticRule(ra).effective, SemanticRule(rb).effective)
      BY <2>6 DEF Between
    <3> QED BY <3>1, <3>2
  <2> QED BY <2>7, <2>8, <2>9, OverlapIsInForce
<1> QED BY <1>1, PipelineInvariance, PTL

-----------------------------------------------------------------------------
(* Decimals.                                                               *)

LEMMA PowersOfTen ==
  /\ Pow10[0] = 1
  /\ \A n \in Nat : Pow10[n] \in Nat \ {0} /\ Pow10[n + 1] = 10 * Pow10[n]
<1> DEFINE step == [q \in Nat \X (Nat \ {0}) |-> 10 * q[2]]
           Body(h) == [n \in Nat |-> IF n = 0 THEN 1 ELSE 10 * h[n - 1]]
           F == CHOOSE h : h = Body(h)
<1>1. \A q \in Nat \X (Nat \ {0}) : 10 * q[2] \in Nat \ {0}
  OBVIOUS
<1>2. step \in [Nat \X (Nat \ {0}) -> Nat \ {0}]
  BY <1>1
<1>3. \A x \in Nat, y \in Nat \ {0} : step[<<x, y>>] = 10 * y
  OBVIOUS
<1> HIDE DEF step
<1>4. PICK f \in [Nat -> Nat \ {0}] : IsIteration(f, 1, step)
  <2>1. 1 \in Nat \ {0}
    OBVIOUS
  <2> QED BY <1>2, <2>1, Iteration
<1>5. f[0] = 1 /\ \A n \in Nat : f[n + 1] = 10 * f[n]
  BY <1>3, <1>4 DEF IsIteration
<1>6. f = Body(f)
  <2>1. ASSUME NEW n \in Nat PROVE f[n] = IF n = 0 THEN 1 ELSE 10 * f[n - 1]
    <3>1. CASE n = 0
      BY <1>5, <3>1
    <3>2. CASE n # 0
      <4>1. n - 1 \in Nat /\ n = (n - 1) + 1
        BY <3>2
      <4> QED BY <1>5, <3>2, <4>1
    <3> QED BY <3>1, <3>2
  <2>2. f = [n \in Nat |-> f[n]]
    BY <1>4
  <2> QED BY <2>1, <2>2
<1>7. Pow10 = F
  BY Zenon DEF Pow10
<1>8. F = Body(F)
  <2> HIDE DEF Body
  <2> QED BY <1>6, Zenon
<1>9. \A n \in Nat : Pow10[n] = IF n = 0 THEN 1 ELSE 10 * Pow10[n - 1]
  BY <1>7, <1>8
<1>10. Pow10[0] = 1
  BY <1>9
<1>11. \A n \in Nat : Pow10[n + 1] = 10 * Pow10[n]
  <2> TAKE n \in Nat
  <2>1. n + 1 \in Nat /\ n + 1 # 0 /\ (n + 1) - 1 = n
    OBVIOUS
  <2> QED BY <1>9, <2>1
<1> DEFINE S == {n \in Nat : Pow10[n] \in Nat \ {0}}
<1>12. 0 \in S
  BY <1>10
<1>13. ASSUME NEW n \in Nat, n \in S PROVE n + 1 \in S
  BY <1>11, <1>13
<1> HIDE DEF S
<1>14. Nat \subseteq S
  BY <1>12, <1>13, NatSetInduction
<1> QED BY <1>10, <1>11, <1>14 DEF S

LEMMA PowersArePositive ==
  \A n \in Nat : Pow10[n] \in Int /\ Pow10[n] > 0
<1> TAKE n \in Nat
<1>1. Pow10[n] \in Nat \ {0}
  BY PowersOfTen
<1> QED BY <1>1

(* Without the zeros at its end a decimal is the same number, and          *)
(* canonical.                                                              *)
LEMMA StrippedIsExact ==
  ASSUME NEW m \in Int, NEW e \in Nat
  PROVE  /\ Stripped(m, e) \in Int \X Nat
         /\ SameNumber(Stripped(m, e), <<m, e>>)
         /\ DecimalIsCanonical(Stripped(m, e)[1], Stripped(m, e)[2])
         /\ Abs(Stripped(m, e)[1]) <= Abs(m) /\ Stripped(m, e)[2] <= e
<1>1. CASE m = 0
  <2>1. Stripped(m, e) = <<0, 0>>
    BY <1>1, Zenon DEF Stripped
  <2>2. Pow10[e] \in Int /\ Pow10[0] \in Int
    BY PowersOfTen
  <2> QED BY <1>1, <2>1, <2>2 DEF SameNumber, DecimalIsCanonical, Abs
<1>2. CASE m # 0
  <2> DEFINE V == Int \X Nat
             Drop(s) == IF s[2] > 0 /\ s[1] % 10 = 0 THEN <<s[1] \div 10, s[2] - 1>> ELSE s
             step == [p \in (1 .. e) \X V |-> Drop(p[2])]
             Body(h) == [k \in 0 .. e |-> IF k = 0 THEN <<m, e>> ELSE Drop(h[k - 1])]
             F == CHOOSE h : h = Body(h)
             Fits(s) == /\ s \in V /\ s[2] <= e /\ s[1] # 0
                        /\ s[1] * Pow10[e] = m * Pow10[s[2]]
                        /\ Abs(s[1]) <= Abs(m)
  <2>1. ASSUME NEW s \in V PROVE Drop(s) \in V
    <3>1. s[1] \in Int /\ s[2] \in Nat /\ s[1] \div 10 \in Int
      OBVIOUS
    <3> QED BY <3>1
  <2>2. step \in [(1 .. e) \X V -> V] /\ \A i \in 1 .. e, s \in V : step[<<i, s>>] = Drop(s)
    BY <2>1
  <2> HIDE DEF step
  <2>3. PICK f \in [0 .. e -> V] : IsFold(f, e, <<m, e>>, step)
    <3>1. <<m, e>> \in V
      OBVIOUS
    <3> HIDE DEF V
    <3> QED BY <2>2, <3>1, FiniteIteration
  <2>4. \A k \in 0 .. e : f[k] = IF k = 0 THEN <<m, e>> ELSE Drop(f[k - 1])
    <3> TAKE k \in 0 .. e
    <3>1. f[k] = IF k = 0 THEN <<m, e>> ELSE step[<<k, f[k - 1]>>]
      BY <2>3 DEF IsFold
    <3>2. k # 0 => k \in 1 .. e /\ k - 1 \in 0 .. e
      OBVIOUS
    <3>3. k # 0 => f[k - 1] \in V
      BY <2>3, <3>2
    <3> HIDE DEF V, Drop
    <3> QED BY <2>2, <3>1, <3>2, <3>3
  <2> HIDE DEF Drop
  <2>5. f = Body(f)
    <3>1. f = [k \in 0 .. e |-> f[k]]
      BY <2>3
    <3> QED BY <2>4, <3>1
  <2>6. F = Body(F)
    <3> HIDE DEF Body
    <3> QED BY <2>5, Zenon
  <2>7. \A k \in 0 .. e : F[k] = IF k = 0 THEN <<m, e>> ELSE Drop(F[k - 1])
    BY <2>6
  <2>8. Stripped(m, e) = F[e]
    BY <1>2, Zenon DEF Stripped, Drop
  <2>9. ASSUME NEW s, Fits(s) PROVE Fits(Drop(s))
    <3> DEFINE q == s[1] \div 10
    <3>1. CASE s[2] > 0 /\ s[1] % 10 = 0
      <4>1. s[1] \in Int /\ s[2] \in Nat /\ q \in Int /\ s[2] - 1 \in Nat /\ s[1] = 10 * q
        <5>1. s[1] \in Int /\ s[2] \in Nat
          BY <2>9
        <5>2. \A n \in Int : n % 10 = 0 => n \div 10 \in Int /\ n = 10 * (n \div 10)
          OBVIOUS
        <5>3. q \in Int /\ s[1] = 10 * q
          BY <3>1, <5>1, <5>2
        <5>4. s[2] > 0
          BY <3>1
        <5> HIDE DEF q
        <5> QED BY <5>1, <5>3, <5>4
      <4>2. Pow10[e] \in Int /\ Pow10[s[2] - 1] \in Int
        <5>1. \A n \in Nat : Pow10[n] \in Int
          BY PowersArePositive
        <5>2. s[2] - 1 \in Nat
          BY <4>1
        <5> QED BY <5>1, <5>2
      <4>3. Pow10[s[2]] = 10 * Pow10[s[2] - 1]
        <5>1. s[2] = (s[2] - 1) + 1
          BY <4>1
        <5>2. Pow10[(s[2] - 1) + 1] = 10 * Pow10[s[2] - 1]
          BY <4>1, PowersOfTen
        <5> QED BY <5>1, <5>2
      <4>4. Drop(s) = <<q, s[2] - 1>>
        BY <3>1 DEF Drop
      <4> HIDE DEF q
      <4>5. \A a, b \in Int : (10 * a) * b = 10 * (a * b) /\ a * (10 * b) = 10 * (a * b)
        OBVIOUS
      <4>6. 10 * (q * Pow10[e]) = 10 * (m * Pow10[s[2] - 1])
        BY <2>9, <4>1, <4>2, <4>3, <4>5
      <4>7. q * Pow10[e] \in Int /\ m * Pow10[s[2] - 1] \in Int
        BY <4>1, <4>2
      <4>8. q * Pow10[e] = m * Pow10[s[2] - 1]
        BY <4>6, <4>7
      <4>9. q # 0 /\ s[2] - 1 <= e
        BY <2>9, <4>1
      <4>10. Abs(q) <= Abs(m)
        <5>1. Abs(s[1]) <= Abs(m) /\ Abs(m) \in Int
          BY <2>9 DEF Abs
        <5>2. Abs(q) \in Int /\ Abs(s[1]) \in Int /\ Abs(q) <= Abs(s[1])
          BY <4>1 DEF Abs
        <5> QED BY <5>1, <5>2
      <4> QED BY <4>1, <4>4, <4>8, <4>9, <4>10
    <3>2. CASE ~ (s[2] > 0 /\ s[1] % 10 = 0)
      BY <2>9, <3>2 DEF Drop
    <3> QED BY <3>1, <3>2
  <2> DEFINE Done(k) == Fits(F[k]) /\ (F[k][2] = e - k \/ F[k][2] = 0 \/ F[k][1] % 10 # 0)
             S == {k \in Nat : k <= e => Done(k)}
  <2>10. 0 \in S
    <3>1. 0 \in 0 .. e
      OBVIOUS
    <3>2. Fits(<<m, e>>)
      BY <1>2 DEF Abs
    <3>3. <<m, e>>[2] = e - 0
      OBVIOUS
    <3> HIDE DEF F, Fits
    <3>4. F[0] = <<m, e>>
      BY <2>7, <3>1
    <3> QED BY <3>2, <3>3, <3>4
  <2>11. ASSUME NEW k \in Nat, k \in S PROVE k + 1 \in S
    <3> SUFFICES ASSUME k + 1 <= e PROVE Done(k + 1)
      OBVIOUS
    <3>1. Done(k)
      BY <2>11
    <3>2. k + 1 \in 0 .. e /\ k + 1 # 0 /\ (k + 1) - 1 = k
      OBVIOUS
    <3>3. F[k + 1] = Drop(F[k])
      BY <2>7, <3>2
    <3> HIDE DEF F
    <3>4. Fits(F[k + 1])
      BY <2>9, <3>1, <3>3
    <3>5. F[k] \in V
      BY <3>1
    <3>6. CASE F[k][2] > 0 /\ F[k][1] % 10 = 0
      <4>1. F[k + 1] = <<F[k][1] \div 10, F[k][2] - 1>>
        BY <3>3, <3>6 DEF Drop
      <4>2. F[k][2] = e - k
        BY <3>1, <3>5, <3>6
      <4>3. F[k + 1][2] = e - (k + 1)
        BY <4>1, <4>2
      <4> QED BY <3>4, <4>3
    <3>7. CASE ~ (F[k][2] > 0 /\ F[k][1] % 10 = 0)
      <4>1. F[k + 1] = F[k]
        BY <3>3, <3>7 DEF Drop
      <4>2. F[k][2] = 0 \/ F[k][1] % 10 # 0
        BY <3>5, <3>7
      <4> QED BY <3>4, <4>1, <4>2
    <3> QED BY <3>6, <3>7
  <2> HIDE DEF S
  <2>12. Nat \subseteq S
    BY <2>10, <2>11, NatSetInduction
  <2>13. Done(e)
    BY <2>12 DEF S
  <2> HIDE DEF F
  <2>14. F[e] \in V /\ F[e][1] # 0 /\ (F[e][2] = 0 \/ F[e][1] % 10 # 0)
    BY <2>13
  <2>15. F[e][1] * Pow10[e] = m * Pow10[F[e][2]] /\ Abs(F[e][1]) <= Abs(m) /\ F[e][2] <= e
    BY <2>13
  <2> QED BY <2>8, <2>14, <2>15 DEF SameNumber, DecimalIsCanonical
<1> QED BY <1>1, <1>2

(* An intent specification's thresholds are canonical and stand for        *)
(* exactly the number the author wrote, whatever its digits and scale.     *)
THEOREM ThresholdsStayExact == Spec => []ThresholdsAreExact
<1>1. PipelineInv => ThresholdsAreExact
  <2> SUFFICES ASSUME PipelineInv, answer.what = "intent",
                      NEW i \in DOMAIN answer.spec.criteria
               PROVE  LET t == answer.spec.criteria[i].threshold
                      IN  /\ DecimalIsCanonical(t.m, t.e)
                          /\ SameNumber(<<t.m, t.e>>, doc.criteria[i].threshold.num)
    BY DEF ThresholdsAreExact
  <2>1. doc \in Documents \cup IntentDocuments /\ answer.spec \in ParseIntentSpec(doc)
    BY DEF PipelineInv, AnswerIsOurs
  <2>2. IsIntent(doc)
    BY <2>1 DEF ParseIntentSpec
  <2>3. IsIntentJson(doc)
    BY <2>1, <2>2, DocumentsAssumption
  <2> DEFINE parsed == [j \in DOMAIN doc.criteria |-> ParseCriterion(doc.criteria[j])]
  <2>4. PICK criteria \in AllOf(parsed) : answer.spec = [doc EXCEPT !.criteria = criteria]
    <3>1. ~ (~ IsIntent(doc) \/ doc.criteria = <<>>)
      BY <2>1 DEF ParseIntentSpec
    <3>2. answer.spec \in { [doc EXCEPT !.criteria = criteria] : criteria \in AllOf(parsed) }
      BY <2>1, <3>1, Zenon DEF ParseIntentSpec
    <3> HIDE DEF parsed
    <3> QED BY <3>2
  <2>5. answer.spec.criteria = criteria
    BY <2>2, <2>4 DEF IsIntent
  <2>6. criteria = [j \in DOMAIN parsed |-> criteria[j]]
        /\ \A j \in DOMAIN parsed : criteria[j] \in parsed[j]
    <3> HIDE DEF parsed
    <3> QED BY <2>4, AllOfMembers
  <2>7. i \in DOMAIN doc.criteria /\ criteria[i] \in ParseCriterion(doc.criteria[i])
    BY <2>5, <2>6
  <2>8. PICK t \in ParseThreshold(doc.criteria[i].threshold) : criteria[i].threshold = t
    BY <2>7 DEF ParseCriterion
  <2> DEFINE text == doc.criteria[i].threshold
             s == Stripped(text.num[1], text.num[2])
  <2>9. "num" \in DOMAIN text /\ t = [m |-> s[1], e |-> s[2]]
    BY <2>8 DEF ParseThreshold, Decimal
  <2>10. text.num \in Int \X Nat
    BY <2>3, <2>7, <2>9 DEF IsIntentJson, IsText
  <2>11. text.num[1] \in Int /\ text.num[2] \in Nat /\ text.num = <<text.num[1], text.num[2]>>
    BY <2>10
  <2>12. s \in Int \X Nat /\ SameNumber(s, text.num) /\ DecimalIsCanonical(s[1], s[2])
    BY <2>11, StrippedIsExact
  <2> HIDE DEF s, text
  <2>13. t.m = s[1] /\ t.e = s[2] /\ <<t.m, t.e>> = s
    BY <2>9, <2>12
  <2> QED BY <2>5, <2>8, <2>12, <2>13 DEF text
<1> QED BY <1>1, PipelineInvariance, PTL

-----------------------------------------------------------------------------
(* Groups. Splicing a group is what it does with its members' splicings.   *)

(* The members of the side of a group that counts.                         *)
Members(x) ==
  IF NonEmpty(x.all) THEN CHOOSE s \in x.all : TRUE
  ELSE IF NonEmpty(x.any) THEN CHOOSE s \in x.any : TRUE ELSE <<>>

FlattenBody(x, flat) ==
  IF IsGroup(x) THEN FlattenSeq([i \in DOMAIN Members(x) |-> flat[Members(x)[i]]])
                ELSE <<x>>

LEMMA MembersAreBelow ==
  ASSUME NEW x, IsGroup(x), NEW i \in DOMAIN Members(x)
  PROVE  Members(x)[i] \in Below(x)
<1>1. CASE NonEmpty(x.all)
  <2>1. Members(x) \in x.all
    BY <1>1 DEF Members, NonEmpty
  <2> QED BY <2>1, MembersAreInside DEF IsGroup
<1>2. CASE ~ NonEmpty(x.all) /\ NonEmpty(x.any)
  <2>1. Members(x) \in x.any
    BY <1>2 DEF Members, NonEmpty
  <2> QED BY <2>1, MembersAreInside DEF IsGroup
<1>3. CASE ~ NonEmpty(x.all) /\ ~ NonEmpty(x.any)
  <2>1. Members(x) = <<>>
    BY <1>3 DEF Members
  <2> QED BY <2>1
<1> QED BY <1>1, <1>2, <1>3

LEMMA FlattenLocal ==
  ASSUME NEW x, NEW f, NEW g, \A z \in Below(x) : f[z] = g[z]
  PROVE  FlattenBody(x, f) = FlattenBody(x, g)
<1>1. CASE IsGroup(x)
  <2>1. \A i \in DOMAIN Members(x) : f[Members(x)[i]] = g[Members(x)[i]]
    BY <1>1, MembersAreBelow
  <2>2. [i \in DOMAIN Members(x) |-> f[Members(x)[i]]]
          = [i \in DOMAIN Members(x) |-> g[Members(x)[i]]]
    BY <2>1
  <2> QED BY <2>2 DEF FlattenBody
<1>2. CASE ~ IsGroup(x)
  BY <1>2 DEF FlattenBody
<1> QED BY <1>1, <1>2

LEMMA FlattenExists ==
  ASSUME NEW r, Shallow(r)
  PROVE  \E f : f = [x \in Parts(r) |-> FlattenBody(x, f)]
<1> DEFINE S == {n \in Nat : n <= MaxDepth + 1
                   => \E f : f = [x \in Lower(r, n) |-> FlattenBody(x, f)]}
<1>1. 0 \in S
  <2> DEFINE f == [x \in Lower(r, 0) |-> FlattenBody(x, <<>>)]
  <2>1. f = [x \in Lower(r, 0) |-> FlattenBody(x, f)]
    BY LowerGrows
  <2> QED BY <2>1, Zenon
<1>2. ASSUME NEW n \in Nat, n \in S PROVE n + 1 \in S
  <2> SUFFICES ASSUME n + 1 <= MaxDepth + 1
               PROVE  \E f : f = [x \in Lower(r, n + 1) |-> FlattenBody(x, f)]
    OBVIOUS
  <2>1. n <= MaxDepth /\ n <= MaxDepth + 1
    BY DepthAssumption
  <2>2. PICK f : f = [x \in Lower(r, n) |-> FlattenBody(x, f)]
    BY <1>2, <2>1
  <2> DEFINE g == [x \in Lower(r, n + 1) |-> FlattenBody(x, f)]
  <2>3. \A x \in Lower(r, n) : f[x] = FlattenBody(x, f)
    BY <2>2, Zenon
  <2>4. Lower(r, n) \subseteq Lower(r, n + 1)
    BY <2>1, LowerOnLower
  <2>5. \A x \in Lower(r, n) : g[x] = f[x]
    BY <2>3, <2>4
  <2>6. ASSUME NEW x \in Lower(r, n + 1) PROVE FlattenBody(x, f) = FlattenBody(x, g)
    <3>1. Below(x) \subseteq Lower(r, n)
      BY <2>1, LowerGrows
    <3> HIDE DEF g
    <3> QED BY <2>5, <3>1, FlattenLocal
  <2>7. g = [x \in Lower(r, n + 1) |-> FlattenBody(x, g)]
    BY <2>6
  <2> QED BY <2>7, Zenon
<1> HIDE DEF S
<1>3. Nat \subseteq S
  BY <1>1, <1>2, NatSetInduction
<1>4. \E f : f = [x \in Lower(r, MaxDepth + 1) |-> FlattenBody(x, f)]
  BY <1>3, DepthAssumption DEF S
<1> QED BY <1>4, LowerGrows

LEMMA FlattenUnfolds ==
  ASSUME NEW r, Shallow(r)
  PROVE  Flatten(r) = FlattenBody(r, [z \in Parts(r) |-> Flatten(z)])
<1> DEFINE F(x) == CHOOSE f : f = [z \in Parts(x) |-> FlattenBody(z, f)]
<1>1. ASSUME NEW x, Shallow(x)
      PROVE  /\ Flatten(x) = F(x)[x]
             /\ \A z \in Parts(x) : F(x)[z] = FlattenBody(z, F(x))
  <2>1. Flatten(x) = F(x)[x]
    BY Zenon DEF Flatten, FlattenBody, Members
  <2>2. F(x) = [z \in Parts(x) |-> FlattenBody(z, F(x))]
    BY <1>1, FlattenExists, Zenon
  <2> HIDE DEF F
  <2> QED BY <2>1, <2>2
<1> HIDE DEF F
<1>2. ASSUME NEW z \in Parts(r) PROVE F(r)[z] = Flatten(z)
  <2>1. Shallow(z) /\ Parts(z) \subseteq Parts(r)
    BY PartsAreClosed
  <2>2. ASSUME NEW y \in Parts(z), \A w \in Below(y) : F(r)[w] = F(z)[w]
        PROVE  F(r)[y] = F(z)[y]
    <3>1. F(r)[y] = FlattenBody(y, F(r)) /\ F(z)[y] = FlattenBody(y, F(z))
      BY <1>1, <2>1
    <3> QED BY <2>2, <3>1, FlattenLocal
  <2>3. z \in Parts(z)
    BY <2>1, PartsAreClosed
  <2>4. F(r)[z] = F(z)[z]
    BY <2>1, <2>2, <2>3, NestedAgree
  <2> QED BY <1>1, <2>1, <2>4
<1>3. r \in Parts(r) /\ Below(r) \subseteq Parts(r)
  BY PartsAreClosed
<1>4. \A z \in Below(r) : F(r)[z] = [y \in Parts(r) |-> Flatten(y)][z]
  BY <1>2, <1>3
<1>5. FlattenBody(r, F(r)) = FlattenBody(r, [z \in Parts(r) |-> Flatten(z)])
  BY <1>4, FlattenLocal
<1> QED BY <1>1, <1>3, <1>5

(* What a group says is what its members say, mode by mode.                *)
SatisfiedBody(x, facts, holds) ==
  IF ~ IsGroup(x) THEN Holds(x, facts)
  ELSE /\ \A s \in x.all : \A i \in DOMAIN s : holds[s[i]]
       /\ \A s \in x.any : \E i \in DOMAIN s : holds[s[i]]

LEMMA SatisfiedLocal ==
  ASSUME NEW x, NEW facts, NEW f, NEW g, \A z \in Below(x) : f[z] = g[z]
  PROVE  SatisfiedBody(x, facts, f) = SatisfiedBody(x, facts, g)
<1>1. CASE IsGroup(x)
  <2>1. \A s \in x.all \cup x.any : \A i \in DOMAIN s : f[s[i]] = g[s[i]]
    BY <1>1, MembersAreInside DEF IsGroup
  <2> QED BY <1>1, <2>1 DEF SatisfiedBody
<1>2. CASE ~ IsGroup(x)
  BY <1>2 DEF SatisfiedBody
<1> QED BY <1>1, <1>2

LEMMA SatisfiedExists ==
  ASSUME NEW r, Shallow(r), NEW facts
  PROVE  \E f : f = [x \in Parts(r) |-> SatisfiedBody(x, facts, f)]
<1> DEFINE S == {n \in Nat : n <= MaxDepth + 1
                   => \E f : f = [x \in Lower(r, n) |-> SatisfiedBody(x, facts, f)]}
<1>1. 0 \in S
  <2> DEFINE f == [x \in Lower(r, 0) |-> SatisfiedBody(x, facts, <<>>)]
  <2>1. f = [x \in Lower(r, 0) |-> SatisfiedBody(x, facts, f)]
    BY LowerGrows
  <2> QED BY <2>1, Zenon
<1>2. ASSUME NEW n \in Nat, n \in S PROVE n + 1 \in S
  <2> SUFFICES ASSUME n + 1 <= MaxDepth + 1
               PROVE  \E f : f = [x \in Lower(r, n + 1) |-> SatisfiedBody(x, facts, f)]
    OBVIOUS
  <2>1. n <= MaxDepth /\ n <= MaxDepth + 1
    BY DepthAssumption
  <2>2. PICK f : f = [x \in Lower(r, n) |-> SatisfiedBody(x, facts, f)]
    BY <1>2, <2>1
  <2> DEFINE g == [x \in Lower(r, n + 1) |-> SatisfiedBody(x, facts, f)]
  <2>3. \A x \in Lower(r, n) : f[x] = SatisfiedBody(x, facts, f)
    BY <2>2, Zenon
  <2>4. Lower(r, n) \subseteq Lower(r, n + 1)
    BY <2>1, LowerOnLower
  <2>5. \A x \in Lower(r, n) : g[x] = f[x]
    BY <2>3, <2>4
  <2>6. ASSUME NEW x \in Lower(r, n + 1) PROVE SatisfiedBody(x, facts, f) = SatisfiedBody(x, facts, g)
    <3>1. Below(x) \subseteq Lower(r, n)
      BY <2>1, LowerGrows
    <3> HIDE DEF g
    <3> QED BY <2>5, <3>1, SatisfiedLocal
  <2>7. g = [x \in Lower(r, n + 1) |-> SatisfiedBody(x, facts, g)]
    BY <2>6
  <2> QED BY <2>7, Zenon
<1> HIDE DEF S
<1>3. Nat \subseteq S
  BY <1>1, <1>2, NatSetInduction
<1>4. \E f : f = [x \in Lower(r, MaxDepth + 1) |-> SatisfiedBody(x, facts, f)]
  BY <1>3, DepthAssumption DEF S
<1> QED BY <1>4, LowerGrows

LEMMA SatisfiedUnfolds ==
  ASSUME NEW r, Shallow(r), NEW facts
  PROVE  Satisfied(r, facts) = SatisfiedBody(r, facts, [z \in Parts(r) |-> Satisfied(z, facts)])
<1> DEFINE F(x) == CHOOSE f : f = [z \in Parts(x) |-> SatisfiedBody(z, facts, f)]
<1>1. ASSUME NEW x, Shallow(x)
      PROVE  /\ Satisfied(x, facts) = F(x)[x]
             /\ \A z \in Parts(x) : F(x)[z] = SatisfiedBody(z, facts, F(x))
  <2>1. Satisfied(x, facts) = F(x)[x]
    BY Zenon DEF Satisfied, SatisfiedBody
  <2>2. \E f : f = [z \in Parts(x) |-> SatisfiedBody(z, facts, f)]
    BY <1>1, SatisfiedExists
  <2>3. F(x) = [z \in Parts(x) |-> SatisfiedBody(z, facts, F(x))]
    BY <2>2, Zenon
  <2> HIDE DEF F
  <2> QED BY <2>1, <2>3
<1> HIDE DEF F
<1>2. ASSUME NEW z \in Parts(r) PROVE F(r)[z] = Satisfied(z, facts)
  <2>1. Shallow(z) /\ Parts(z) \subseteq Parts(r)
    BY PartsAreClosed
  <2>2. ASSUME NEW y \in Parts(z), \A w \in Below(y) : F(r)[w] = F(z)[w]
        PROVE  F(r)[y] = F(z)[y]
    <3>1. F(r)[y] = SatisfiedBody(y, facts, F(r)) /\ F(z)[y] = SatisfiedBody(y, facts, F(z))
      BY <1>1, <2>1
    <3> QED BY <2>2, <3>1, SatisfiedLocal
  <2>3. z \in Parts(z)
    BY <2>1, PartsAreClosed
  <2>4. F(r)[z] = F(z)[z]
    BY <2>1, <2>2, <2>3, NestedAgree
  <2> QED BY <1>1, <2>1, <2>4
<1>3. r \in Parts(r) /\ Below(r) \subseteq Parts(r)
  BY PartsAreClosed
<1>4. \A z \in Below(r) : F(r)[z] = [y \in Parts(r) |-> Satisfied(y, facts)][z]
  BY <1>2, <1>3
<1>5. SatisfiedBody(r, facts, F(r)) = SatisfiedBody(r, facts, [z \in Parts(r) |-> Satisfied(z, facts)])
  BY <1>4, SatisfiedLocal
<1> QED BY <1>1, <1>3, <1>5

-----------------------------------------------------------------------------
(* From a document to groups.                                              *)

(* What is in a sequence is inside what holds the sequence.                *)
LEMMA ItemsAreInside ==
  ASSUME NEW x, NEW k \in {"list", "seq", "items"}, k \in DOMAIN x, NEW i \in DOMAIN x[k]
  PROVE  x[k][i] \in Inside(x)
<1>1. x[k][i] \in ToSet(x[k])
  BY DEF ToSet
<1>2. Held(x, k) = ToSet(x[k])
  BY HeldByKey
<1> QED BY <1>1, <1>2 DEF Inside

(* A mapping's nodes are inside it, and in a document below it are the     *)
(* members of its sequences.                                               *)
LEMMA GetIsInside ==
  ASSUME NEW n, NEW key, NEW kind, NEW m \in Get(n, key, kind)
  PROVE  m \in Inside(n) /\ kind \in DOMAIN m
<1>1. "map" \in DOMAIN n /\ key \in DOMAIN n.map /\ m = n.map[key] /\ kind \in DOMAIN m
  BY DEF Get, Keys
<1>2. Held(n, "map") = { n.map[j] : j \in DOMAIN n.map }
  BY HeldByKey
<1>3. m \in Held(n, "map")
  BY <1>1, <1>2
<1> QED BY <1>1, <1>3 DEF Inside

LEMMA SequenceIsBelow ==
  ASSUME NEW n, Shallow(n), NEW key, NEW s \in GetSequence(n, key), NEW i \in DOMAIN s
  PROVE  s[i] \in Below(n)
<1>1. PICK m \in Get(n, key, "seq") : s = m.seq
  BY DEF GetSequence
<1>2. m \in Inside(n) /\ "seq" \in DOMAIN m
  BY GetIsInside
<1>3. s[i] \in Inside(m)
  BY <1>1, <1>2, ItemsAreInside
<1>4. n \in Parts(n) /\ m \in Parts(n) /\ Shallow(m)
  BY <1>2, PartsAreClosed
<1>5. s[i] \in Parts(m)
  BY <1>3, <1>4, PartsAreClosed
<1> QED BY <1>2, <1>5 DEF Below

LowerGroupBody(x, lower) ==
  IF "items" \notin DOMAIN x THEN LowerCondition(x)
  ELSE { IF x.kind = "all" THEN [all |-> {items}, any |-> {}]
                           ELSE [all |-> {}, any |-> {items}] :
           items \in AllOf([i \in DOMAIN x.items |-> lower[x.items[i]]]) }

LEMMA LowerGroupLocal ==
  ASSUME NEW x, NEW f, NEW g, \A z \in Below(x) : f[z] = g[z]
  PROVE  LowerGroupBody(x, f) = LowerGroupBody(x, g)
<1>1. CASE "items" \in DOMAIN x
  <2>1. \A i \in DOMAIN x.items : x.items[i] \in Below(x)
    BY <1>1, ItemsAreInside, InsideIsBelow
  <2>2. [i \in DOMAIN x.items |-> f[x.items[i]]] = [i \in DOMAIN x.items |-> g[x.items[i]]]
    BY <2>1
  <2> QED BY <2>2, Zenon DEF LowerGroupBody
<1>2. CASE "items" \notin DOMAIN x
  BY <1>2 DEF LowerGroupBody
<1> QED BY <1>1, <1>2

LEMMA LowerGroupExists ==
  ASSUME NEW r, Shallow(r)
  PROVE  \E f : f = [x \in Parts(r) |-> LowerGroupBody(x, f)]
<1> DEFINE S == {n \in Nat : n <= MaxDepth + 1
                   => \E f : f = [x \in Lower(r, n) |-> LowerGroupBody(x, f)]}
<1>1. 0 \in S
  <2> DEFINE f == [x \in Lower(r, 0) |-> LowerGroupBody(x, <<>>)]
  <2>1. f = [x \in Lower(r, 0) |-> LowerGroupBody(x, f)]
    BY LowerGrows
  <2> QED BY <2>1, Zenon
<1>2. ASSUME NEW n \in Nat, n \in S PROVE n + 1 \in S
  <2> SUFFICES ASSUME n + 1 <= MaxDepth + 1
               PROVE  \E f : f = [x \in Lower(r, n + 1) |-> LowerGroupBody(x, f)]
    OBVIOUS
  <2>1. n <= MaxDepth /\ n <= MaxDepth + 1
    BY DepthAssumption
  <2>2. PICK f : f = [x \in Lower(r, n) |-> LowerGroupBody(x, f)]
    BY <1>2, <2>1
  <2> DEFINE g == [x \in Lower(r, n + 1) |-> LowerGroupBody(x, f)]
  <2>3. \A x \in Lower(r, n) : f[x] = LowerGroupBody(x, f)
    BY <2>2, Zenon
  <2>4. Lower(r, n) \subseteq Lower(r, n + 1)
    BY <2>1, LowerOnLower
  <2>5. \A x \in Lower(r, n) : g[x] = f[x]
    BY <2>3, <2>4
  <2>6. ASSUME NEW x \in Lower(r, n + 1) PROVE LowerGroupBody(x, f) = LowerGroupBody(x, g)
    <3>1. Below(x) \subseteq Lower(r, n)
      BY <2>1, LowerGrows
    <3> HIDE DEF g
    <3> QED BY <2>5, <3>1, LowerGroupLocal
  <2>7. g = [x \in Lower(r, n + 1) |-> LowerGroupBody(x, g)]
    BY <2>6
  <2> QED BY <2>7, Zenon
<1> HIDE DEF S
<1>3. Nat \subseteq S
  BY <1>1, <1>2, NatSetInduction
<1>4. \E f : f = [x \in Lower(r, MaxDepth + 1) |-> LowerGroupBody(x, f)]
  BY <1>3, DepthAssumption DEF S
<1> QED BY <1>4, LowerGrows

LEMMA LowerGroupUnfolds ==
  ASSUME NEW r, Shallow(r)
  PROVE  LowerGroup(r) = LowerGroupBody(r, [z \in Parts(r) |-> LowerGroup(z)])
<1> DEFINE F(x) == CHOOSE f : f = [z \in Parts(x) |-> LowerGroupBody(z, f)]
<1>1. ASSUME NEW x, Shallow(x)
      PROVE  /\ LowerGroup(x) = F(x)[x]
             /\ \A z \in Parts(x) : F(x)[z] = LowerGroupBody(z, F(x))
  <2>1. LowerGroup(x) = F(x)[x]
    BY Zenon DEF LowerGroup, LowerGroupBody
  <2>2. \E f : f = [z \in Parts(x) |-> LowerGroupBody(z, f)]
    BY <1>1, LowerGroupExists
  <2>3. F(x) = [z \in Parts(x) |-> LowerGroupBody(z, F(x))]
    BY <2>2, Zenon
  <2> HIDE DEF F
  <2> QED BY <2>1, <2>3
<1> HIDE DEF F
<1>2. ASSUME NEW z \in Parts(r) PROVE F(r)[z] = LowerGroup(z)
  <2>1. Shallow(z) /\ Parts(z) \subseteq Parts(r)
    BY PartsAreClosed
  <2>2. ASSUME NEW y \in Parts(z), \A w \in Below(y) : F(r)[w] = F(z)[w]
        PROVE  F(r)[y] = F(z)[y]
    <3>1. F(r)[y] = LowerGroupBody(y, F(r)) /\ F(z)[y] = LowerGroupBody(y, F(z))
      BY <1>1, <2>1
    <3> QED BY <2>2, <3>1, LowerGroupLocal
  <2>3. z \in Parts(z)
    BY <2>1, PartsAreClosed
  <2>4. F(r)[z] = F(z)[z]
    BY <2>1, <2>2, <2>3, NestedAgree
  <2> QED BY <1>1, <2>1, <2>4
<1>3. r \in Parts(r) /\ Below(r) \subseteq Parts(r)
  BY PartsAreClosed
<1>4. \A z \in Below(r) : F(r)[z] = [y \in Parts(r) |-> LowerGroup(y)][z]
  BY <1>2, <1>3
<1>5. LowerGroupBody(r, F(r)) = LowerGroupBody(r, [z \in Parts(r) |-> LowerGroup(z)])
  BY <1>4, LowerGroupLocal
<1> QED BY <1>1, <1>3, <1>5

(* The side of a mapping that is parsed, and its members' readings.        *)
SideOf(n) ==
  IF GetSequence(n, "all") # {} THEN GetSequence(n, "all") ELSE GetSequence(n, "any")

ItemsOf(s, group) ==
  AllOf([i \in DOMAIN s |->
           IF "map" \in DOMAIN s[i]
           THEN IF GetScalar(s[i], "field") # {} THEN ParseCondition(s[i]) ELSE group[s[i]]
           ELSE {}])

ParseGroupBody(n, group) ==
  UNION { { [ kind |-> IF GetSequence(n, "all") # {} THEN "all" ELSE "any", items |-> items ] :
              items \in ItemsOf(s, group) } : s \in SideOf(n) }

LEMMA ParseGroupLocal ==
  ASSUME NEW x, Shallow(x), NEW f, NEW g, \A z \in Below(x) : f[z] = g[z]
  PROVE  ParseGroupBody(x, f) = ParseGroupBody(x, g)
<1>1. ASSUME NEW s \in SideOf(x) PROVE ItemsOf(s, f) = ItemsOf(s, g)
  <2>1. \A i \in DOMAIN s : s[i] \in Below(x)
    BY <1>1, SequenceIsBelow DEF SideOf
  <2> DEFINE Read(group) ==
               [i \in DOMAIN s |->
                  IF "map" \in DOMAIN s[i]
                  THEN IF GetScalar(s[i], "field") # {} THEN ParseCondition(s[i])
                                                       ELSE group[s[i]]
                  ELSE {}]
  <2>2. Read(f) = Read(g)
    BY <2>1
  <2>3. ItemsOf(s, f) = AllOf(Read(f)) /\ ItemsOf(s, g) = AllOf(Read(g))
    BY Zenon DEF ItemsOf
  <2> QED BY <2>2, <2>3, Zenon
<1> DEFINE Of(s, group) ==
      { [ kind |-> IF GetSequence(x, "all") # {} THEN "all" ELSE "any", items |-> items ] :
          items \in ItemsOf(s, group) }
<1>2. \A s \in SideOf(x) : Of(s, f) = Of(s, g)
  BY <1>1
<1>3. ParseGroupBody(x, f) = UNION { Of(s, f) : s \in SideOf(x) }
      /\ ParseGroupBody(x, g) = UNION { Of(s, g) : s \in SideOf(x) }
  BY Zenon DEF ParseGroupBody
<1> HIDE DEF Of
<1> QED BY <1>2, <1>3

LEMMA ParseGroupExists ==
  ASSUME NEW r, Shallow(r)
  PROVE  \E f : f = [x \in Parts(r) |-> ParseGroupBody(x, f)]
<1> DEFINE S == {n \in Nat : n <= MaxDepth + 1
                   => \E f : f = [x \in Lower(r, n) |-> ParseGroupBody(x, f)]}
<1>1. 0 \in S
  <2> DEFINE f == [x \in Lower(r, 0) |-> ParseGroupBody(x, <<>>)]
  <2>1. f = [x \in Lower(r, 0) |-> ParseGroupBody(x, f)]
    BY LowerGrows
  <2> QED BY <2>1, Zenon
<1>2. ASSUME NEW n \in Nat, n \in S PROVE n + 1 \in S
  <2> SUFFICES ASSUME n + 1 <= MaxDepth + 1
               PROVE  \E f : f = [x \in Lower(r, n + 1) |-> ParseGroupBody(x, f)]
    OBVIOUS
  <2>1. n <= MaxDepth /\ n <= MaxDepth + 1
    BY DepthAssumption
  <2>2. PICK f : f = [x \in Lower(r, n) |-> ParseGroupBody(x, f)]
    BY <1>2, <2>1
  <2> DEFINE g == [x \in Lower(r, n + 1) |-> ParseGroupBody(x, f)]
  <2>3. \A x \in Lower(r, n) : f[x] = ParseGroupBody(x, f)
    BY <2>2, Zenon
  <2>4. Lower(r, n) \subseteq Lower(r, n + 1)
    BY <2>1, LowerOnLower
  <2>5. \A x \in Lower(r, n) : g[x] = f[x]
    BY <2>3, <2>4
  <2>6. ASSUME NEW x \in Lower(r, n + 1) PROVE ParseGroupBody(x, f) = ParseGroupBody(x, g)
    <3>1. Below(x) \subseteq Lower(r, n)
      BY <2>1, LowerGrows
    <3> HIDE DEF g
    <3>2. Shallow(x)
      BY PartsAreClosed DEF Lower
    <3> QED BY <2>5, <3>1, <3>2, ParseGroupLocal
  <2>7. g = [x \in Lower(r, n + 1) |-> ParseGroupBody(x, g)]
    BY <2>6
  <2> QED BY <2>7, Zenon
<1> HIDE DEF S
<1>3. Nat \subseteq S
  BY <1>1, <1>2, NatSetInduction
<1>4. \E f : f = [x \in Lower(r, MaxDepth + 1) |-> ParseGroupBody(x, f)]
  BY <1>3, DepthAssumption DEF S
<1> QED BY <1>4, LowerGrows

LEMMA ParseGroupUnfolds ==
  ASSUME NEW r, Shallow(r)
  PROVE  ParseGroup(r) = ParseGroupBody(r, [z \in Parts(r) |-> ParseGroup(z)])
<1> DEFINE F(x) == CHOOSE f : f = [z \in Parts(x) |-> ParseGroupBody(z, f)]
<1>1. ASSUME NEW x, Shallow(x)
      PROVE  /\ ParseGroup(x) = F(x)[x]
             /\ \A z \in Parts(x) : F(x)[z] = ParseGroupBody(z, F(x))
  <2>1. ParseGroup(x) = F(x)[x]
    BY Zenon DEF ParseGroup, ParseGroupBody, ItemsOf, SideOf, EachMapping
  <2>2. \E f : f = [z \in Parts(x) |-> ParseGroupBody(z, f)]
    BY <1>1, ParseGroupExists
  <2>3. F(x) = [z \in Parts(x) |-> ParseGroupBody(z, F(x))]
    BY <2>2, Zenon
  <2> HIDE DEF F
  <2> QED BY <2>1, <2>3
<1> HIDE DEF F
<1>2. ASSUME NEW z \in Parts(r) PROVE F(r)[z] = ParseGroup(z)
  <2>1. Shallow(z) /\ Parts(z) \subseteq Parts(r)
    BY PartsAreClosed
  <2>2. ASSUME NEW y \in Parts(z), \A w \in Below(y) : F(r)[w] = F(z)[w]
        PROVE  F(r)[y] = F(z)[y]
    <3>1. F(r)[y] = ParseGroupBody(y, F(r)) /\ F(z)[y] = ParseGroupBody(y, F(z))
      BY <1>1, <2>1
    <3>2. Shallow(y)
      BY <2>1, <2>2, PartsAreClosed
    <3> QED BY <2>2, <3>1, <3>2, ParseGroupLocal
  <2>3. z \in Parts(z)
    BY <2>1, PartsAreClosed
  <2>4. F(r)[z] = F(z)[z]
    BY <2>1, <2>2, <2>3, NestedAgree
  <2> QED BY <1>1, <2>1, <2>4
<1>3. r \in Parts(r) /\ Below(r) \subseteq Parts(r)
  BY PartsAreClosed
<1>4. \A z \in Below(r) : F(r)[z] = [y \in Parts(r) |-> ParseGroup(y)][z]
  BY <1>2, <1>3
<1>5. ParseGroupBody(r, F(r)) = ParseGroupBody(r, [z \in Parts(r) |-> ParseGroup(z)])
  BY <1>4, ParseGroupLocal
<1> QED BY <1>1, <1>3, <1>5

-----------------------------------------------------------------------------
(* What the compiler makes of a document nests no deeper than the document *)
(* and has the shape the later passes count on.                            *)

IsASeq(s) == \E n \in Nat : s = [i \in 1 .. n |-> s[i]]

LEMMA DepthBelow ==
  ASSUME NEW x, NEW z \in Below(x), NEW k \in Nat, k <= MaxDepth, Depth(x, k)
  PROVE  \E j \in Nat : k = j + 1 /\ Depth(z, j)
<1>1. PICK y \in Inside(x) : z \in Parts(y)
  BY DEF Below
<1>2. k # 0
  BY <1>1, DepthOfInside
<1>3. PICK j \in Nat : k = j + 1
  BY <1>2
<1>4. Depth(y, j)
  BY <1>1, <1>3, DepthOfInside
<1>5. j <= MaxDepth
  BY <1>3, DepthAssumption
<1> QED BY <1>1, <1>3, <1>4, <1>5, PartsAreLower

(* What holds nothing nests as little as one likes.                        *)
LEMMA NothingInside ==
  ASSUME NEW x, Inside(x) = {}
  PROVE  /\ \A k \in Nat : k <= MaxDepth => Depth(x, k)
         /\ Shallow(x) /\ Parts(x) = {x}
<1>1. \A k \in Nat : k <= MaxDepth => Depth(x, k)
  <2> TAKE k \in Nat
  <2> SUFFICES ASSUME k <= MaxDepth PROVE Depth(x, k)
    OBVIOUS
  <2>1. CASE k = 0
    BY <2>1, DepthOfInside
  <2>2. CASE k # 0
    <3>1. PICK j \in Nat : k = j + 1
      BY <2>2
    <3> QED BY <3>1, DepthOfInside
  <2> QED BY <2>1, <2>2
<1>2. Shallow(x)
  BY <1>1, DepthAssumption DEF Shallow
<1>3. Parts(x) = {x}
  BY <1>2, PartsAndBelow DEF Below
<1> QED BY <1>1, <1>2, <1>3

(* A value nests no deeper than k + 1 when what it holds is below what     *)
(* does.                                                                   *)
LEMMA NestsAsDeep ==
  ASSUME NEW x, NEW y, NEW k \in Nat, k <= MaxDepth, Depth(x, k),
         \A z \in Inside(y) :
           \E w \in Below(x) : \A j \in Nat : j <= MaxDepth /\ Depth(w, j) => Depth(z, j)
  PROVE  Depth(y, k)
<1>1. CASE k = 0
  <2>1. \A w : w \notin Below(x)
    BY <1>1, DepthBelow
  <2> QED BY <1>1, <2>1, DepthOfInside
<1>2. CASE k # 0
  <2>1. PICK j \in Nat : k = j + 1
    BY <1>2
  <2>2. j <= MaxDepth
    BY <2>1, DepthAssumption
  <2>3. ASSUME NEW z \in Inside(y) PROVE Depth(z, j)
    <3>1. PICK w \in Below(x) : \A i \in Nat : i <= MaxDepth /\ Depth(w, i) => Depth(z, i)
      BY <2>3
    <3>2. PICK i \in Nat : k = i + 1 /\ Depth(w, i)
      BY <3>1, DepthBelow
    <3> QED BY <2>1, <2>2, <3>1, <3>2
  <2> QED BY <2>1, <2>3, DepthOfInside
<1> QED BY <1>1, <1>2

NodeToValueBody(n, value) ==
  IF "scalar" \in DOMAIN n THEN {ScalarToValue(n.scalar)}
  ELSE IF "seq" \in DOMAIN n
       THEN { List(items) : items \in AllOf([i \in DOMAIN n.seq |-> value[n.seq[i]]]) }
  ELSE {}

LEMMA NodeToValueLocal ==
  ASSUME NEW x, NEW f, NEW g, \A z \in Below(x) : f[z] = g[z]
  PROVE  NodeToValueBody(x, f) = NodeToValueBody(x, g)
<1>1. CASE "seq" \in DOMAIN x
  <2>1. \A i \in DOMAIN x.seq : x.seq[i] \in Below(x)
    BY <1>1, ItemsAreInside, InsideIsBelow
  <2>2. [i \in DOMAIN x.seq |-> f[x.seq[i]]] = [i \in DOMAIN x.seq |-> g[x.seq[i]]]
    BY <2>1
  <2> QED BY <2>2, Zenon DEF NodeToValueBody
<1>2. CASE "seq" \notin DOMAIN x
  BY <1>2 DEF NodeToValueBody
<1> QED BY <1>1, <1>2

LEMMA NodeToValueExists ==
  ASSUME NEW r, Shallow(r)
  PROVE  \E f : f = [x \in Parts(r) |-> NodeToValueBody(x, f)]
<1> DEFINE S == {n \in Nat : n <= MaxDepth + 1
                   => \E f : f = [x \in Lower(r, n) |-> NodeToValueBody(x, f)]}
<1>1. 0 \in S
  <2> DEFINE f == [x \in Lower(r, 0) |-> NodeToValueBody(x, <<>>)]
  <2>1. f = [x \in Lower(r, 0) |-> NodeToValueBody(x, f)]
    BY LowerGrows
  <2> QED BY <2>1, Zenon
<1>2. ASSUME NEW n \in Nat, n \in S PROVE n + 1 \in S
  <2> SUFFICES ASSUME n + 1 <= MaxDepth + 1
               PROVE  \E f : f = [x \in Lower(r, n + 1) |-> NodeToValueBody(x, f)]
    OBVIOUS
  <2>1. n <= MaxDepth /\ n <= MaxDepth + 1
    BY DepthAssumption
  <2>2. PICK f : f = [x \in Lower(r, n) |-> NodeToValueBody(x, f)]
    BY <1>2, <2>1
  <2> DEFINE g == [x \in Lower(r, n + 1) |-> NodeToValueBody(x, f)]
  <2>3. \A x \in Lower(r, n) : f[x] = NodeToValueBody(x, f)
    BY <2>2, Zenon
  <2>4. Lower(r, n) \subseteq Lower(r, n + 1)
    BY <2>1, LowerOnLower
  <2>5. \A x \in Lower(r, n) : g[x] = f[x]
    BY <2>3, <2>4
  <2>6. ASSUME NEW x \in Lower(r, n + 1) PROVE NodeToValueBody(x, f) = NodeToValueBody(x, g)
    <3>1. Below(x) \subseteq Lower(r, n)
      BY <2>1, LowerGrows
    <3> HIDE DEF g
    <3> QED BY <2>5, <3>1, NodeToValueLocal
  <2>7. g = [x \in Lower(r, n + 1) |-> NodeToValueBody(x, g)]
    BY <2>6
  <2> QED BY <2>7, Zenon
<1> HIDE DEF S
<1>3. Nat \subseteq S
  BY <1>1, <1>2, NatSetInduction
<1>4. \E f : f = [x \in Lower(r, MaxDepth + 1) |-> NodeToValueBody(x, f)]
  BY <1>3, DepthAssumption DEF S
<1> QED BY <1>4, LowerGrows

LEMMA NodeToValueUnfolds ==
  ASSUME NEW r, Shallow(r)
  PROVE  NodeToValue(r) = NodeToValueBody(r, [z \in Parts(r) |-> NodeToValue(z)])
<1> DEFINE F(x) == CHOOSE f : f = [z \in Parts(x) |-> NodeToValueBody(z, f)]
<1>1. ASSUME NEW x, Shallow(x)
      PROVE  /\ NodeToValue(x) = F(x)[x]
             /\ \A z \in Parts(x) : F(x)[z] = NodeToValueBody(z, F(x))
  <2>1. NodeToValue(x) = F(x)[x]
    BY Zenon DEF NodeToValue, NodeToValueBody
  <2>2. \E f : f = [z \in Parts(x) |-> NodeToValueBody(z, f)]
    BY <1>1, NodeToValueExists
  <2>3. F(x) = [z \in Parts(x) |-> NodeToValueBody(z, F(x))]
    BY <2>2, Zenon
  <2> HIDE DEF F
  <2> QED BY <2>1, <2>3
<1> HIDE DEF F
<1>2. ASSUME NEW z \in Parts(r) PROVE F(r)[z] = NodeToValue(z)
  <2>1. Shallow(z) /\ Parts(z) \subseteq Parts(r)
    BY PartsAreClosed
  <2>2. ASSUME NEW y \in Parts(z), \A w \in Below(y) : F(r)[w] = F(z)[w]
        PROVE  F(r)[y] = F(z)[y]
    <3>1. F(r)[y] = NodeToValueBody(y, F(r)) /\ F(z)[y] = NodeToValueBody(y, F(z))
      BY <1>1, <2>1
    <3> QED BY <2>2, <3>1, NodeToValueLocal
  <2>3. z \in Parts(z)
    BY <2>1, PartsAreClosed
  <2>4. F(r)[z] = F(z)[z]
    BY <2>1, <2>2, <2>3, NestedAgree
  <2> QED BY <1>1, <2>1, <2>4
<1>3. r \in Parts(r) /\ Below(r) \subseteq Parts(r)
  BY PartsAreClosed
<1>4. \A z \in Below(r) : F(r)[z] = [y \in Parts(r) |-> NodeToValue(y)][z]
  BY <1>2, <1>3
<1>5. NodeToValueBody(r, F(r)) = NodeToValueBody(r, [z \in Parts(r) |-> NodeToValue(z)])
  BY <1>4, NodeToValueLocal
<1> QED BY <1>1, <1>3, <1>5

(* A value is a text, a bool, a decimal or a list of values.               *)
ValuePart(v) ==
  \/ IsStr(v) /\ v = Str(v.str) /\ Different(v.str) # v.str
  \/ IsBool(v)
  \/ /\ IsDecimal(v) /\ v.m \in Int /\ v.e \in Nat
     /\ Abs(v.m) <= MaxMantissa /\ v.e <= MaxScale
  \/ IsList(v) /\ v = List(v.list) /\ IsASeq(v.list)
IsValue(v) == Shallow(v) /\ \A y \in Parts(v) : ValuePart(y)

LEMMA AtomsHoldNothing ==
  ASSUME NEW v, IsStr(v) \/ IsBool(v) \/ IsDecimal(v)
  PROVE  Inside(v) = {}
<1>1. \A k \in DOMAIN v : Held(v, k) = {}
  <2> TAKE k \in DOMAIN v
  <2>1. k \notin {"list", "seq", "items", "all", "true_branch", "branches", "map"}
    BY DEF IsStr, IsBool, IsDecimal
  <2> QED BY <2>1, HeldByKey
<1> QED BY <1>1 DEF Inside

LEMMA ListsHoldTheirItems ==
  ASSUME NEW v, IsList(v)
  PROVE  Inside(v) = ToSet(v.list)
<1>1. Held(v, "list") = ToSet(v.list)
  BY HeldByKey
<1> QED BY <1>1 DEF Inside, IsList

(* The shape of a document.                                                *)
YamlShape(r) ==
  /\ Shallow(r)
  /\ \A n \in Parts(r) : /\ "seq" \in DOMAIN n => n.seq \in Seq(Parts(r))
                         /\ "scalar" \in DOMAIN n => IsText(n.scalar.text)

LEMMA NodesAreValues ==
  ASSUME NEW r, YamlShape(r)
  PROVE  \A n \in Parts(r) : \A v \in NodeToValue(n) :
           /\ IsValue(v)
           /\ \A k \in Nat : k <= MaxDepth /\ Depth(n, k) => Depth(v, k)
<1> DEFINE Good(n, v) == /\ IsValue(v)
                         /\ \A k \in Nat : k <= MaxDepth /\ Depth(n, k) => Depth(v, k)
           S == {n \in Parts(r) : \A v \in NodeToValue(n) : Good(n, v)}
<1>1. Shallow(r)
  BY DEF YamlShape
<1>2. ASSUME NEW n \in Parts(r), Below(n) \subseteq S PROVE n \in S
  <2> SUFFICES ASSUME NEW v \in NodeToValue(n) PROVE Good(n, v)
    OBVIOUS
  <2>1. Shallow(n)
    BY <1>1, PartsAreClosed
  <2> DEFINE f == [z \in Parts(n) |-> NodeToValue(z)]
  <2>2. v \in NodeToValueBody(n, f)
    BY <2>1, NodeToValueUnfolds
  <2>3. CASE "scalar" \in DOMAIN n
    <3>1. v = ScalarToValue(n.scalar)
      BY <2>2, <2>3 DEF NodeToValueBody
    <3>2. \/ IsStr(v) /\ v = Str(v.str) /\ v.str = n.scalar.text
          \/ IsBool(v)
          \/ /\ v = Decimal(n.scalar.text.num[1], n.scalar.text.num[2])
             /\ "num" \in DOMAIN n.scalar.text
             /\ Abs(v.m) <= MaxMantissa /\ v.e <= MaxScale
      <4> DEFINE t == n.scalar.text
      <4>1. \/ v = Str(t)
            \/ v = Bool(t = Word("true"))
            \/ v \in ParseDecimal(t)
        BY <3>1, Zenon DEF ScalarToValue
      <4>2. CASE v = Str(t)
        BY <4>2 DEF Str, IsStr
      <4>3. CASE v = Bool(t = Word("true"))
        BY <4>3 DEF Bool, IsBool
      <4>4. CASE v \in ParseDecimal(t)
        <5>1. /\ "num" \in DOMAIN t /\ Abs(t.num[1]) <= MaxMantissa /\ t.num[2] <= MaxScale
              /\ v = Decimal(t.num[1], t.num[2])
          BY <4>4, Zenon DEF ParseDecimal
        <5> QED BY <5>1 DEF Decimal
      <4> QED BY <4>1, <4>2, <4>3, <4>4
    <3>3. IsText(n.scalar.text)
      BY <2>3 DEF YamlShape
    <3>4. \/ IsStr(v) /\ v = Str(v.str) /\ Different(v.str) # v.str
          \/ IsBool(v)
          \/ /\ IsDecimal(v) /\ v.m \in Int /\ v.e \in Nat
             /\ Abs(v.m) <= MaxMantissa /\ v.e <= MaxScale
      BY <3>2, <3>3 DEF Decimal, IsDecimal, IsText
    <3>5. Inside(v) = {} /\ ValuePart(v)
      BY <3>4, AtomsHoldNothing DEF ValuePart
    <3> QED BY <3>5, NothingInside DEF IsValue
  <2>4. CASE "scalar" \notin DOMAIN n /\ "seq" \in DOMAIN n
    <3> DEFINE read == [i \in DOMAIN n.seq |-> f[n.seq[i]]]
    <3>1. PICK items \in AllOf(read) : v = List(items)
      BY <2>2, <2>4, Zenon DEF NodeToValueBody
    <3>2. items = [i \in DOMAIN read |-> items[i]] /\ \A i \in DOMAIN read : items[i] \in read[i]
      <4> HIDE DEF read
      <4> QED BY <3>1, AllOfMembers
    <3>3. \A i \in DOMAIN n.seq : n.seq[i] \in Inside(n)
      BY <2>4, ItemsAreInside
    <3>4. \A i \in DOMAIN n.seq : n.seq[i] \in Below(n) /\ n.seq[i] \in Parts(n)
      BY <2>1, <3>3, InsideIsBelow, PartsAreClosed
    <3>5. DOMAIN items = DOMAIN n.seq
          /\ \A i \in DOMAIN n.seq : items[i] \in NodeToValue(n.seq[i])
      BY <3>2, <3>4
    <3> HIDE DEF read, f
    <3>6. IsList(v) /\ v.list = items /\ v = List(v.list)
      BY <3>1 DEF IsList, List
    <3>7. ASSUME NEW z \in Inside(v)
          PROVE  \E w \in Below(n) : Good(w, z)
      <4>1. PICK i \in DOMAIN n.seq : z = items[i]
        BY <3>5, <3>6, ListsHoldTheirItems DEF ToSet
      <4> QED BY <1>2, <3>4, <3>5, <4>1
    <3>8. ASSUME NEW k \in Nat, k <= MaxDepth, Depth(n, k) PROVE Depth(v, k)
      BY <3>7, <3>8, NestsAsDeep
    <3>9. Shallow(v)
      BY <2>1, <3>8, DepthAssumption DEF Shallow
    <3>10. IsASeq(v.list)
      <4>1. n.seq \in Seq(Parts(r))
        BY <2>4 DEF YamlShape
      <4>2. Len(n.seq) \in Nat /\ DOMAIN n.seq = 1 .. Len(n.seq)
        BY <4>1
      <4>3. items = [i \in 1 .. Len(n.seq) |-> items[i]]
        BY <3>2, <3>5, <4>2
      <4> QED BY <3>6, <4>2, <4>3 DEF IsASeq
    <3>11. \A z \in Inside(v) : IsValue(z)
      BY <3>7
    <3>12. \A y \in Parts(v) : ValuePart(y)
      <4>1. ValuePart(v)
        BY <3>6, <3>10 DEF ValuePart
      <4>2. \A y \in Below(v) : ValuePart(y)
        BY <3>11 DEF Below, IsValue
      <4> QED BY <3>9, <4>1, <4>2, PartsAndBelow
    <3> QED BY <3>8, <3>9, <3>12 DEF IsValue
  <2>5. CASE "scalar" \notin DOMAIN n /\ "seq" \notin DOMAIN n
    BY <2>2, <2>5 DEF NodeToValueBody
  <2> QED BY <2>3, <2>4, <2>5
<1> HIDE DEF S
<1>3. Parts(r) \subseteq S
  BY <1>1, <1>2, NestingInduction
<1> QED BY <1>3 DEF S

(* A condition holds nothing that is walked, and its operand is a value.   *)
IsCond(c) == DOMAIN c = {"field", "operator", "value"} /\ IsValue(c.value)

LEMMA ConditionsHoldNothing ==
  ASSUME NEW c, IsCond(c)
  PROVE  Inside(c) = {}
<1>1. \A k \in DOMAIN c : Held(c, k) = {}
  <2> TAKE k \in DOMAIN c
  <2>1. k \notin {"list", "seq", "items", "all", "true_branch", "branches", "map"}
    BY DEF IsCond
  <2> QED BY <2>1, HeldByKey
<1> QED BY <1>1 DEF Inside

LEMMA ParsedConditions ==
  ASSUME NEW r, YamlShape(r), NEW n \in Parts(r), NEW c \in ParseCondition(n)
  PROVE  IsCond(c)
<1>1. DOMAIN c = {"field", "operator", "value"} /\ c.value \in ParseValue(n)
  BY DEF ParseCondition
<1>2. "value" \in Keys(n) /\ c.value \in NodeToValue(n.map["value"])
  BY <1>1 DEF ParseValue
<1>3. n.map["value"] \in Inside(n)
  <2>1. "map" \in DOMAIN n /\ "value" \in DOMAIN n.map
    BY <1>2 DEF Keys
  <2>2. Held(n, "map") = { n.map[j] : j \in DOMAIN n.map }
    BY HeldByKey
  <2>3. n.map["value"] \in Held(n, "map")
    BY <2>1, <2>2
  <2> QED BY <2>1, <2>3 DEF Inside
<1>4. n.map["value"] \in Parts(r)
  BY <1>3, PartsAreClosed DEF YamlShape
<1> QED BY <1>1, <1>2, <1>4, NodesAreValues DEF IsCond

LEMMA LoweredConditions ==
  ASSUME NEW c, IsCond(c), NEW d \in LowerCondition(c)
  PROVE  IsCond(d) /\ d.field = c.field /\ d.value = c.value
BY DEF LowerCondition, IsCond

(* A parsed group: conditions, and groups with a sequence of members.      *)
IsAstGroup(x) == DOMAIN x = {"kind", "items"} /\ IsASeq(x.items)
AstShape(x) == Shallow(x) /\ \A y \in Parts(x) : IsCond(y) \/ IsAstGroup(y)

LEMMA AstGroupsHoldTheirItems ==
  ASSUME NEW x, IsAstGroup(x)
  PROVE  Inside(x) = ToSet(x.items)
<1>1. Held(x, "items") = ToSet(x.items) /\ Held(x, "kind") = {}
  BY HeldByKey
<1> QED BY <1>1 DEF Inside, IsAstGroup

LEMMA ParsedGroups ==
  ASSUME NEW r, YamlShape(r)
  PROVE  \A n \in Parts(r) : \A a \in ParseGroup(n) :
           /\ AstShape(a) /\ IsAstGroup(a)
           /\ \A k \in Nat : k <= MaxDepth /\ Depth(n, k) => Depth(a, k)
<1> DEFINE Good(n, a) == /\ AstShape(a)
                         /\ \A k \in Nat : k <= MaxDepth /\ Depth(n, k) => Depth(a, k)
           S == {n \in Parts(r) : \A a \in ParseGroup(n) : Good(n, a) /\ IsAstGroup(a)}
<1>1. Shallow(r)
  BY DEF YamlShape
<1>2. ASSUME NEW n \in Parts(r), Below(n) \subseteq S PROVE n \in S
  <2> SUFFICES ASSUME NEW a \in ParseGroup(n) PROVE Good(n, a) /\ IsAstGroup(a)
    OBVIOUS
  <2>1. Shallow(n) /\ Below(n) \subseteq Parts(r)
    BY <1>1, PartsAreClosed
  <2> DEFINE f == [z \in Parts(n) |-> ParseGroup(z)]
             kind == IF GetSequence(n, "all") # {} THEN "all" ELSE "any"
  <2>2. a \in ParseGroupBody(n, f)
    BY <2>1, ParseGroupUnfolds
  <2>3. PICK s \in SideOf(n) : \E items \in ItemsOf(s, f) : a = [kind |-> kind, items |-> items]
    <3> DEFINE Of(s) == { [kind |-> kind, items |-> items] : items \in ItemsOf(s, f) }
    <3>1. ParseGroupBody(n, f) = UNION { Of(s) : s \in SideOf(n) }
      BY Zenon DEF ParseGroupBody
    <3> HIDE DEF f, Of
    <3>2. PICK s \in SideOf(n) : a \in Of(s)
      BY <2>2, <3>1
    <3> QED BY <3>2, Zenon DEF Of
  <2>3a. PICK items \in ItemsOf(s, f) : a = [kind |-> kind, items |-> items]
    BY <2>3
  <2> DEFINE read == [i \in DOMAIN s |->
                        IF "map" \in DOMAIN s[i]
                        THEN IF GetScalar(s[i], "field") # {} THEN ParseCondition(s[i])
                                                             ELSE f[s[i]]
                        ELSE {}]
  <2>4. items = [i \in DOMAIN read |-> items[i]] /\ \A i \in DOMAIN read : items[i] \in read[i]
    <3>1. items \in AllOf(read)
      BY <2>3a, Zenon DEF ItemsOf
    <3> HIDE DEF read
    <3> QED BY <3>1, AllOfMembers
  <2>5. \A i \in DOMAIN s : s[i] \in Below(n) /\ s[i] \in Parts(n) /\ s[i] \in Parts(r)
    <3>1. \A i \in DOMAIN s : s[i] \in Below(n)
      BY <2>1, SequenceIsBelow DEF SideOf
    <3> QED BY <2>1, <3>1, PartsAreClosed
  <2>6. /\ DOMAIN items = DOMAIN s
        /\ \A i \in DOMAIN s : items[i] \in ParseCondition(s[i]) \/ items[i] \in ParseGroup(s[i])
    BY <2>4, <2>5
  <2> HIDE DEF read, f, kind
  <2>7. DOMAIN a = {"kind", "items"} /\ a.items = items
    BY <2>3a
  <2>8. IsASeq(items)
    <3>1. PICK m \in Get(n, "all", "seq") \cup Get(n, "any", "seq") : s = m.seq
      BY <2>3 DEF SideOf, GetSequence
    <3>2. m \in Inside(n) /\ "seq" \in DOMAIN m
      BY <3>1, GetIsInside
    <3>3. m \in Parts(r)
      BY <1>1, <3>2, PartsAreClosed
    <3>4. s \in Seq(Parts(r))
      BY <3>1, <3>2, <3>3 DEF YamlShape
    <3>5. Len(s) \in Nat /\ DOMAIN s = 1 .. Len(s)
      BY <3>4
    <3>6. items = [i \in 1 .. Len(s) |-> items[i]]
      BY <2>4, <2>6, <3>5
    <3> QED BY <3>5, <3>6 DEF IsASeq
  <2>9. IsAstGroup(a)
    BY <2>7, <2>8 DEF IsAstGroup
  <2>10. ASSUME NEW z \in Inside(a)
         PROVE  \E w \in Below(n) : Good(w, z)
    <3>1. PICK i \in DOMAIN s : z = items[i]
      BY <2>6, <2>7, <2>9, <2>10, AstGroupsHoldTheirItems DEF ToSet
    <3>2. CASE items[i] \in ParseCondition(s[i])
      <4>1. IsCond(z)
        BY <2>5, <3>1, <3>2, ParsedConditions
      <4>2. Inside(z) = {}
        BY <4>1, ConditionsHoldNothing
      <4>3. Good(s[i], z)
        BY <4>1, <4>2, NothingInside DEF AstShape
      <4> QED BY <2>5, <4>3
    <3>3. CASE items[i] \in ParseGroup(s[i])
      BY <1>2, <2>5, <3>1, <3>3
    <3> QED BY <2>6, <3>2, <3>3
  <2>11. ASSUME NEW k \in Nat, k <= MaxDepth, Depth(n, k) PROVE Depth(a, k)
    BY <2>10, <2>11, NestsAsDeep
  <2>12. Shallow(a)
    BY <2>1, <2>11, DepthAssumption DEF Shallow
  <2>13. \A y \in Parts(a) : IsCond(y) \/ IsAstGroup(y)
    <3>1. \A z \in Inside(a) : AstShape(z)
      BY <2>10
    <3>2. \A y \in Below(a) : IsCond(y) \/ IsAstGroup(y)
      BY <3>1 DEF Below, AstShape
    <3> QED BY <2>9, <2>12, <3>2, PartsAndBelow
  <2> QED BY <2>9, <2>11, <2>12, <2>13 DEF AstShape
<1> HIDE DEF S
<1>3. Parts(r) \subseteq S
  BY <1>1, <1>2, NestingInduction
<1> QED BY <1>3 DEF S

(* A lowered group has one side.                                           *)
OneSided(x) ==
  /\ DOMAIN x = {"all", "any"}
  /\ \E s : IsASeq(s) /\ \/ x.all = {s} /\ x.any = {}
                         \/ x.all = {} /\ x.any = {s}

GroupShape(x) == Shallow(x) /\ \A y \in Parts(x) : IsCond(y) \/ OneSided(y)

LEMMA GroupsHoldTheirMembers ==
  ASSUME NEW x, OneSided(x)
  PROVE  /\ Inside(x) = UNION { ToSet(s) : s \in x.all \cup x.any }
         /\ \A s : x.all \cup x.any = {s} => Inside(x) = ToSet(s)
<1>1. Held(x, "all") = UNION { ToSet(s) : s \in x.all \cup x.any } /\ Held(x, "any") = {}
  BY HeldByKey
<1>2. Inside(x) = UNION { ToSet(s) : s \in x.all \cup x.any }
  BY <1>1 DEF Inside, OneSided
<1> QED BY <1>2

LEMMA LoweredGroups ==
  ASSUME NEW r, AstShape(r)
  PROVE  \A a \in Parts(r) : \A g \in LowerGroup(a) :
           /\ GroupShape(g) /\ (IsAstGroup(a) => OneSided(g))
           /\ \A k \in Nat : k <= MaxDepth /\ Depth(a, k) => Depth(g, k)
<1> DEFINE Good(a, g) == /\ GroupShape(g)
                         /\ \A k \in Nat : k <= MaxDepth /\ Depth(a, k) => Depth(g, k)
           S == {a \in Parts(r) : \A g \in LowerGroup(a) :
                                    Good(a, g) /\ (IsAstGroup(a) => OneSided(g))}
<1>1. Shallow(r)
  BY DEF AstShape
<1>2. ASSUME NEW a \in Parts(r), Below(a) \subseteq S PROVE a \in S
  <2> SUFFICES ASSUME NEW g \in LowerGroup(a)
               PROVE  Good(a, g) /\ (IsAstGroup(a) => OneSided(g))
    OBVIOUS
  <2>1. Shallow(a)
    BY <1>1, PartsAreClosed
  <2> DEFINE f == [z \in Parts(a) |-> LowerGroup(z)]
  <2>2. g \in LowerGroupBody(a, f)
    BY <2>1, LowerGroupUnfolds
  <2>3. CASE IsCond(a)
    <3>1. "items" \notin DOMAIN a /\ ~ IsAstGroup(a)
      BY <2>3 DEF IsCond, IsAstGroup
    <3>2. g \in LowerCondition(a)
      BY <2>2, <3>1 DEF LowerGroupBody
    <3>3. IsCond(g)
      BY <2>3, <3>2, LoweredConditions
    <3>4. Inside(g) = {}
      BY <3>3, ConditionsHoldNothing
    <3> QED BY <3>1, <3>3, <3>4, NothingInside DEF GroupShape
  <2>4. CASE IsAstGroup(a)
    <3> DEFINE read == [i \in DOMAIN a.items |-> f[a.items[i]]]
    <3>1. PICK items \in AllOf(read) :
            g = IF a.kind = "all" THEN [all |-> {items}, any |-> {}]
                                  ELSE [all |-> {}, any |-> {items}]
      <4>1. "items" \in DOMAIN a
        BY <2>4 DEF IsAstGroup
      <4> QED BY <2>2, <4>1, Zenon DEF LowerGroupBody
    <3>2. items = [i \in DOMAIN read |-> items[i]] /\ \A i \in DOMAIN read : items[i] \in read[i]
      <4> HIDE DEF read
      <4> QED BY <3>1, AllOfMembers
    <3>3. \A i \in DOMAIN a.items : a.items[i] \in Below(a) /\ a.items[i] \in Parts(a)
      <4>1. \A i \in DOMAIN a.items : a.items[i] \in Inside(a)
        BY <2>4, ItemsAreInside DEF IsAstGroup
      <4> QED BY <2>1, <4>1, InsideIsBelow, PartsAreClosed
    <3>4. DOMAIN items = DOMAIN a.items
          /\ \A i \in DOMAIN a.items : items[i] \in LowerGroup(a.items[i])
      BY <3>2, <3>3
    <3> HIDE DEF read, f
    <3>5. IsASeq(items)
      <4>1. PICK n \in Nat : a.items = [i \in 1 .. n |-> a.items[i]]
        BY <2>4 DEF IsAstGroup, IsASeq
      <4>2. DOMAIN a.items = 1 .. n
        BY <4>1
      <4>3. items = [i \in 1 .. n |-> items[i]]
        BY <3>2, <3>4, <4>2
      <4> QED BY <4>3 DEF IsASeq
    <3>6. /\ DOMAIN g = {"all", "any"}
          /\ \/ g.all = {items} /\ g.any = {}
             \/ g.all = {} /\ g.any = {items}
      BY <3>1
    <3>7. OneSided(g)
      BY <3>5, <3>6 DEF OneSided
    <3>8. Inside(g) = ToSet(items)
      BY <3>6, <3>7, GroupsHoldTheirMembers
    <3>9. ASSUME NEW z \in Inside(g)
          PROVE  \E w \in Below(a) : Good(w, z)
      <4>1. PICK i \in DOMAIN a.items : z = items[i]
        BY <3>4, <3>8 DEF ToSet
      <4> QED BY <1>2, <3>3, <3>4, <4>1
    <3>10. ASSUME NEW k \in Nat, k <= MaxDepth, Depth(a, k) PROVE Depth(g, k)
      BY <3>9, <3>10, NestsAsDeep
    <3>11. Shallow(g)
      BY <2>1, <3>10, DepthAssumption DEF Shallow
    <3>12. \A y \in Parts(g) : IsCond(y) \/ OneSided(y)
      <4>1. \A z \in Inside(g) : GroupShape(z)
        BY <3>9
      <4>2. \A y \in Below(g) : IsCond(y) \/ OneSided(y)
        BY <4>1 DEF Below, GroupShape
      <4> QED BY <3>7, <3>11, <4>2, PartsAndBelow
    <3> QED BY <3>7, <3>10, <3>11, <3>12 DEF GroupShape
  <2>5. IsCond(a) \/ IsAstGroup(a)
    BY DEF AstShape
  <2> QED BY <2>3, <2>4, <2>5
<1> HIDE DEF S
<1>3. Parts(r) \subseteq S
  BY <1>1, <1>2, NestingInduction
<1> QED BY <1>3 DEF S

-----------------------------------------------------------------------------
(* Applicability.                                                          *)

LEMMA MembersAreASeq ==
  ASSUME NEW x, OneSided(x)
  PROVE  /\ IsASeq(Members(x))
         /\ \A s : x.all \cup x.any = {s} => Members(x) = s
<1>1. PICK s : /\ IsASeq(s)
               /\ \/ x.all = {s} /\ x.any = {}
                  \/ x.all = {} /\ x.any = {s}
  BY Zenon DEF OneSided
<1>4. x.all \cup x.any = {s}
  BY <1>1
<1>5. \A z : x.all \cup x.any = {z} => z = s
  BY <1>4
<1>2. CASE s = <<>>
  <2>1. ~ NonEmpty(x.all) /\ ~ NonEmpty(x.any)
    BY <1>1, <1>2 DEF NonEmpty
  <2>2. Members(x) = s
    BY <1>2, <2>1 DEF Members
  <2> QED BY <1>1, <1>5, <2>2, Zenon
<1>3. CASE s # <<>>
  <2>1. Members(x) = s
    BY <1>1, <1>3 DEF NonEmpty, Members
  <2> QED BY <1>1, <1>5, <2>1, Zenon
<1> QED BY <1>2, <1>3

(* A spliced group is all its members' conditions, when those are.         *)
LEMMA SplicedGroups ==
  ASSUME NEW x, Shallow(x), OneSided(x), NEW E, \A y \in Below(x) : Flatten(y) \in Seq(E)
  PROVE  /\ Flatten(x) \in Seq(E)
         /\ ToSet(Flatten(x))
              = UNION { ToSet(Flatten(Members(x)[i])) : i \in DOMAIN Members(x) }
<1> DEFINE f == [z \in Parts(x) |-> Flatten(z)]
           seqs == [i \in DOMAIN Members(x) |-> f[Members(x)[i]]]
<1>1. IsGroup(x)
  BY DEF OneSided, IsGroup
<1>2. Flatten(x) = FlattenSeq(seqs)
  <2>1. Flatten(x) = FlattenBody(x, f)
    BY FlattenUnfolds
  <2> HIDE DEF f
  <2> QED BY <1>1, <2>1 DEF FlattenBody
<1>3. \A i \in DOMAIN Members(x) : Members(x)[i] \in Below(x) /\ Members(x)[i] \in Parts(x)
  BY <1>1, MembersAreBelow, PartsAreClosed
<1>4. \A i \in DOMAIN Members(x) : seqs[i] = Flatten(Members(x)[i])
  BY <1>3
<1> HIDE DEF f
<1>5. PICK n \in Nat : DOMAIN Members(x) = 1 .. n
  <2>1. PICK n \in Nat : Members(x) = [i \in 1 .. n |-> Members(x)[i]]
    BY MembersAreASeq DEF IsASeq
  <2> QED BY <2>1
<1>6. seqs \in Seq(Seq(E))
  <2>1. \A i \in 1 .. n : seqs[i] \in Seq(E)
    BY <1>3, <1>4, <1>5
  <2>2. seqs = [i \in 1 .. n |-> seqs[i]]
    BY <1>5
  <2> HIDE DEF seqs
  <2> QED BY <2>1, <2>2
<1>7. DOMAIN seqs = DOMAIN Members(x)
  OBVIOUS
<1> HIDE DEF seqs
<1>8. FlattenSeq(seqs) \in Seq(E)
      /\ ToSet(FlattenSeq(seqs)) = UNION { ToSet(seqs[i]) : i \in DOMAIN seqs }
  BY <1>6, FlattenKeepsAll
<1>9. UNION { ToSet(seqs[i]) : i \in DOMAIN seqs }
        = UNION { ToSet(Flatten(Members(x)[i])) : i \in DOMAIN Members(x) }
  BY <1>4, <1>7
<1> QED BY <1>2, <1>8, <1>9

LEMMA SplicedConditions ==
  ASSUME NEW c, Shallow(c), ~ IsGroup(c)
  PROVE  Flatten(c) = <<c>> /\ ToSet(Flatten(c)) = {c}
<1>1. Flatten(c) = <<c>>
  BY FlattenUnfolds DEF FlattenBody
<1>2. ToSet(<<c>>) = {c}
  BY DEF ToSet
<1> QED BY <1>1, <1>2

LEMMA CondOrGroup ==
  \A x : /\ IsCond(x) => ~ IsGroup(x)
         /\ OneSided(x) => IsGroup(x)
BY DEF IsCond, OneSided, IsGroup

ConditionsIn(g) == { x \in Parts(g) : ~ IsGroup(x) }

LEMMA FlattenIsSeq ==
  ASSUME NEW g, GroupShape(g)
  PROVE  \A x \in Parts(g) : Flatten(x) \in Seq(ConditionsIn(g))
<1> DEFINE S == { x \in Parts(g) : Flatten(x) \in Seq(ConditionsIn(g)) }
<1>1. Shallow(g)
  BY DEF GroupShape
<1>2. ASSUME NEW x \in Parts(g), Below(x) \subseteq S PROVE x \in S
  <2>1. Shallow(x) /\ (IsCond(x) \/ OneSided(x))
    BY <1>1, PartsAreClosed DEF GroupShape
  <2>2. CASE IsCond(x)
    <3>1. Flatten(x) = <<x>> /\ x \in ConditionsIn(g)
      BY <2>1, <2>2, SplicedConditions, CondOrGroup DEF ConditionsIn
    <3> QED BY <3>1
  <2>3. CASE OneSided(x)
    BY <1>2, <2>1, <2>3, SplicedGroups
  <2> QED BY <2>1, <2>2, <2>3
<1> HIDE DEF S
<1>3. Parts(g) \subseteq S
  BY <1>1, <1>2, NestingInduction
<1> QED BY <1>3 DEF S

(* What the checks of a group settle.                                      *)
Settled(g, facts) ==
  LET all == GroupMode(g) = "all"
  IN  \/ Flatten(g) = <<>>
      \/ (\A c \in ToSet(Flatten(g)) : Holds(c, facts) = all) = all

LEMMA SeqsAndSets ==
  ASSUME NEW E, NEW s \in Seq(E)
  PROVE  /\ s = <<>> <=> ToSet(s) = {}
         /\ \A c \in ToSet(s) : \E i \in DOMAIN s : c = s[i]
         /\ \A i \in DOMAIN s : s[i] \in ToSet(s)
<1>1. s = <<>> => ToSet(s) = {}
  BY DEF ToSet
<1>2. s # <<>> => 1 \in DOMAIN s
  OBVIOUS
<1> QED BY <1>1, <1>2 DEF ToSet

LEMMA ApplicabilityOfOne ==
  ASSUME NEW g, NEW facts, NEW E, Flatten(g) \in Seq(E)
  PROVE  Applicability({g}, facts).holds <=> Settled(g, facts)
<1> DEFINE checks == FlattenSeq(SetToSeq({ Flatten(h) : h \in {g} }))
           all == \A h \in {g} : GroupMode(h) = "all"
           settles == { i \in DOMAIN checks : Holds(checks[i], facts) # all }
           last == IF settles = {} THEN Len(checks) ELSE Min(settles)
           holds == checks = <<>> \/ (settles = {}) = all
<1>1. Applicability({g}, facts)
        = [holds |-> holds, steps |-> [i \in 1 .. last |-> NormStep(checks[i], facts)]]
  BY Zenon DEF Applicability
<1>2. Applicability({g}, facts).holds = holds
  <2> HIDE DEF holds, last
  <2> QED BY <1>1
<1>3. checks \in Seq(E) /\ ToSet(checks) = ToSet(Flatten(g))
  <2>1. { Flatten(h) : h \in {g} } = {Flatten(g)}
    OBVIOUS
  <2> DEFINE ss == SetToSeq({Flatten(g)})
  <2>2. ss \in Seq({Flatten(g)}) /\ ToSet(ss) = {Flatten(g)}
    BY SeqOfOne
  <2> HIDE DEF ss
  <2>3. ss \in Seq(Seq(E))
    BY <2>2
  <2>4. FlattenSeq(ss) \in Seq(E)
        /\ ToSet(FlattenSeq(ss)) = UNION { ToSet(ss[i]) : i \in DOMAIN ss }
    BY <2>3, FlattenKeepsAll
  <2>5. UNION { ToSet(ss[i]) : i \in DOMAIN ss } = ToSet(Flatten(g))
    <3>1. \A i \in DOMAIN ss : ss[i] = Flatten(g)
      BY <2>2 DEF ToSet
    <3>2. \E i \in DOMAIN ss : TRUE
      BY <2>2 DEF ToSet
    <3> QED BY <3>1, <3>2
  <2>6. checks = FlattenSeq(ss)
    BY <2>1 DEF ss
  <2> QED BY <2>4, <2>5, <2>6
<1> HIDE DEF checks
<1>4. checks = <<>> <=> Flatten(g) = <<>>
  BY <1>3, SeqsAndSets
<1>5. all <=> GroupMode(g) = "all"
  OBVIOUS
<1> HIDE DEF all
<1>6. settles = {} <=> \A c \in ToSet(Flatten(g)) : Holds(c, facts) = all
  <2>1. \A c \in ToSet(checks) : \E i \in DOMAIN checks : c = checks[i]
    BY <1>3, SeqsAndSets
  <2>2. \A i \in DOMAIN checks : checks[i] \in ToSet(checks)
    BY <1>3, SeqsAndSets
  <2> QED BY <1>3, <2>1, <2>2
<1> HIDE DEF settles
<1> QED BY <1>2, <1>4, <1>5, <1>6 DEF Settled


LEMMA HoldsIsBoolean ==
  \A c, facts : Holds(c, facts) \in BOOLEAN
<1>1. \A a, b : EvalEq(a, b) \in BOOLEAN
  BY DEF EvalEq
<1>2. \A a, b : EvalIn(a, b) \in BOOLEAN
  BY DEF EvalIn
<1>3. \A a, b, op : EvalOrd(a, b, op) \in BOOLEAN
  BY DEF EvalOrd
<1>4. ASSUME NEW a, NEW op, NEW b PROVE Compare(a, op, b) \in BOOLEAN
  BY <1>1, <1>2, <1>3 DEF Compare, IsPresent
<1> QED BY <1>4 DEF Holds

(* A group says what its spliced conditions say together.                  *)
SaysWhatItsChecksSay(x, all, facts) ==
  IF all THEN Satisfied(x, facts) <=> \A c \in ToSet(Flatten(x)) : Holds(c, facts)
         ELSE Satisfied(x, facts) <=> \E c \in ToSet(Flatten(x)) : Holds(c, facts)

LEMMA SplicingKeepsTheMeaning ==
  ASSUME NEW g, GroupShape(g), OneMode(g), NEW facts
  PROVE  \A x \in Parts(g) :
           /\ ToSet(Flatten(x)) # {}
           /\ SaysWhatItsChecksSay(x, GroupMode(g) = "all", facts)
<1> DEFINE M == GroupMode(g) = "all"
           S == { x \in Parts(g) : /\ ToSet(Flatten(x)) # {}
                                   /\ SaysWhatItsChecksSay(x, M, facts) }
<1>1. Shallow(g)
  BY DEF GroupShape
<1>2. ASSUME NEW x \in Parts(g), Below(x) \subseteq S PROVE x \in S
  <2> DEFINE holds == [z \in Parts(x) |-> Satisfied(z, facts)]
             T == ToSet(Flatten(x))
  <2>1. Shallow(x) /\ (IsCond(x) \/ OneSided(x)) /\ Parts(x) \subseteq Parts(g)
    BY <1>1, PartsAreClosed DEF GroupShape
  <2>2. Satisfied(x, facts) = SatisfiedBody(x, facts, holds)
    BY <2>1, SatisfiedUnfolds
  <2>3. CASE IsCond(x)
    <3>1. ToSet(Flatten(x)) = {x}
      BY <2>1, <2>3, SplicedConditions, CondOrGroup
    <3>2. Satisfied(x, facts) = Holds(x, facts)
      BY <2>2, <2>3, CondOrGroup, Zenon DEF SatisfiedBody
    <3> QED BY <3>1, <3>2, Zenon DEF SaysWhatItsChecksSay
  <2>4. CASE OneSided(x)
    <3>1. IsGroup(x) /\ ~ GroupIsEmpty(x) /\ GroupMode(x) = GroupMode(g)
      BY <2>4, CondOrGroup DEF OneMode
    <3> DEFINE s == Members(x)
    <3>2. \A i \in DOMAIN s : s[i] \in Below(x) /\ s[i] \in Parts(x)
      BY <2>1, <3>1, MembersAreBelow, PartsAreClosed
    <3>3. /\ M => x.all = {s} /\ x.any = {}
          /\ ~ M => x.any = {s} /\ x.all = {}
          /\ s # <<>>
      BY <2>4, <3>1, MembersAreASeq DEF OneSided, GroupMode, GroupIsEmpty, NonEmpty
    <3>4. T = UNION { ToSet(Flatten(s[i])) : i \in DOMAIN s }
      <4>1. \A y \in Below(x) : Flatten(y) \in Seq(ConditionsIn(g))
        BY <1>1, FlattenIsSeq, PartsAreClosed
      <4> QED BY <2>1, <2>4, <4>1, SplicedGroups
    <3>5. \A i \in DOMAIN s : /\ ToSet(Flatten(s[i])) # {}
                              /\ SaysWhatItsChecksSay(s[i], M, facts)
                              /\ holds[s[i]] = Satisfied(s[i], facts)
      BY <1>2, <3>2
    <3>6. PICK n \in Nat : s = [i \in 1 .. n |-> s[i]] /\ n # 0
      <4>1. PICK n \in Nat : s = [i \in 1 .. n |-> s[i]]
        BY <2>4, MembersAreASeq DEF IsASeq
      <4>2. n # 0
        BY <3>3, <4>1
      <4> QED BY <4>1, <4>2
    <3> HIDE DEF M, holds, s, T
    <3>7. 1 \in DOMAIN s
      BY <3>6
    <3>8. T # {}
      BY <3>4, <3>5, <3>7
    <3>9. CASE M
      <4>1. Satisfied(x, facts) <=> \A i \in DOMAIN s : Satisfied(s[i], facts)
        BY <2>2, <3>1, <3>3, <3>5, <3>9 DEF SatisfiedBody
      <4>2. \A i \in DOMAIN s :
              Satisfied(s[i], facts) <=> \A c \in ToSet(Flatten(s[i])) : Holds(c, facts)
        BY <3>5, <3>9 DEF SaysWhatItsChecksSay
      <4>3. Satisfied(x, facts) <=> \A c \in T : Holds(c, facts)
        BY <3>4, <4>1, <4>2
      <4> QED BY <3>8, <3>9, <4>3 DEF SaysWhatItsChecksSay, T
    <3>10. CASE ~ M
      <4>1. Satisfied(x, facts) <=> \E i \in DOMAIN s : Satisfied(s[i], facts)
        BY <2>2, <3>1, <3>3, <3>5, <3>10 DEF SatisfiedBody
      <4>2. \A i \in DOMAIN s :
              Satisfied(s[i], facts) <=> \E c \in ToSet(Flatten(s[i])) : Holds(c, facts)
        BY <3>5, <3>10 DEF SaysWhatItsChecksSay
      <4>3. Satisfied(x, facts) <=> \E c \in T : Holds(c, facts)
        BY <3>4, <4>1, <4>2
      <4> QED BY <3>8, <3>10, <4>3 DEF SaysWhatItsChecksSay, T
    <3> QED BY <3>9, <3>10
  <2> QED BY <2>1, <2>3, <2>4
<1> HIDE DEF S
<1>3. Parts(g) \subseteq S
  BY <1>1, <1>2, NestingInduction
<1> QED BY <1>3 DEF S

LEMMA SettledIsSatisfied ==
  ASSUME NEW g, GroupShape(g), OneMode(g), NEW facts
  PROVE  Settled(g, facts) <=> Satisfied(g, facts)
<1>1. g \in Parts(g)
  BY PartsAreClosed DEF GroupShape
<1>2. /\ ToSet(Flatten(g)) # {}
      /\ SaysWhatItsChecksSay(g, GroupMode(g) = "all", facts)
  BY <1>1, SplicingKeepsTheMeaning
<1>3. Flatten(g) # <<>>
  BY <1>2 DEF ToSet
<1>4. \A c : Holds(c, facts) \in BOOLEAN
  BY HoldsIsBoolean
<1>5. CASE GroupMode(g) = "all"
  BY <1>2, <1>3, <1>4, <1>5 DEF SaysWhatItsChecksSay, Settled
<1>6. CASE GroupMode(g) # "all"
  BY <1>2, <1>3, <1>4, <1>6 DEF SaysWhatItsChecksSay, Settled
<1> QED BY <1>5, <1>6

(* A compiled rule applies by one group at most, and it has a group's      *)
(* shape.                                                                  *)
LEMMA CompiledGroups ==
  ASSUME NEW d \in Documents \cup IntentDocuments, ~ IsIntent(d),
         NEW rules \in CompileRules(d), NEW i \in DOMAIN rules, NEW g \in rules[i].applies_if
  PROVE  rules[i].applies_if = {g} /\ GroupShape(g) /\ OneSided(g)
<1>1. PICK node \in Parts(d) : \E ast \in ParseRule(node) : rules[i] \in LowerRule(ast)
  BY CompiledRules
<1>2. PICK ast \in ParseRule(node) : rules[i] \in LowerRule(ast)
  BY <1>1
<1>3. YamlShape(d)
  BY CompiledRules DEF IsYaml, YamlShape
<1>4. rules[i].applies_if \in Optional(ast.applies_if, LowerGroup)
  BY <1>2 DEF LowerRule
<1>5. PICK a \in ast.applies_if : g \in LowerGroup(a) /\ rules[i].applies_if = {g}
  BY <1>4 DEF Optional
<1>6. ast.applies_if \in Optional(GetMapping(node, "applies_if"), ParseGroup)
  BY <1>2 DEF ParseRule
<1>7. PICK m \in Get(node, "applies_if", "map") : a \in ParseGroup(m)
  BY <1>6 DEF Optional, GetMapping
<1>8. m \in Parts(d)
  BY <1>3, <1>7, GetIsInside, PartsAreClosed DEF YamlShape
<1>9. AstShape(a) /\ IsAstGroup(a)
  BY <1>3, <1>7, <1>8, ParsedGroups
<1>10. a \in Parts(a)
  BY <1>9, PartsAreClosed DEF AstShape
<1> QED BY <1>5, <1>9, <1>10, LoweredGroups

LEMMA EvaluateApplies ==
  ASSUME NEW rule, NEW facts
  PROVE  Evaluate(rule, facts).applicable <=> Applicability(rule.applies_if, facts).holds
<1> DEFINE app == Applicability(rule.applies_if, facts)
<1>1. CASE app.holds
  BY <1>1 DEF Evaluate, Evaluation
<1>2. CASE ~ app.holds
  BY <1>2 DEF Evaluate, Evaluation
<1> QED BY <1>1, <1>2

(* A rule applies when its groups say so, whatever the facts: the checks   *)
(* the runtime goes through one after the other, nested groups spliced in, *)
(* settle what the groups mean (exec.rs applicability, flatten).           *)
THEOREM ApplicabilityFollowsTheGroups == Spec => []ApplicabilityIsTheGroups
<1>1. PipelineInv => ApplicabilityIsTheGroups
  <2> SUFFICES ASSUME PipelineInv, answer.what = "scenario",
                      NEW g \in answer.rule.applies_if, OneMode(g)
               PROVE  answer.evaluation.applicable <=> Satisfied(g, answer.facts)
    BY DEF ApplicabilityIsTheGroups
  <2>1. PICK rules : /\ rules \in Compiled
                     /\ \E i \in DOMAIN rules :
                          /\ answer.rule = rules[i]
                          /\ answer.evaluation = Evaluate(rules[i], answer.facts)
    BY DEF PipelineInv, AnswerIsOurs
  <2>2. PICK i \in DOMAIN rules : /\ answer.rule = rules[i]
                                  /\ answer.evaluation = Evaluate(rules[i], answer.facts)
    BY <2>1
  <2>3. answer.rule.applies_if = {g} /\ GroupShape(g) /\ OneSided(g)
    BY <2>1, <2>2, CompiledGroups DEF PipelineInv, Compiled
  <2>4. Flatten(g) \in Seq(ConditionsIn(g))
    BY <2>3, FlattenIsSeq, PartsAreClosed DEF GroupShape
  <2>5. Applicability({g}, answer.facts).holds <=> Settled(g, answer.facts)
    BY <2>4, ApplicabilityOfOne
  <2>6. Settled(g, answer.facts) <=> Satisfied(g, answer.facts)
    BY <2>3, SettledIsSatisfied
  <2>7. answer.evaluation.applicable <=> Applicability({g}, answer.facts).holds
    BY <2>2, <2>3, EvaluateApplies
  <2> QED BY <2>5, <2>6, <2>7
<1>2. Spec => []PipelineInv
  BY PipelineInvariance
<1> QED BY <1>1, <1>2, PTL

-----------------------------------------------------------------------------
(* Decision trees.                                                         *)

BranchOf(n, key, f) ==
  IF GetMapping(n, key) = {} THEN {{}}
  ELSE UNION { { {x} : x \in f[y] } : y \in GetMapping(n, key) }

ParseDecisionBody(n, f) ==
  IF GetScalar(n, "result") # {} THEN ParseLeaf(n)
  ELSE ParseNode(n, BranchOf(n, "true_branch", f), BranchOf(n, "false_branch", f))

LEMMA ParseDecisionLocal ==
  ASSUME NEW x, NEW f, NEW g, \A z \in Below(x) : f[z] = g[z]
  PROVE  ParseDecisionBody(x, f) = ParseDecisionBody(x, g)
<1>1. ASSUME NEW key PROVE BranchOf(x, key, f) = BranchOf(x, key, g)
  <2>1. \A m \in GetMapping(x, key) : f[m] = g[m]
    BY GetIsInside, InsideIsBelow DEF GetMapping
  <2> DEFINE Of(h, m) == { {z} : z \in h[m] }
  <2>2. \A m \in GetMapping(x, key) : Of(f, m) = Of(g, m)
    BY <2>1
  <2>3. /\ BranchOf(x, key, f) = IF GetMapping(x, key) = {} THEN {{}}
                                 ELSE UNION { Of(f, m) : m \in GetMapping(x, key) }
        /\ BranchOf(x, key, g) = IF GetMapping(x, key) = {} THEN {{}}
                                 ELSE UNION { Of(g, m) : m \in GetMapping(x, key) }
    BY Zenon DEF BranchOf
  <2> HIDE DEF Of
  <2> QED BY <2>2, <2>3
<1>2. /\ BranchOf(x, "true_branch", f) = BranchOf(x, "true_branch", g)
      /\ BranchOf(x, "false_branch", f) = BranchOf(x, "false_branch", g)
  BY <1>1
<1> QED BY <1>2, Zenon DEF ParseDecisionBody

LEMMA ParseDecisionExists ==
  ASSUME NEW r, Shallow(r)
  PROVE  \E f : f = [x \in Parts(r) |-> ParseDecisionBody(x, f)]
<1> DEFINE S == {n \in Nat : n <= MaxDepth + 1
                   => \E f : f = [x \in Lower(r, n) |-> ParseDecisionBody(x, f)]}
<1>1. 0 \in S
  <2> DEFINE f == [x \in Lower(r, 0) |-> ParseDecisionBody(x, <<>>)]
  <2>1. f = [x \in Lower(r, 0) |-> ParseDecisionBody(x, f)]
    BY LowerGrows
  <2> QED BY <2>1, Zenon
<1>2. ASSUME NEW n \in Nat, n \in S PROVE n + 1 \in S
  <2> SUFFICES ASSUME n + 1 <= MaxDepth + 1
               PROVE  \E f : f = [x \in Lower(r, n + 1) |-> ParseDecisionBody(x, f)]
    OBVIOUS
  <2>1. n <= MaxDepth /\ n <= MaxDepth + 1
    BY DepthAssumption
  <2>2. PICK f : f = [x \in Lower(r, n) |-> ParseDecisionBody(x, f)]
    BY <1>2, <2>1
  <2> DEFINE g == [x \in Lower(r, n + 1) |-> ParseDecisionBody(x, f)]
  <2>3. \A x \in Lower(r, n) : f[x] = ParseDecisionBody(x, f)
    BY <2>2, Zenon
  <2>4. Lower(r, n) \subseteq Lower(r, n + 1)
    BY <2>1, LowerOnLower
  <2>5. \A x \in Lower(r, n) : g[x] = f[x]
    BY <2>3, <2>4
  <2>6. ASSUME NEW x \in Lower(r, n + 1) PROVE ParseDecisionBody(x, f) = ParseDecisionBody(x, g)
    <3>1. Below(x) \subseteq Lower(r, n)
      BY <2>1, LowerGrows
    <3> HIDE DEF g
    <3> QED BY <2>5, <3>1, ParseDecisionLocal
  <2>7. g = [x \in Lower(r, n + 1) |-> ParseDecisionBody(x, g)]
    BY <2>6
  <2> QED BY <2>7, Zenon
<1> HIDE DEF S
<1>3. Nat \subseteq S
  BY <1>1, <1>2, NatSetInduction
<1>4. \E f : f = [x \in Lower(r, MaxDepth + 1) |-> ParseDecisionBody(x, f)]
  BY <1>3, DepthAssumption DEF S
<1> QED BY <1>4, LowerGrows

LEMMA ParseDecisionUnfolds ==
  ASSUME NEW r, Shallow(r)
  PROVE  ParseDecision(r) = ParseDecisionBody(r, [z \in Parts(r) |-> ParseDecision(z)])
<1> DEFINE F(x) == CHOOSE f : f = [z \in Parts(x) |-> ParseDecisionBody(z, f)]
<1>1. ASSUME NEW x, Shallow(x)
      PROVE  /\ ParseDecision(x) = F(x)[x]
             /\ \A z \in Parts(x) : F(x)[z] = ParseDecisionBody(z, F(x))
  <2>1. ParseDecision(x) = F(x)[x]
    BY Zenon DEF ParseDecision, ParseDecisionBody, BranchOf, Optional
  <2>2. \E f : f = [z \in Parts(x) |-> ParseDecisionBody(z, f)]
    BY <1>1, ParseDecisionExists
  <2>3. F(x) = [z \in Parts(x) |-> ParseDecisionBody(z, F(x))]
    BY <2>2, Zenon
  <2> HIDE DEF F
  <2> QED BY <2>1, <2>3
<1> HIDE DEF F
<1>2. ASSUME NEW z \in Parts(r) PROVE F(r)[z] = ParseDecision(z)
  <2>1. Shallow(z) /\ Parts(z) \subseteq Parts(r)
    BY PartsAreClosed
  <2>2. ASSUME NEW y \in Parts(z), \A w \in Below(y) : F(r)[w] = F(z)[w]
        PROVE  F(r)[y] = F(z)[y]
    <3>1. F(r)[y] = ParseDecisionBody(y, F(r)) /\ F(z)[y] = ParseDecisionBody(y, F(z))
      BY <1>1, <2>1
    <3> QED BY <2>2, <3>1, ParseDecisionLocal
  <2>3. z \in Parts(z)
    BY <2>1, PartsAreClosed
  <2>4. F(r)[z] = F(z)[z]
    BY <2>1, <2>2, <2>3, NestedAgree
  <2> QED BY <1>1, <2>1, <2>4
<1>3. r \in Parts(r) /\ Below(r) \subseteq Parts(r)
  BY PartsAreClosed
<1>4. \A z \in Below(r) : F(r)[z] = [y \in Parts(r) |-> ParseDecision(y)][z]
  BY <1>2, <1>3
<1>5. ParseDecisionBody(r, F(r)) = ParseDecisionBody(r, [z \in Parts(r) |-> ParseDecision(z)])
  BY <1>4, ParseDecisionLocal
<1> QED BY <1>1, <1>3, <1>5


LowerDecisionBody(x, lower) ==
  IF "branches" \notin DOMAIN x THEN {LowerLeaf(x)}
  ELSE LowerNode(x, UNION { lower[t] : t \in x.branches[1] },
                    UNION { lower[f] : f \in x.branches[2] })

LEMMA LowerDecisionLocal ==
  ASSUME NEW x, NEW f, NEW g, \A z \in Below(x) : f[z] = g[z]
  PROVE  LowerDecisionBody(x, f) = LowerDecisionBody(x, g)
<1>1. CASE "branches" \in DOMAIN x
  <2>1. Held(x, "branches") = x.branches[1] \cup x.branches[2]
    BY HeldByKey
  <2>2. \A y \in x.branches[1] \cup x.branches[2] : y \in Inside(x)
    BY <1>1, <2>1 DEF Inside
  <2>3. \A y \in x.branches[1] \cup x.branches[2] : f[y] = g[y]
    BY <2>2, InsideIsBelow
  <2>4. /\ UNION { f[t] : t \in x.branches[1] } = UNION { g[t] : t \in x.branches[1] }
        /\ UNION { f[t] : t \in x.branches[2] } = UNION { g[t] : t \in x.branches[2] }
    BY <2>3
  <2> QED BY <2>4, Zenon DEF LowerDecisionBody
<1>2. CASE "branches" \notin DOMAIN x
  BY <1>2, Zenon DEF LowerDecisionBody
<1> QED BY <1>1, <1>2

LEMMA LowerDecisionExists ==
  ASSUME NEW r, Shallow(r)
  PROVE  \E f : f = [x \in Parts(r) |-> LowerDecisionBody(x, f)]
<1> DEFINE S == {n \in Nat : n <= MaxDepth + 1
                   => \E f : f = [x \in Lower(r, n) |-> LowerDecisionBody(x, f)]}
<1>1. 0 \in S
  <2> DEFINE f == [x \in Lower(r, 0) |-> LowerDecisionBody(x, <<>>)]
  <2>1. f = [x \in Lower(r, 0) |-> LowerDecisionBody(x, f)]
    BY LowerGrows
  <2> QED BY <2>1, Zenon
<1>2. ASSUME NEW n \in Nat, n \in S PROVE n + 1 \in S
  <2> SUFFICES ASSUME n + 1 <= MaxDepth + 1
               PROVE  \E f : f = [x \in Lower(r, n + 1) |-> LowerDecisionBody(x, f)]
    OBVIOUS
  <2>1. n <= MaxDepth /\ n <= MaxDepth + 1
    BY DepthAssumption
  <2>2. PICK f : f = [x \in Lower(r, n) |-> LowerDecisionBody(x, f)]
    BY <1>2, <2>1
  <2> DEFINE g == [x \in Lower(r, n + 1) |-> LowerDecisionBody(x, f)]
  <2>3. \A x \in Lower(r, n) : f[x] = LowerDecisionBody(x, f)
    BY <2>2, Zenon
  <2>4. Lower(r, n) \subseteq Lower(r, n + 1)
    BY <2>1, LowerOnLower
  <2>5. \A x \in Lower(r, n) : g[x] = f[x]
    BY <2>3, <2>4
  <2>6. ASSUME NEW x \in Lower(r, n + 1) PROVE LowerDecisionBody(x, f) = LowerDecisionBody(x, g)
    <3>1. Below(x) \subseteq Lower(r, n)
      BY <2>1, LowerGrows
    <3> HIDE DEF g
    <3> QED BY <2>5, <3>1, LowerDecisionLocal
  <2>7. g = [x \in Lower(r, n + 1) |-> LowerDecisionBody(x, g)]
    BY <2>6
  <2> QED BY <2>7, Zenon
<1> HIDE DEF S
<1>3. Nat \subseteq S
  BY <1>1, <1>2, NatSetInduction
<1>4. \E f : f = [x \in Lower(r, MaxDepth + 1) |-> LowerDecisionBody(x, f)]
  BY <1>3, DepthAssumption DEF S
<1> QED BY <1>4, LowerGrows

LEMMA LowerDecisionUnfolds ==
  ASSUME NEW r, Shallow(r)
  PROVE  LowerDecision(r) = LowerDecisionBody(r, [z \in Parts(r) |-> LowerDecision(z)])
<1> DEFINE F(x) == CHOOSE f : f = [z \in Parts(x) |-> LowerDecisionBody(z, f)]
<1>1. ASSUME NEW x, Shallow(x)
      PROVE  /\ LowerDecision(x) = F(x)[x]
             /\ \A z \in Parts(x) : F(x)[z] = LowerDecisionBody(z, F(x))
  <2>1. LowerDecision(x) = F(x)[x]
    BY Zenon DEF LowerDecision, LowerDecisionBody
  <2>2. \E f : f = [z \in Parts(x) |-> LowerDecisionBody(z, f)]
    BY <1>1, LowerDecisionExists
  <2>3. F(x) = [z \in Parts(x) |-> LowerDecisionBody(z, F(x))]
    BY <2>2, Zenon
  <2> HIDE DEF F
  <2> QED BY <2>1, <2>3
<1> HIDE DEF F
<1>2. ASSUME NEW z \in Parts(r) PROVE F(r)[z] = LowerDecision(z)
  <2>1. Shallow(z) /\ Parts(z) \subseteq Parts(r)
    BY PartsAreClosed
  <2>2. ASSUME NEW y \in Parts(z), \A w \in Below(y) : F(r)[w] = F(z)[w]
        PROVE  F(r)[y] = F(z)[y]
    <3>1. F(r)[y] = LowerDecisionBody(y, F(r)) /\ F(z)[y] = LowerDecisionBody(y, F(z))
      BY <1>1, <2>1
    <3> QED BY <2>2, <3>1, LowerDecisionLocal
  <2>3. z \in Parts(z)
    BY <2>1, PartsAreClosed
  <2>4. F(r)[z] = F(z)[z]
    BY <2>1, <2>2, <2>3, NestedAgree
  <2> QED BY <1>1, <2>1, <2>4
<1>3. r \in Parts(r) /\ Below(r) \subseteq Parts(r)
  BY PartsAreClosed
<1>4. \A z \in Below(r) : F(r)[z] = [y \in Parts(r) |-> LowerDecision(y)][z]
  BY <1>2, <1>3
<1>5. LowerDecisionBody(r, F(r)) = LowerDecisionBody(r, [z \in Parts(r) |-> LowerDecision(z)])
  BY <1>4, LowerDecisionLocal
<1> QED BY <1>1, <1>3, <1>5


(* Below a node are its branches.                                          *)
LEMMA BranchesAreBelow ==
  ASSUME NEW x, ~ IsLeaf(x)
  PROVE  x.true_branch \in Below(x) /\ x.false_branch \in Below(x)
<1>1. Held(x, "true_branch") = {x.true_branch, x.false_branch}
  BY HeldByKey
<1>2. x.true_branch \in Inside(x) /\ x.false_branch \in Inside(x)
  BY <1>1 DEF Inside, IsLeaf
<1> QED BY <1>2, InsideIsBelow

Chosen(x, facts) == IF Holds(x.condition, facts) THEN x.true_branch ELSE x.false_branch

WalkBody(x, facts, walk) ==
  IF IsLeaf(x) THEN [leaf |-> x, path |-> <<>>]
  ELSE [walk[Chosen(x, facts)] EXCEPT !.path = <<NormStep(x.condition, facts)>> \o @]

LEMMA WalkLocal ==
  ASSUME NEW x, NEW facts, NEW f, NEW g, \A z \in Below(x) : f[z] = g[z]
  PROVE  WalkBody(x, facts, f) = WalkBody(x, facts, g)
<1>1. CASE IsLeaf(x)
  BY <1>1, Zenon DEF WalkBody
<1>2. CASE ~ IsLeaf(x)
  <2>1. Chosen(x, facts) \in Below(x)
    BY <1>2, BranchesAreBelow DEF Chosen
  <2>2. f[Chosen(x, facts)] = g[Chosen(x, facts)]
    BY <2>1
  <2> QED BY <2>2, Zenon DEF WalkBody
<1> QED BY <1>1, <1>2

LEMMA WalkExists ==
  ASSUME NEW r, Shallow(r), NEW facts
  PROVE  \E f : f = [x \in Parts(r) |-> WalkBody(x, facts, f)]
<1> DEFINE S == {n \in Nat : n <= MaxDepth + 1
                   => \E f : f = [x \in Lower(r, n) |-> WalkBody(x, facts, f)]}
<1>1. 0 \in S
  <2> DEFINE f == [x \in Lower(r, 0) |-> WalkBody(x, facts, <<>>)]
  <2>1. f = [x \in Lower(r, 0) |-> WalkBody(x, facts, f)]
    BY LowerGrows
  <2> QED BY <2>1, Zenon
<1>2. ASSUME NEW n \in Nat, n \in S PROVE n + 1 \in S
  <2> SUFFICES ASSUME n + 1 <= MaxDepth + 1
               PROVE  \E f : f = [x \in Lower(r, n + 1) |-> WalkBody(x, facts, f)]
    OBVIOUS
  <2>1. n <= MaxDepth /\ n <= MaxDepth + 1
    BY DepthAssumption
  <2>2. PICK f : f = [x \in Lower(r, n) |-> WalkBody(x, facts, f)]
    BY <1>2, <2>1
  <2> DEFINE g == [x \in Lower(r, n + 1) |-> WalkBody(x, facts, f)]
  <2>3. \A x \in Lower(r, n) : f[x] = WalkBody(x, facts, f)
    BY <2>2, Zenon
  <2>4. Lower(r, n) \subseteq Lower(r, n + 1)
    BY <2>1, LowerOnLower
  <2>5. \A x \in Lower(r, n) : g[x] = f[x]
    BY <2>3, <2>4
  <2>6. ASSUME NEW x \in Lower(r, n + 1) PROVE WalkBody(x, facts, f) = WalkBody(x, facts, g)
    <3>1. Below(x) \subseteq Lower(r, n)
      BY <2>1, LowerGrows
    <3> HIDE DEF g
    <3> QED BY <2>5, <3>1, WalkLocal
  <2>7. g = [x \in Lower(r, n + 1) |-> WalkBody(x, facts, g)]
    BY <2>6
  <2> QED BY <2>7, Zenon
<1> HIDE DEF S
<1>3. Nat \subseteq S
  BY <1>1, <1>2, NatSetInduction
<1>4. \E f : f = [x \in Lower(r, MaxDepth + 1) |-> WalkBody(x, facts, f)]
  BY <1>3, DepthAssumption DEF S
<1> QED BY <1>4, LowerGrows

LEMMA WalkUnfolds ==
  ASSUME NEW r, Shallow(r), NEW facts
  PROVE  Walk(r, facts) = WalkBody(r, facts, [z \in Parts(r) |-> Walk(z, facts)])
<1> DEFINE F(x) == CHOOSE f : f = [z \in Parts(x) |-> WalkBody(z, facts, f)]
<1>1. ASSUME NEW x, Shallow(x)
      PROVE  /\ Walk(x, facts) = F(x)[x]
             /\ \A z \in Parts(x) : F(x)[z] = WalkBody(z, facts, F(x))
  <2>1. Walk(x, facts) = F(x)[x]
    BY Zenon DEF Walk, WalkBody, Chosen
  <2>2. \E f : f = [z \in Parts(x) |-> WalkBody(z, facts, f)]
    BY <1>1, WalkExists
  <2>3. F(x) = [z \in Parts(x) |-> WalkBody(z, facts, F(x))]
    BY <2>2, Zenon
  <2> HIDE DEF F
  <2> QED BY <2>1, <2>3
<1> HIDE DEF F
<1>2. ASSUME NEW z \in Parts(r) PROVE F(r)[z] = Walk(z, facts)
  <2>1. Shallow(z) /\ Parts(z) \subseteq Parts(r)
    BY PartsAreClosed
  <2>2. ASSUME NEW y \in Parts(z), \A w \in Below(y) : F(r)[w] = F(z)[w]
        PROVE  F(r)[y] = F(z)[y]
    <3>1. F(r)[y] = WalkBody(y, facts, F(r)) /\ F(z)[y] = WalkBody(y, facts, F(z))
      BY <1>1, <2>1
    <3> QED BY <2>2, <3>1, WalkLocal
  <2>3. z \in Parts(z)
    BY <2>1, PartsAreClosed
  <2>4. F(r)[z] = F(z)[z]
    BY <2>1, <2>2, <2>3, NestedAgree
  <2> QED BY <1>1, <2>1, <2>4
<1>3. r \in Parts(r) /\ Below(r) \subseteq Parts(r)
  BY PartsAreClosed
<1>4. \A z \in Below(r) : F(r)[z] = [y \in Parts(r) |-> Walk(y, facts)][z]
  BY <1>2, <1>3
<1>5. WalkBody(r, facts, F(r)) = WalkBody(r, facts, [z \in Parts(r) |-> Walk(z, facts)])
  BY <1>4, WalkLocal
<1> QED BY <1>1, <1>3, <1>5


Through(x, taken, rest) ==
  { [p EXCEPT !.branches = <<[cond |-> SemCond(x.condition), taken |-> taken]>> \o @] :
      p \in rest }

LeafPath(x) ==
  [ branches |-> <<>>,
    outcome |-> [ result |-> x.result,
                  obligations |-> UNION { ToSet(s) : s \in x.obligations } ] ]

CollectPathsBody(x, paths) ==
  IF IsLeaf(x) THEN {LeafPath(x)}
  ELSE Through(x, TRUE, paths[x.true_branch]) \cup Through(x, FALSE, paths[x.false_branch])

LEMMA CollectPathsLocal ==
  ASSUME NEW x, NEW f, NEW g, \A z \in Below(x) : f[z] = g[z]
  PROVE  CollectPathsBody(x, f) = CollectPathsBody(x, g)
<1>1. CASE IsLeaf(x)
  BY <1>1, Zenon DEF CollectPathsBody
<1>2. CASE ~ IsLeaf(x)
  <2>1. f[x.true_branch] = g[x.true_branch] /\ f[x.false_branch] = g[x.false_branch]
    BY <1>2, BranchesAreBelow
  <2> QED BY <2>1, Zenon DEF CollectPathsBody
<1> QED BY <1>1, <1>2

LEMMA CollectPathsExists ==
  ASSUME NEW r, Shallow(r)
  PROVE  \E f : f = [x \in Parts(r) |-> CollectPathsBody(x, f)]
<1> DEFINE S == {n \in Nat : n <= MaxDepth + 1
                   => \E f : f = [x \in Lower(r, n) |-> CollectPathsBody(x, f)]}
<1>1. 0 \in S
  <2> DEFINE f == [x \in Lower(r, 0) |-> CollectPathsBody(x, <<>>)]
  <2>1. f = [x \in Lower(r, 0) |-> CollectPathsBody(x, f)]
    BY LowerGrows
  <2> QED BY <2>1, Zenon
<1>2. ASSUME NEW n \in Nat, n \in S PROVE n + 1 \in S
  <2> SUFFICES ASSUME n + 1 <= MaxDepth + 1
               PROVE  \E f : f = [x \in Lower(r, n + 1) |-> CollectPathsBody(x, f)]
    OBVIOUS
  <2>1. n <= MaxDepth /\ n <= MaxDepth + 1
    BY DepthAssumption
  <2>2. PICK f : f = [x \in Lower(r, n) |-> CollectPathsBody(x, f)]
    BY <1>2, <2>1
  <2> DEFINE g == [x \in Lower(r, n + 1) |-> CollectPathsBody(x, f)]
  <2>3. \A x \in Lower(r, n) : f[x] = CollectPathsBody(x, f)
    BY <2>2, Zenon
  <2>4. Lower(r, n) \subseteq Lower(r, n + 1)
    BY <2>1, LowerOnLower
  <2>5. \A x \in Lower(r, n) : g[x] = f[x]
    BY <2>3, <2>4
  <2>6. ASSUME NEW x \in Lower(r, n + 1) PROVE CollectPathsBody(x, f) = CollectPathsBody(x, g)
    <3>1. Below(x) \subseteq Lower(r, n)
      BY <2>1, LowerGrows
    <3> HIDE DEF g
    <3> QED BY <2>5, <3>1, CollectPathsLocal
  <2>7. g = [x \in Lower(r, n + 1) |-> CollectPathsBody(x, g)]
    BY <2>6
  <2> QED BY <2>7, Zenon
<1> HIDE DEF S
<1>3. Nat \subseteq S
  BY <1>1, <1>2, NatSetInduction
<1>4. \E f : f = [x \in Lower(r, MaxDepth + 1) |-> CollectPathsBody(x, f)]
  BY <1>3, DepthAssumption DEF S
<1> QED BY <1>4, LowerGrows

LEMMA CollectPathsUnfolds ==
  ASSUME NEW r, Shallow(r)
  PROVE  CollectPaths(r) = CollectPathsBody(r, [z \in Parts(r) |-> CollectPaths(z)])
<1> DEFINE F(x) == CHOOSE f : f = [z \in Parts(x) |-> CollectPathsBody(z, f)]
<1>1. ASSUME NEW x, Shallow(x)
      PROVE  /\ CollectPaths(x) = F(x)[x]
             /\ \A z \in Parts(x) : F(x)[z] = CollectPathsBody(z, F(x))
  <2>1. CollectPaths(x) = F(x)[x]
    BY Zenon DEF CollectPaths, CollectPathsBody, Through, LeafPath
  <2>2. \E f : f = [z \in Parts(x) |-> CollectPathsBody(z, f)]
    BY <1>1, CollectPathsExists
  <2>3. F(x) = [z \in Parts(x) |-> CollectPathsBody(z, F(x))]
    BY <2>2, Zenon
  <2> HIDE DEF F
  <2> QED BY <2>1, <2>3
<1> HIDE DEF F
<1>2. ASSUME NEW z \in Parts(r) PROVE F(r)[z] = CollectPaths(z)
  <2>1. Shallow(z) /\ Parts(z) \subseteq Parts(r)
    BY PartsAreClosed
  <2>2. ASSUME NEW y \in Parts(z), \A w \in Below(y) : F(r)[w] = F(z)[w]
        PROVE  F(r)[y] = F(z)[y]
    <3>1. F(r)[y] = CollectPathsBody(y, F(r)) /\ F(z)[y] = CollectPathsBody(y, F(z))
      BY <1>1, <2>1
    <3> QED BY <2>2, <3>1, CollectPathsLocal
  <2>3. z \in Parts(z)
    BY <2>1, PartsAreClosed
  <2>4. F(r)[z] = F(z)[z]
    BY <2>1, <2>2, <2>3, NestedAgree
  <2> QED BY <1>1, <2>1, <2>4
<1>3. r \in Parts(r) /\ Below(r) \subseteq Parts(r)
  BY PartsAreClosed
<1>4. \A z \in Below(r) : F(r)[z] = [y \in Parts(r) |-> CollectPaths(y)][z]
  BY <1>2, <1>3
<1>5. CollectPathsBody(r, F(r)) = CollectPathsBody(r, [z \in Parts(r) |-> CollectPaths(z)])
  BY <1>4, CollectPathsLocal
<1> QED BY <1>1, <1>3, <1>5


(* A parsed decision: leaves, and nodes with optional parts.               *)
IsLeafRecord(x) == DOMAIN x = {"result", "obligations", "notes"}
IsAstNode(x) == /\ DOMAIN x = {"node_id", "condition", "branches"}
                /\ \A c \in x.condition : IsCond(c)
AstTreeShape(x) == Shallow(x) /\ \A y \in Parts(x) : IsLeafRecord(y) \/ IsAstNode(y)

(* A lowered one: leaves and nodes.                                        *)
IsNodeRecord(x) == /\ DOMAIN x = {"node_id", "condition", "true_branch", "false_branch"}
                   /\ IsCond(x.condition)
TreeShape(x) == Shallow(x) /\ \A y \in Parts(x) : IsLeafRecord(y) \/ IsNodeRecord(y)

LEMMA LeavesHoldNothing ==
  ASSUME NEW x, IsLeafRecord(x)
  PROVE  Inside(x) = {} /\ IsLeaf(x)
<1>1. \A k \in DOMAIN x : Held(x, k) = {}
  <2> TAKE k \in DOMAIN x
  <2>1. k \notin {"list", "seq", "items", "all", "true_branch", "branches", "map"}
    BY DEF IsLeafRecord
  <2> QED BY <2>1, HeldByKey
<1> QED BY <1>1 DEF Inside, IsLeafRecord, IsLeaf

LEMMA NodesHoldTheirBranches ==
  ASSUME NEW x
  PROVE  /\ IsAstNode(x) => Inside(x) = x.branches[1] \cup x.branches[2]
         /\ IsNodeRecord(x) => Inside(x) = {x.true_branch, x.false_branch}
<1>1. /\ Held(x, "branches") = x.branches[1] \cup x.branches[2]
      /\ Held(x, "true_branch") = {x.true_branch, x.false_branch}
  BY HeldByKey
<1>2. \A k \in {"node_id", "condition", "false_branch"} : Held(x, k) = {}
  BY HeldByKey
<1> QED BY <1>1, <1>2 DEF Inside, IsAstNode, IsNodeRecord

LEMMA ParsedNodes ==
  ASSUME NEW r, YamlShape(r), NEW n \in Parts(r), NEW ts, NEW fs,
         NEW d \in ParseNode(n, ts, fs)
  PROVE  /\ IsAstNode(d)
         /\ d.branches[1] \in ts /\ d.branches[2] \in fs
<1>1. /\ DOMAIN d = {"node_id", "condition", "branches"}
      /\ d.condition \in Optional(GetMapping(n, "condition"), ParseCondition)
      /\ d.branches[1] \in ts /\ d.branches[2] \in fs
  BY DEF ParseNode
<1>2. ASSUME NEW c \in d.condition PROVE IsCond(c)
  <2>1. PICK m \in GetMapping(n, "condition") : c \in ParseCondition(m)
    BY <1>1 DEF Optional
  <2>2. m \in Parts(r)
    BY <2>1, GetIsInside, PartsAreClosed DEF GetMapping, YamlShape
  <2> QED BY <2>1, <2>2, ParsedConditions
<1> QED BY <1>1, <1>2 DEF IsAstNode

LEMMA ParsedDecisions ==
  ASSUME NEW r, YamlShape(r)
  PROVE  \A n \in Parts(r) : \A d \in ParseDecision(n) :
           /\ AstTreeShape(d)
           /\ \A k \in Nat : k <= MaxDepth /\ Depth(n, k) => Depth(d, k)
<1> DEFINE Good(n, d) == /\ AstTreeShape(d)
                         /\ \A k \in Nat : k <= MaxDepth /\ Depth(n, k) => Depth(d, k)
           S == {n \in Parts(r) : \A d \in ParseDecision(n) : Good(n, d)}
<1>1. Shallow(r)
  BY DEF YamlShape
<1>2. ASSUME NEW n \in Parts(r), Below(n) \subseteq S PROVE n \in S
  <2> SUFFICES ASSUME NEW d \in ParseDecision(n) PROVE Good(n, d)
    OBVIOUS
  <2>1. Shallow(n) /\ Below(n) \subseteq Parts(r)
    BY <1>1, PartsAreClosed
  <2> DEFINE f == [z \in Parts(n) |-> ParseDecision(z)]
  <2>2. d \in ParseDecisionBody(n, f)
    BY <2>1, ParseDecisionUnfolds
  <2>3. CASE GetScalar(n, "result") # {}
    <3>1. d \in ParseLeaf(n)
      BY <2>2, <2>3, Zenon DEF ParseDecisionBody
    <3>2. IsLeafRecord(d)
      BY <3>1 DEF ParseLeaf, IsLeafRecord
    <3>3. Inside(d) = {}
      BY <3>2, LeavesHoldNothing
    <3> QED BY <3>2, <3>3, NothingInside DEF AstTreeShape
  <2>4. CASE GetScalar(n, "result") = {}
    <3>1. d \in ParseNode(n, BranchOf(n, "true_branch", f), BranchOf(n, "false_branch", f))
      BY <2>2, <2>4, Zenon DEF ParseDecisionBody
    <3>2. /\ IsAstNode(d)
          /\ d.branches[1] \in BranchOf(n, "true_branch", f)
          /\ d.branches[2] \in BranchOf(n, "false_branch", f)
      <4> HIDE DEF f
      <4> QED BY <3>1, ParsedNodes
    <3>3. ASSUME NEW z \in Inside(d)
          PROVE  \E w \in Below(n) : Good(w, z)
      <4>1. PICK key : \E b \in BranchOf(n, key, f) : z \in b
        <5> HIDE DEF f
        <5> QED BY <3>2, <3>3, NodesHoldTheirBranches
      <4>2. PICK m \in GetMapping(n, key) : z \in f[m]
        <5> HIDE DEF f
        <5> QED BY <4>1 DEF BranchOf
      <4>3. m \in Below(n) /\ m \in Parts(n)
        BY <2>1, <4>2, GetIsInside, InsideIsBelow, PartsAreClosed DEF GetMapping
      <4>4. z \in ParseDecision(m)
        BY <4>2, <4>3
      <4> QED BY <1>2, <4>3, <4>4
    <3>4. ASSUME NEW k \in Nat, k <= MaxDepth, Depth(n, k) PROVE Depth(d, k)
      BY <3>3, <3>4, NestsAsDeep
    <3>5. Shallow(d)
      BY <2>1, <3>4, DepthAssumption DEF Shallow
    <3>6. \A y \in Parts(d) : IsLeafRecord(y) \/ IsAstNode(y)
      <4>1. \A z \in Inside(d) : AstTreeShape(z)
        BY <3>3
      <4>2. \A y \in Below(d) : IsLeafRecord(y) \/ IsAstNode(y)
        BY <4>1 DEF Below, AstTreeShape
      <4> QED BY <3>2, <3>5, <4>2, PartsAndBelow
    <3> QED BY <3>4, <3>5, <3>6 DEF AstTreeShape
  <2> QED BY <2>3, <2>4
<1> HIDE DEF S
<1>3. Parts(r) \subseteq S
  BY <1>1, <1>2, NestingInduction
<1> QED BY <1>3 DEF S

LEMMA LoweredNodes ==
  ASSUME NEW a, IsAstNode(a), NEW ts, NEW fs, NEW t \in LowerNode(a, ts, fs)
  PROVE  IsNodeRecord(t) /\ t.true_branch \in ts /\ t.false_branch \in fs
<1>1. /\ DOMAIN t = {"node_id", "condition", "true_branch", "false_branch"}
      /\ t.true_branch \in ts /\ t.false_branch \in fs
      /\ \E c \in a.condition : t.condition \in LowerCondition(c)
  BY DEF LowerNode
<1>2. IsCond(t.condition)
  BY <1>1, LoweredConditions DEF IsAstNode
<1> QED BY <1>1, <1>2 DEF IsNodeRecord

LEMMA LoweredDecisions ==
  ASSUME NEW r, AstTreeShape(r)
  PROVE  \A a \in Parts(r) : \A t \in LowerDecision(a) :
           /\ TreeShape(t)
           /\ \A k \in Nat : k <= MaxDepth /\ Depth(a, k) => Depth(t, k)
<1> DEFINE Good(a, t) == /\ TreeShape(t)
                         /\ \A k \in Nat : k <= MaxDepth /\ Depth(a, k) => Depth(t, k)
           S == {a \in Parts(r) : \A t \in LowerDecision(a) : Good(a, t)}
<1>1. Shallow(r)
  BY DEF AstTreeShape
<1>2. ASSUME NEW a \in Parts(r), Below(a) \subseteq S PROVE a \in S
  <2> SUFFICES ASSUME NEW t \in LowerDecision(a) PROVE Good(a, t)
    OBVIOUS
  <2>1. Shallow(a)
    BY <1>1, PartsAreClosed
  <2> DEFINE f == [z \in Parts(a) |-> LowerDecision(z)]
  <2>2. t \in LowerDecisionBody(a, f)
    BY <2>1, LowerDecisionUnfolds
  <2>3. CASE IsLeafRecord(a)
    <3>1. t = LowerLeaf(a)
      BY <2>2, <2>3 DEF LowerDecisionBody, IsLeafRecord
    <3>2. IsLeafRecord(t)
      BY <2>3, <3>1 DEF LowerLeaf, IsLeafRecord
    <3>3. Inside(t) = {}
      BY <3>2, LeavesHoldNothing
    <3> QED BY <3>2, <3>3, NothingInside DEF TreeShape
  <2>4. CASE IsAstNode(a)
    <3> DEFINE lowered(i) == UNION { f[z] : z \in a.branches[i] }
    <3>1. t \in LowerNode(a, lowered(1), lowered(2))
      <4>1. "branches" \in DOMAIN a
        BY <2>4 DEF IsAstNode
      <4> QED BY <2>2, <4>1, Zenon DEF LowerDecisionBody
    <3>2. IsNodeRecord(t) /\ t.true_branch \in lowered(1) /\ t.false_branch \in lowered(2)
      <4> HIDE DEF lowered
      <4> QED BY <2>4, <3>1, LoweredNodes
    <3>3. ASSUME NEW z \in Inside(t)
          PROVE  \E w \in Below(a) : Good(w, z)
      <4>1. z \in lowered(1) \/ z \in lowered(2)
        <5> HIDE DEF lowered
        <5> QED BY <3>2, <3>3, NodesHoldTheirBranches
      <4>2. PICK w \in a.branches[1] \cup a.branches[2] : z \in f[w]
        <5> HIDE DEF f
        <5> QED BY <4>1
      <4>3. w \in Below(a) /\ w \in Parts(a)
        BY <2>1, <2>4, NodesHoldTheirBranches, InsideIsBelow, PartsAreClosed
      <4>4. z \in LowerDecision(w)
        BY <4>2, <4>3
      <4> QED BY <1>2, <4>3, <4>4
    <3>4. ASSUME NEW k \in Nat, k <= MaxDepth, Depth(a, k) PROVE Depth(t, k)
      BY <3>3, <3>4, NestsAsDeep
    <3>5. Shallow(t)
      BY <2>1, <3>4, DepthAssumption DEF Shallow
    <3>6. \A y \in Parts(t) : IsLeafRecord(y) \/ IsNodeRecord(y)
      <4>1. \A z \in Inside(t) : TreeShape(z)
        BY <3>3
      <4>2. \A y \in Below(t) : IsLeafRecord(y) \/ IsNodeRecord(y)
        BY <4>1 DEF Below, TreeShape
      <4> QED BY <3>2, <3>5, <4>2, PartsAndBelow
    <3> QED BY <3>4, <3>5, <3>6 DEF TreeShape
  <2> QED BY <2>3, <2>4 DEF AstTreeShape
<1> HIDE DEF S
<1>3. Parts(r) \subseteq S
  BY <1>1, <1>2, NestingInduction
<1> QED BY <1>3 DEF S

LEMMA CompiledTrees ==
  ASSUME NEW d \in Documents \cup IntentDocuments, ~ IsIntent(d),
         NEW rules \in CompileRules(d), NEW i \in DOMAIN rules
  PROVE  TreeShape(rules[i].decision_tree)
<1>1. PICK node \in Parts(d) : \E ast \in ParseRule(node) : rules[i] \in LowerRule(ast)
  BY CompiledRules
<1>2. PICK ast \in ParseRule(node) : rules[i] \in LowerRule(ast)
  BY <1>1
<1>3. YamlShape(d)
  BY CompiledRules DEF IsYaml, YamlShape
<1>4. rules[i].decision_tree \in LowerDecision(ast.decision_tree)
  BY <1>2 DEF LowerRule
<1>5. PICK m \in Get(node, "decision_tree", "map") : ast.decision_tree \in ParseDecision(m)
  BY <1>2 DEF ParseRule, GetMapping
<1>6. m \in Parts(d)
  BY <1>3, <1>5, GetIsInside, PartsAreClosed DEF YamlShape
<1>7. AstTreeShape(ast.decision_tree)
  BY <1>3, <1>5, <1>6, ParsedDecisions
<1>8. ast.decision_tree \in Parts(ast.decision_tree)
  BY <1>7, PartsAreClosed DEF AstTreeShape
<1> QED BY <1>4, <1>7, <1>8, LoweredDecisions


LEMMA Prepended ==
  ASSUME NEW a, NEW s, IsASeq(s)
  PROVE  /\ IsASeq(<<a>> \o s) /\ Len(s) \in Nat /\ Len(<<a>> \o s) = Len(s) + 1
         /\ DOMAIN s = 1 .. Len(s) /\ DOMAIN (<<a>> \o s) = 1 .. Len(s) + 1
         /\ (<<a>> \o s)[1] = a
         /\ \A i \in 1 .. Len(s) : (<<a>> \o s)[i + 1] = s[i]
<1> DEFINE E == ToSet(s) \cup {a}
<1>1. s \in Seq(E)
  <2>1. PICK n \in Nat : s = [i \in 1 .. n |-> s[i]]
    BY DEF IsASeq
  <2>2. \A i \in 1 .. n : s[i] \in E
    BY <2>1 DEF ToSet
  <2> HIDE DEF E
  <2> QED BY <2>1, <2>2
<1>2. a \in E
  OBVIOUS
<1> HIDE DEF E
<1>3. <<a>> \in Seq(E) /\ Len(<<a>>) = 1 /\ <<a>>[1] = a
  BY <1>2
<1> DEFINE t == <<a>> \o s
<1>4. t \in Seq(E) /\ Len(t) = Len(s) + 1 /\ Len(s) \in Nat
  BY <1>1, <1>3
<1>5. t[1] = a /\ \A i \in 1 .. Len(s) : t[i + 1] = s[i]
  BY <1>1, <1>3
<1>6. DOMAIN s = 1 .. Len(s) /\ DOMAIN t = 1 .. Len(t)
  BY <1>1, <1>4
<1> HIDE DEF t
<1>7. t = [i \in 1 .. Len(t) |-> t[i]] /\ Len(t) \in Nat
  BY <1>4, <1>6
<1>8. IsASeq(t)
  BY <1>7 DEF IsASeq
<1> QED BY <1>4, <1>5, <1>6, <1>8 DEF t

(* A walk w goes down a path p.                                            *)
SameStep(step, branch) ==
  /\ step.field = branch.cond.field
  /\ step.operator = branch.cond.operator
  /\ step.result = branch.taken

GoesDown(w, p) ==
  /\ DOMAIN w = {"leaf", "path"} /\ IsASeq(w.path)
  /\ DOMAIN p = {"branches", "outcome"} /\ IsASeq(p.branches)
  /\ Len(p.branches) = Len(w.path)
  /\ \A i \in DOMAIN p.branches : SameStep(w.path[i], p.branches[i])
  /\ w.leaf.result = p.outcome.result
  /\ UNION { ToSet(s) : s \in w.leaf.obligations } = p.outcome.obligations

LEMMA OneStepDown ==
  ASSUME NEW w, NEW p, GoesDown(w, p), NEW step, NEW branch, SameStep(step, branch)
  PROVE  GoesDown([w EXCEPT !.path = <<step>> \o @], [p EXCEPT !.branches = <<branch>> \o @])
<1> DEFINE v == [w EXCEPT !.path = <<step>> \o @]
           q == [p EXCEPT !.branches = <<branch>> \o @]
<1>1. /\ DOMAIN v = {"leaf", "path"} /\ v.path = <<step>> \o w.path /\ v.leaf = w.leaf
      /\ DOMAIN q = {"branches", "outcome"} /\ q.branches = <<branch>> \o p.branches
      /\ q.outcome = p.outcome
  BY DEF GoesDown
<1>2. /\ IsASeq(w.path) /\ IsASeq(p.branches) /\ Len(p.branches) = Len(w.path)
      /\ \A i \in DOMAIN p.branches : SameStep(w.path[i], p.branches[i])
  BY DEF GoesDown
<1> HIDE DEF v, q
<1> DEFINE n == Len(w.path)
<1>3. /\ IsASeq(v.path) /\ Len(v.path) = n + 1 /\ n \in Nat
      /\ v.path[1] = step /\ \A i \in 1 .. n : v.path[i + 1] = w.path[i]
  BY <1>1, <1>2, Prepended
<1>4. /\ IsASeq(q.branches) /\ Len(q.branches) = n + 1
      /\ DOMAIN p.branches = 1 .. n /\ DOMAIN q.branches = 1 .. n + 1
      /\ q.branches[1] = branch
      /\ \A i \in 1 .. n : q.branches[i + 1] = p.branches[i]
  BY <1>1, <1>2, Prepended
<1>5. ASSUME NEW i \in DOMAIN q.branches PROVE SameStep(v.path[i], q.branches[i])
  <2>1. CASE i = 1
    BY <1>3, <1>4, <2>1
  <2>2. CASE i # 1
    <3>1. i - 1 \in 1 .. n /\ (i - 1) + 1 = i
      BY <1>3, <1>4, <1>5, <2>2
    <3>2. v.path[i] = w.path[i - 1] /\ q.branches[i] = p.branches[i - 1]
      BY <1>3, <1>4, <3>1
    <3> QED BY <1>2, <1>4, <3>1, <3>2
  <2> QED BY <2>1, <2>2
<1>6. v.leaf.result = q.outcome.result
      /\ UNION { ToSet(s) : s \in v.leaf.obligations } = q.outcome.obligations
  BY <1>1 DEF GoesDown
<1>7. GoesDown(v, q)
  BY <1>1, <1>3, <1>4, <1>5, <1>6 DEF GoesDown
<1> QED BY <1>7 DEF v, q

LEMMA WalksGoDownPaths ==
  ASSUME NEW r, Shallow(r), NEW facts
  PROVE  \E p \in CollectPaths(r) : GoesDown(Walk(r, facts), p)
<1> DEFINE S == { x \in Parts(r) : \E p \in CollectPaths(x) : GoesDown(Walk(x, facts), p) }
<1>1. ASSUME NEW x \in Parts(r), Below(x) \subseteq S PROVE x \in S
  <2> DEFINE walk == [z \in Parts(x) |-> Walk(z, facts)]
             paths == [z \in Parts(x) |-> CollectPaths(z)]
  <2>1. Shallow(x) /\ Below(x) \subseteq Parts(x)
    BY PartsAreClosed
  <2>2. Walk(x, facts) = WalkBody(x, facts, walk) /\ CollectPaths(x) = CollectPathsBody(x, paths)
    BY <2>1, WalkUnfolds, CollectPathsUnfolds
  <2>3. CASE IsLeaf(x)
    <3>1. Walk(x, facts) = [leaf |-> x, path |-> <<>>] /\ CollectPaths(x) = {LeafPath(x)}
      BY <2>2, <2>3, Zenon DEF WalkBody, CollectPathsBody
    <3>2. IsASeq(<<>>) /\ Len(<<>>) = 0 /\ DOMAIN <<>> = {}
      <4>1. <<>> = [i \in 1 .. 0 |-> <<>>[i]]
        OBVIOUS
      <4> QED BY <4>1 DEF IsASeq
    <3>3. GoesDown([leaf |-> x, path |-> <<>>], LeafPath(x))
      BY <3>2 DEF GoesDown, LeafPath
    <3> QED BY <3>1, <3>3
  <2>4. CASE ~ IsLeaf(x)
    <3> DEFINE b == Chosen(x, facts)
               step == NormStep(x.condition, facts)
    <3>1. b \in Below(x) /\ x.true_branch \in Parts(x) /\ x.false_branch \in Parts(x)
      BY <2>1, <2>4, BranchesAreBelow DEF Chosen
    <3>2. PICK p \in CollectPaths(b) : GoesDown(Walk(b, facts), p)
      BY <1>1, <3>1
    <3>3. Walk(x, facts) = [Walk(b, facts) EXCEPT !.path = <<step>> \o @]
      <4>1. walk[b] = Walk(b, facts)
        BY <2>1, <3>1
      <4> HIDE DEF walk
      <4> QED BY <2>2, <2>4, <4>1, Zenon DEF WalkBody
    <3> DEFINE branch(t) == [cond |-> SemCond(x.condition), taken |-> t]
               q(t) == [p EXCEPT !.branches = <<branch(t)>> \o @]
    <3>4. CollectPaths(x) = Through(x, TRUE, CollectPaths(x.true_branch))
                              \cup Through(x, FALSE, CollectPaths(x.false_branch))
      <4>1. /\ paths[x.true_branch] = CollectPaths(x.true_branch)
            /\ paths[x.false_branch] = CollectPaths(x.false_branch)
        BY <3>1
      <4> HIDE DEF paths
      <4> QED BY <2>2, <2>4, <4>1, Zenon DEF CollectPathsBody
    <3>5. \A t \in BOOLEAN : step.result = t => SameStep(step, branch(t))
      BY DEF NormStep, SemCond, SameStep
    <3>6. step.result = Holds(x.condition, facts)
      BY DEF NormStep
    <3>7. CASE Holds(x.condition, facts)
      <4>1. b = x.true_branch /\ step.result = TRUE
        BY <3>6, <3>7, HoldsIsBoolean DEF Chosen
      <4>2. q(TRUE) \in Through(x, TRUE, CollectPaths(x.true_branch))
        BY <3>2, <4>1, Zenon DEF Through
      <4>3. SameStep(step, branch(TRUE))
        BY <3>5, <4>1
      <4> HIDE DEF step, branch, b
      <4> DEFINE w == Walk(b, facts)
      <4>4. GoesDown(w, p)
        BY <3>2
      <4> HIDE DEF w
      <4>5. GoesDown([w EXCEPT !.path = <<step>> \o @], q(TRUE))
        BY <4>3, <4>4, OneStepDown, Zenon
      <4>6. GoesDown(Walk(x, facts), q(TRUE))
        BY <3>3, <4>5, Zenon DEF w
      <4> HIDE DEF q
      <4> QED BY <3>4, <4>2, <4>6
    <3>8. CASE ~ Holds(x.condition, facts)
      <4>1. b = x.false_branch /\ step.result = FALSE
        BY <3>6, <3>8, HoldsIsBoolean DEF Chosen
      <4>2. q(FALSE) \in Through(x, FALSE, CollectPaths(x.false_branch))
        BY <3>2, <4>1, Zenon DEF Through
      <4>3. SameStep(step, branch(FALSE))
        BY <3>5, <4>1
      <4> HIDE DEF step, branch, b
      <4> DEFINE w == Walk(b, facts)
      <4>4. GoesDown(w, p)
        BY <3>2
      <4> HIDE DEF w
      <4>5. GoesDown([w EXCEPT !.path = <<step>> \o @], q(FALSE))
        BY <4>3, <4>4, OneStepDown, Zenon
      <4>6. GoesDown(Walk(x, facts), q(FALSE))
        BY <3>3, <4>5, Zenon DEF w
      <4> HIDE DEF q
      <4> QED BY <3>4, <4>2, <4>6
    <3> QED BY <3>7, <3>8
  <2> QED BY <2>3, <2>4
<1> HIDE DEF S
<1>2. Parts(r) \subseteq S
  BY <1>1, NestingInduction
<1>3. r \in S
  BY <1>2, PartsAreClosed
<1> QED BY <1>3 DEF S

LEMMA EvaluateWalks ==
  ASSUME NEW rule, NEW facts, Evaluate(rule, facts).applicable
  PROVE  LET walk == Walk(rule.decision_tree, facts)
         IN  /\ Evaluate(rule, facts).decision = {walk.leaf.result}
             /\ Evaluate(rule, facts).obligations = UNION { ToSet(s) : s \in walk.leaf.obligations }
             /\ Evaluate(rule, facts).decision_path = walk.path
<1> DEFINE app == Applicability(rule.applies_if, facts)
           walk == Walk(rule.decision_tree, facts)
           obligations == UNION { ToSet(s) : s \in walk.leaf.obligations }
<1>1. app.holds
  BY EvaluateApplies
<1>2. Evaluate(rule, facts)
        = [ rule_id |-> rule.rule_id, applicable |-> TRUE, decision |-> {walk.leaf.result},
            obligations |-> obligations, applicability_steps |-> app.steps,
            decision_path |-> walk.path ]
  BY <1>1, Zenon DEF Evaluate, Evaluation
<1> HIDE DEF app, walk, obligations
<1>3. /\ Evaluate(rule, facts).decision = {walk.leaf.result}
      /\ Evaluate(rule, facts).obligations = obligations
      /\ Evaluate(rule, facts).decision_path = walk.path
  BY <1>2
<1> QED BY <1>3 DEF walk, obligations

(* Every evaluation that applies leaves a trace that is one of the rule's  *)
(* decision paths, and its outcome is that path's: what is compared and    *)
(* what is walked are one tree (form.rs collect_paths, exec.rs walk).      *)
THEOREM TracesAreDecisionPaths == Spec => []TraceIsADecisionPath
<1>1. PipelineInv => TraceIsADecisionPath
  <2> SUFFICES ASSUME PipelineInv, answer.what = "scenario", answer.evaluation.applicable
               PROVE  \E p \in SemanticRule(answer.rule).decision_paths :
                        /\ Len(p.branches) = Len(answer.evaluation.decision_path)
                        /\ \A i \in DOMAIN p.branches :
                             SameStep(answer.evaluation.decision_path[i], p.branches[i])
                        /\ answer.evaluation.decision = {p.outcome.result}
                        /\ answer.evaluation.obligations = p.outcome.obligations
    BY Zenon DEF TraceIsADecisionPath, SameStep
  <2>1. PICK rules : /\ rules \in Compiled
                     /\ \E i \in DOMAIN rules :
                          /\ answer.rule = rules[i]
                          /\ answer.evaluation = Evaluate(rules[i], answer.facts)
    BY DEF PipelineInv, AnswerIsOurs
  <2>2. PICK i \in DOMAIN rules : /\ answer.rule = rules[i]
                                  /\ answer.evaluation = Evaluate(rules[i], answer.facts)
    BY <2>1
  <2> DEFINE tree == answer.rule.decision_tree
             walk == Walk(tree, answer.facts)
  <2>3. Shallow(tree)
    BY <2>1, <2>2, CompiledTrees DEF PipelineInv, TreeShape, Compiled
  <2>4. PICK p \in CollectPaths(tree) : GoesDown(walk, p)
    BY <2>3, WalksGoDownPaths
  <2>5. SemanticRule(answer.rule).decision_paths = CollectPaths(tree)
    BY DEF SemanticRule
  <2>6. /\ answer.evaluation.decision = {walk.leaf.result}
        /\ answer.evaluation.obligations = UNION { ToSet(s) : s \in walk.leaf.obligations }
        /\ answer.evaluation.decision_path = walk.path
    BY <2>2, EvaluateWalks
  <2> HIDE DEF tree, walk
  <2> QED BY <2>4, <2>5, <2>6 DEF GoesDown
<1>2. Spec => []PipelineInv
  BY PipelineInvariance
<1> QED BY <1>1, <1>2, PTL

-----------------------------------------------------------------------------
(* Conflicts.                                                              *)

(* What a text is as a word, to the conflict pass and to the runtime.      *)
LEMMA TextsNestNothing ==
  ASSUME NEW v, IsStr(v)
  PROVE  Parts(v) = {v}
BY AtomsHoldNothing, NothingInside

LEMMA StringifyOfText ==
  ASSUME NEW v, IsStr(v)
  PROVE  Stringify(v) = v.str
<1> DEFINE F == CHOOSE f : f = [x \in Parts(v) |-> StringifyPart(x, f)]
<1>1. Stringify(v) = F[v]
  BY Zenon DEF Stringify
<1>2. \A f : StringifyPart(v, f) = v.str
  BY DEF StringifyPart, IsStr, IsBool, IsDecimal, IsList
<1>3. Parts(v) = {v}
  BY TextsNestNothing
<1>4. \E f : f = [x \in Parts(v) |-> StringifyPart(x, f)]
  <2> DEFINE g == [x \in Parts(v) |-> v.str]
  <2>1. g = [x \in Parts(v) |-> StringifyPart(x, g)]
    BY <1>2, <1>3
  <2> QED BY <2>1, Zenon
<1>5. F = [x \in Parts(v) |-> StringifyPart(x, F)]
  BY <1>4, Zenon
<1> HIDE DEF F
<1> QED BY <1>1, <1>2, <1>3, <1>5

LEMMA PythonStrFactOfAtom ==
  ASSUME NEW v, Parts(v) = {v}, NEW text, \A f : PythonStrFactPart(v, f) = text
  PROVE  PythonStrFact(v) = text
<1> DEFINE F == CHOOSE f : f = [x \in Parts(v) |-> PythonStrFactPart(x, f)]
<1>1. PythonStrFact(v) = F[v]
  BY Zenon DEF PythonStrFact
<1>2. \E f : f = [x \in Parts(v) |-> PythonStrFactPart(x, f)]
  <2> DEFINE g == [x \in Parts(v) |-> text]
  <2>1. g = [x \in Parts(v) |-> PythonStrFactPart(x, g)]
    OBVIOUS
  <2> QED BY <2>1, Zenon
<1>3. F = [x \in Parts(v) |-> PythonStrFactPart(x, F)]
  BY <1>2, Zenon
<1> HIDE DEF F
<1> QED BY <1>1, <1>3

LEMMA PythonStrFactOfText ==
  ASSUME NEW v, IsStr(v)
  PROVE  PythonStrFact(v) = v.str
<1>1. \A f : PythonStrFactPart(v, f) = v.str
  BY DEF PythonStrFactPart, IsStr, IsBool, IsDecimal, IsList
<1> QED BY <1>1, TextsNestNothing, PythonStrFactOfAtom

LEMMA PythonStrScalarOfText ==
  ASSUME NEW v, IsStr(v)
  PROVE  PythonStrScalar(v) = v.str
<1> DEFINE F == CHOOSE f : f = [x \in Parts(v) |-> PythonStrScalarPart(x, f)]
<1>1. PythonStrScalar(v) = F[v]
  BY Zenon DEF PythonStrScalar
<1>2. \A f : PythonStrScalarPart(v, f) = v.str
  BY DEF PythonStrScalarPart, IsStr, IsBool, IsDecimal, IsList
<1>3. Parts(v) = {v}
  BY TextsNestNothing
<1>4. \E f : f = [x \in Parts(v) |-> PythonStrScalarPart(x, f)]
  <2> DEFINE g == [x \in Parts(v) |-> v.str]
  <2>1. g = [x \in Parts(v) |-> PythonStrScalarPart(x, g)]
    BY <1>2, <1>3
  <2> QED BY <2>1, Zenon
<1>5. F = [x \in Parts(v) |-> PythonStrScalarPart(x, F)]
  BY <1>4, Zenon
<1> HIDE DEF F
<1> QED BY <1>1, <1>2, <1>3, <1>5

(* A fact equals a text when it is that text.                              *)
LEMMA EqualsText ==
  ASSUME NEW a, NEW v, IsStr(v), EvalEq(a, v)
  PROVE  IsStr(a) /\ a.str = v.str
<1> DEFINE Same(x, y, f) ==
      IF AsNumber(x) # {} /\ OperandAsNumber(y) # {}
      THEN \A n \in AsNumber(x), b \in OperandAsNumber(y) : SameNumber(n, b)
      ELSE \/ IsStr(x) /\ IsStr(y) /\ x.str = y.str
           \/ /\ IsList(x) /\ IsList(y) /\ Len(x.list) = Len(y.list)
              /\ \A i \in DOMAIN x.list : y.list[i] \in f[x.list[i]]
           Body(x, f) == { y \in Parts(v) : Same(x, y, f) }
           F == CHOOSE f : f = [x \in Parts(a) |-> Body(x, f)]
           Text(x) == { y \in {v} : IsStr(x) /\ x.str = v.str }
<1>1. v \in F[a]
  BY Zenon DEF EvalEq
<1>2. Parts(v) = {v}
  BY TextsNestNothing
<1>3. \A x, f : Same(x, v, f) <=> (IsStr(x) /\ x.str = v.str)
  BY DEF IsStr, IsBool, IsDecimal, IsList, OperandAsNumber
<1> HIDE DEF Same
<1>4. \A x, f : Body(x, f) = Text(x)
  BY <1>2, <1>3
<1> HIDE DEF Body, Text
<1>5. \E f : f = [x \in Parts(a) |-> Body(x, f)]
  <2> DEFINE g == [x \in Parts(a) |-> Text(x)]
  <2>1. g = [x \in Parts(a) |-> Body(x, g)]
    BY <1>4
  <2> QED BY <2>1, Zenon
<1>6. F = [x \in Parts(a) |-> Body(x, F)]
  BY <1>5, Zenon
<1> HIDE DEF F
<1>7. a \in Parts(a)
  <2>1. Layers(a)[0] = {a}
    BY LayersAreLayers
  <2>2. 0 \in 0 .. MaxDepth
    BY DepthAssumption
  <2> QED BY <2>1, <2>2 DEF Parts
<1>8. v \in Text(a)
  BY <1>1, <1>4, <1>6, <1>7
<1> QED BY <1>8 DEF Text

(* A premise, and the word the facts have for its field.                   *)
Words(c) == IF c.operator = "in" THEN \A v \in ToSet(c.value.list) : IsStr(v)
                                 ELSE IsStr(c.value)

Allowed(c) == IF c.operator = "==" THEN {Stringify(c.value)}
              ELSE { Stringify(v) : v \in ToSet(c.value.list) }

LEMMA PremisesAllowTheFact ==
  ASSUME NEW c, c.operator = "==" \/ (c.operator = "in" /\ IsList(c.value)),
         Words(c), NEW facts, Holds(c, facts)
  PROVE  PythonStrFact(Lookup(facts, c.field)) \in Allowed(c)
<1> DEFINE actual == Lookup(facts, c.field)
<1>1. Compare(actual, c.operator, c.value)
  BY DEF Holds
<1>2. CASE c.operator = "=="
  <2>1. EvalEq(actual, c.value) /\ IsStr(c.value)
    BY <1>1, <1>2 DEF Compare, Words
  <2>2. IsStr(actual) /\ actual.str = c.value.str
    BY <2>1, EqualsText
  <2>3. PythonStrFact(actual) = Stringify(c.value)
    BY <2>1, <2>2, PythonStrFactOfText, StringifyOfText
  <2> QED BY <1>2, <2>3 DEF Allowed
<1>3. CASE c.operator = "in" /\ IsList(c.value)
  <2>1. EvalIn(actual, c.value)
    BY <1>1, <1>3 DEF Compare
  <2>2. PICK i \in DOMAIN c.value.list :
          PythonStrScalar(c.value.list[i]) = PythonStrFact(actual)
    BY <2>1 DEF EvalIn
  <2>3. c.value.list[i] \in ToSet(c.value.list)
    BY DEF ToSet
  <2>4. IsStr(c.value.list[i])
    BY <1>3, <2>3 DEF Words
  <2>5. Stringify(c.value.list[i]) = PythonStrFact(actual)
    BY <2>2, <2>4, PythonStrScalarOfText, StringifyOfText
  <2> QED BY <1>3, <2>3, <2>5 DEF Allowed
<1> QED BY <1>2, <1>3

LEMMA PremisesAreExtracted ==
  ASSUME NEW rule
  PROVE  /\ DOMAIN ExtractPremises(rule) = { c.field : c \in PremiseConditions(rule) }
         /\ \A c \in PremiseConditions(rule) :
              Allowed(c) \subseteq ExtractPremises(rule)[c.field]
<1> DEFINE P == PremiseConditions(rule)
           Fields == { c.field : c \in P }
           At(f) == UNION { Allowed(c) : c \in { d \in P : d.field = f } }
<1>1. ExtractPremises(rule) = [f \in Fields |-> At(f)]
  BY Zenon DEF ExtractPremises, Allowed
<1> HIDE DEF P
<1>2. \A c \in P : Allowed(c) \subseteq At(c.field)
  OBVIOUS
<1> HIDE DEF At
<1> QED BY <1>1, <1>2 DEF P

(* A rule applies only where its premises hold.                            *)
LEMMA PremisesHold ==
  ASSUME NEW rule, \A g \in rule.applies_if : /\ rule.applies_if = {g}
                                              /\ GroupShape(g) /\ OneSided(g),
         NEW facts, Applicability(rule.applies_if, facts).holds,
         NEW c \in PremiseConditions(rule)
  PROVE  Holds(c, facts)
<1>1. PICK g \in rule.applies_if : \E s \in g.all : c \in ToSet(s)
  BY DEF PremiseConditions
<1>2. PICK s \in g.all : c \in ToSet(s)
  BY <1>1
<1>3. ~ IsGroup(c)
  BY DEF PremiseConditions
<1>4. rule.applies_if = {g} /\ GroupShape(g) /\ OneSided(g)
  BY <1>1
<1>5. g.all = {s} /\ g.any = {} /\ s # <<>>
  <2>1. g.all = {s} /\ g.any = {}
    BY <1>2, <1>4 DEF OneSided
  <2>2. s # <<>>
    BY <1>2 DEF ToSet
  <2> QED BY <2>1, <2>2
<1>6. GroupMode(g) = "all" /\ Members(g) = s
  BY <1>4, <1>5, MembersAreASeq DEF GroupMode, NonEmpty
<1>7. Shallow(g) /\ g \in Parts(g)
  BY <1>4, PartsAreClosed DEF GroupShape
<1>8. \A y \in Parts(g) : Flatten(y) \in Seq(ConditionsIn(g))
  BY <1>4, FlattenIsSeq
<1>9. c \in ToSet(Flatten(g))
  <2>1. PICK i \in DOMAIN s : c = s[i]
    BY <1>2 DEF ToSet
  <2>2. c \in Parts(g)
    BY <1>4, <1>6, <1>7, <2>1, CondOrGroup, MembersAreBelow, PartsAreClosed
  <2>3. ToSet(Flatten(c)) = {c}
    BY <1>3, <1>7, <2>2, SplicedConditions, PartsAreClosed
  <2>4. ToSet(Flatten(g)) = UNION { ToSet(Flatten(Members(g)[k])) : k \in DOMAIN Members(g) }
    <3>1. \A y \in Below(g) : Flatten(y) \in Seq(ConditionsIn(g))
      BY <1>7, <1>8, PartsAreClosed
    <3> QED BY <1>4, <1>7, <3>1, SplicedGroups
  <2> QED BY <1>6, <2>1, <2>3, <2>4
<1>10. Settled(g, facts)
  BY <1>4, <1>7, <1>8, ApplicabilityOfOne
<1>11. Flatten(g) # <<>>
  BY <1>9 DEF ToSet
<1>12. (\A d \in ToSet(Flatten(g)) : Holds(d, facts) = TRUE) = TRUE
  BY <1>6, <1>10, <1>11 DEF Settled
<1> QED BY <1>9, <1>12

(* Two rules that both apply overlap in every field they share.            *)
LEMMA ScopesOverlapWhereBothApply ==
  ASSUME NEW a, NEW b, NEW facts, SharedByWords(a, b),
         \A c \in PremiseConditions(a) \cup PremiseConditions(b) : Words(c) => Holds(c, facts)
  PROVE  ScopesOverlap(ExtractPremises(a), ExtractPremises(b))
<1> DEFINE A == PremiseConditions(a)
           B == PremiseConditions(b)
           shared == { c.field : c \in A } \cap { c.field : c \in B }
<1>1. shared # {} /\ \A c \in A \cup B : c.field \in shared => Words(c)
  BY DEF SharedByWords, Words
<1>2. \A c \in A \cup B : c.operator = "==" \/ (c.operator = "in" /\ IsList(c.value))
  BY DEF PremiseConditions
<1>3. ASSUME NEW f \in shared
      PROVE  ExtractPremises(a)[f] \cap ExtractPremises(b)[f] # {}
  <2>1. PICK c \in A : c.field = f
    OBVIOUS
  <2>2. PICK d \in B : d.field = f
    OBVIOUS
  <2> DEFINE word == PythonStrFact(Lookup(facts, f))
  <2>3. word \in Allowed(c) /\ word \in Allowed(d)
    <3>1. Words(c) /\ Words(d)
      BY <1>1, <1>3, <2>1, <2>2
    <3> QED BY <1>2, <2>1, <2>2, <3>1, PremisesAllowTheFact
  <2>4. word \in ExtractPremises(a)[f] /\ word \in ExtractPremises(b)[f]
    BY <2>1, <2>2, <2>3, PremisesAreExtracted
  <2> QED BY <2>4
<1>4. DOMAIN ExtractPremises(a) \cap DOMAIN ExtractPremises(b) = shared
  BY PremisesAreExtracted
<1> HIDE DEF A, B, shared
<1> QED BY <1>1, <1>3, <1>4 DEF ScopesOverlap

LEMMA OverlapsConflict ==
  ASSUME NEW ra, NEW rb, ScopesOverlap(ExtractPremises(ra), ExtractPremises(rb))
  PROVE  \/ "DuplicateRule" \in Between(ra, rb)
         \/ "ContradictoryOutcome" \in Between(ra, rb)
         \/ "OverlappingScope" \in Between(ra, rb)
BY DEF Between

(* Whatever the facts, a pair of rules that applies together is in the     *)
(* report: none is overlooked because its scopes were thought apart        *)
(* (t4.rs scopes_overlap).                                                 *)
THEOREM NoConflictIsMissed == Spec => []ConflictsAreNotMissed
<1>1. PipelineInv => ConflictsAreNotMissed
  <2> SUFFICES ASSUME PipelineInv, answer.what = "evaluations", answer.from = "source",
                      NEW rules \in Compiled, NEW i \in DOMAIN rules, NEW j \in DOMAIN rules,
                      i < j, SharedByWords(rules[i], rules[j]),
                      answer.evaluations[i].applicable, answer.evaluations[j].applicable
               PROVE  \E c \in Verify(rules).conflicts : c.pair = <<i, j>>
    BY DEF ConflictsAreNotMissed
  <2> DEFINE facts == answer.facts
  <2>1. EvaluatesAll(answer.evaluations, rules, facts)
    BY CompiledIsOne DEF PipelineInv, AnswerIsOurs
  <2>2. /\ answer.evaluations[i] = Evaluate(rules[i], facts)
        /\ answer.evaluations[j] = Evaluate(rules[j], facts)
    BY <2>1 DEF EvaluatesAll
  <2>3. /\ Applicability(rules[i].applies_if, facts).holds
        /\ Applicability(rules[j].applies_if, facts).holds
    BY <2>2, EvaluateApplies
  <2> HIDE DEF facts
  <2>4. \A k \in DOMAIN rules : \A g \in rules[k].applies_if :
          rules[k].applies_if = {g} /\ GroupShape(g) /\ OneSided(g)
    BY CompiledGroups DEF PipelineInv, Compiled
  <2>5. \A c \in PremiseConditions(rules[i]) \cup PremiseConditions(rules[j]) : Holds(c, facts)
    BY <2>3, <2>4, PremisesHold
  <2>6. ScopesOverlap(ExtractPremises(rules[i]), ExtractPremises(rules[j]))
    BY <2>5, ScopesOverlapWhereBothApply
  <2>7. PICK class : class \in Between(rules[i], rules[j])
    BY <2>6, OverlapsConflict
  <2>8. [class |-> class, pair |-> <<i, j>>] \in DetectConflicts(rules)
    BY <2>7, ConflictsAreBetween
  <2>9. Verify(rules).conflicts = DetectConflicts(rules)
    BY DEF Verify
  <2> QED BY <2>8, <2>9
<1>2. Spec => []PipelineInv
  BY PipelineInvariance
<1> QED BY <1>1, <1>2, PTL

-----------------------------------------------------------------------------
(* What the encoder keeps.                                                 *)

LEMMA CanonicalScalarLocal ==
  ASSUME NEW x, NEW f, NEW g, \A z \in Below(x) : f[z] = g[z]
  PROVE  CanonicalPart(x, f) = CanonicalPart(x, g)
<1>1. CASE IsList(x)
  <2>1. \A i \in DOMAIN x.list : x.list[i] \in Below(x)
    BY <1>1, ItemsAreInside, InsideIsBelow DEF IsList
  <2> DEFINE F == [i \in DOMAIN x.list |-> f[x.list[i]]]
             G == [i \in DOMAIN x.list |-> g[x.list[i]]]
  <2>2. F = G
    BY <2>1
  <2>3. CanonicalPart(x, f) = { List(s) : s \in AllOf(F) }
        /\ CanonicalPart(x, g) = { List(s) : s \in AllOf(G) }
    BY <1>1 DEF CanonicalPart, IsStr, IsBool, IsDecimal, IsList
  <2> QED BY <2>2, <2>3
<1>2. CASE ~ IsList(x)
  BY <1>2 DEF CanonicalPart
<1> QED BY <1>1, <1>2

LEMMA CanonicalScalarExists ==
  ASSUME NEW r, Shallow(r)
  PROVE  \E f : f = [x \in Parts(r) |-> CanonicalPart(x, f)]
<1> DEFINE S == {n \in Nat : n <= MaxDepth + 1
                   => \E f : f = [x \in Lower(r, n) |-> CanonicalPart(x, f)]}
<1>1. 0 \in S
  <2> DEFINE f == [x \in Lower(r, 0) |-> CanonicalPart(x, <<>>)]
  <2>1. f = [x \in Lower(r, 0) |-> CanonicalPart(x, f)]
    BY LowerGrows
  <2> QED BY <2>1, Zenon
<1>2. ASSUME NEW n \in Nat, n \in S PROVE n + 1 \in S
  <2> SUFFICES ASSUME n + 1 <= MaxDepth + 1
               PROVE  \E f : f = [x \in Lower(r, n + 1) |-> CanonicalPart(x, f)]
    OBVIOUS
  <2>1. n <= MaxDepth /\ n <= MaxDepth + 1
    BY DepthAssumption
  <2>2. PICK f : f = [x \in Lower(r, n) |-> CanonicalPart(x, f)]
    BY <1>2, <2>1
  <2> DEFINE g == [x \in Lower(r, n + 1) |-> CanonicalPart(x, f)]
  <2>3. \A x \in Lower(r, n) : f[x] = CanonicalPart(x, f)
    BY <2>2, Zenon
  <2>4. Lower(r, n) \subseteq Lower(r, n + 1)
    BY <2>1, LowerOnLower
  <2>5. \A x \in Lower(r, n) : g[x] = f[x]
    BY <2>3, <2>4
  <2>6. ASSUME NEW x \in Lower(r, n + 1) PROVE CanonicalPart(x, f) = CanonicalPart(x, g)
    <3>1. Below(x) \subseteq Lower(r, n)
      BY <2>1, LowerGrows
    <3> HIDE DEF g
    <3> QED BY <2>5, <3>1, CanonicalScalarLocal
  <2>7. g = [x \in Lower(r, n + 1) |-> CanonicalPart(x, g)]
    BY <2>6
  <2> QED BY <2>7, Zenon
<1> HIDE DEF S
<1>3. Nat \subseteq S
  BY <1>1, <1>2, NatSetInduction
<1>4. \E f : f = [x \in Lower(r, MaxDepth + 1) |-> CanonicalPart(x, f)]
  BY <1>3, DepthAssumption DEF S
<1> QED BY <1>4, LowerGrows

LEMMA CanonicalScalarUnfolds ==
  ASSUME NEW r, Shallow(r)
  PROVE  CanonicalScalar(r) = CanonicalPart(r, [z \in Parts(r) |-> CanonicalScalar(z)])
<1> DEFINE F(x) == CHOOSE f : f = [z \in Parts(x) |-> CanonicalPart(z, f)]
<1>1. ASSUME NEW x, Shallow(x)
      PROVE  /\ CanonicalScalar(x) = F(x)[x]
             /\ \A z \in Parts(x) : F(x)[z] = CanonicalPart(z, F(x))
  <2>1. CanonicalScalar(x) = F(x)[x]
    BY Zenon DEF CanonicalScalar
  <2>2. \E f : f = [z \in Parts(x) |-> CanonicalPart(z, f)]
    BY <1>1, CanonicalScalarExists
  <2>3. F(x) = [z \in Parts(x) |-> CanonicalPart(z, F(x))]
    BY <2>2, Zenon
  <2> HIDE DEF F
  <2> QED BY <2>1, <2>3
<1> HIDE DEF F
<1>2. ASSUME NEW z \in Parts(r) PROVE F(r)[z] = CanonicalScalar(z)
  <2>1. Shallow(z) /\ Parts(z) \subseteq Parts(r)
    BY PartsAreClosed
  <2>2. ASSUME NEW y \in Parts(z), \A w \in Below(y) : F(r)[w] = F(z)[w]
        PROVE  F(r)[y] = F(z)[y]
    <3>1. F(r)[y] = CanonicalPart(y, F(r)) /\ F(z)[y] = CanonicalPart(y, F(z))
      BY <1>1, <2>1
    <3> QED BY <2>2, <3>1, CanonicalScalarLocal
  <2>3. z \in Parts(z)
    BY <2>1, PartsAreClosed
  <2>4. F(r)[z] = F(z)[z]
    BY <2>1, <2>2, <2>3, NestedAgree
  <2> QED BY <1>1, <2>1, <2>4
<1>3. r \in Parts(r) /\ Below(r) \subseteq Parts(r)
  BY PartsAreClosed
<1>4. \A z \in Below(r) : F(r)[z] = [y \in Parts(r) |-> CanonicalScalar(y)][z]
  BY <1>2, <1>3
<1>5. CanonicalPart(r, F(r)) = CanonicalPart(r, [z \in Parts(r) |-> CanonicalScalar(z)])
  BY <1>4, CanonicalScalarLocal
<1> QED BY <1>1, <1>3, <1>5


(* The canonical form of a value is one of its kind; a text stays, and a   *)
(* list keeps the order of its items.                                      *)
SameKind(u, v) ==
  /\ IsStr(u) <=> IsStr(v)
  /\ IsBool(u) <=> IsBool(v)
  /\ IsDecimal(u) <=> IsDecimal(v)
  /\ IsList(u) <=> IsList(v)

LEMMA CanonicalAtoms ==
  ASSUME NEW v, ValuePart(v), ~ IsList(v), NEW u \in CanonicalScalar(v), Shallow(v)
  PROVE  /\ SameKind(u, v) /\ ValuePart(u)
         /\ IsStr(v) => u = v /\ IsNfc(v.str)
         /\ IsBool(v) => u = v
         /\ IsDecimal(v) => u = Decimal(Stripped(v.m, v.e)[1], Stripped(v.m, v.e)[2])
<1>1. PICK f : u \in CanonicalPart(v, f)
  BY CanonicalScalarUnfolds
<1>2. CASE IsStr(v)
  <2>1. u \in { Str(t) : t \in NfcOnly(v.str) }
    BY <1>1, <1>2 DEF CanonicalPart, IsStr, IsBool, IsDecimal, IsList
  <2>2. u = Str(v.str) /\ IsNfc(v.str)
    BY <2>1 DEF NfcOnly
  <2>3. v = Str(v.str)
    BY <1>2 DEF ValuePart, IsStr, IsBool, IsDecimal, IsList
  <2> QED BY <1>2, <2>2, <2>3 DEF SameKind, IsStr, IsBool, IsDecimal, IsList
<1>3. CASE IsBool(v)
  <2>1. u = v
    BY <1>1, <1>3 DEF CanonicalPart, IsStr, IsBool, IsDecimal, IsList
  <2> QED BY <1>3, <2>1 DEF SameKind, ValuePart, IsStr, IsBool, IsDecimal, IsList
<1>4. CASE IsDecimal(v)
  <2>1. v.m \in Int /\ v.e \in Nat /\ Abs(v.m) <= MaxMantissa /\ v.e <= MaxScale
    BY <1>4 DEF ValuePart, IsStr, IsBool, IsDecimal, IsList
  <2>2. u \in { Decimal(d[1], d[2]) : d \in NormalizeDecimal(v.m, v.e) }
    BY <1>1, <1>4 DEF CanonicalPart, IsStr, IsBool, IsDecimal, IsList
  <2>3. \A d \in NormalizeDecimal(v.m, v.e) : d = Stripped(v.m, v.e)
    BY <2>1 DEF NormalizeDecimal
  <2> DEFINE s == Stripped(v.m, v.e)
  <2>4. s \in Int \X Nat /\ Abs(s[1]) <= MaxMantissa /\ s[2] <= MaxScale
    <3>1. s \in Int \X Nat /\ Abs(s[1]) <= Abs(v.m) /\ s[2] <= v.e
      BY <2>1, StrippedIsExact
    <3>2. Abs(s[1]) \in Int /\ Abs(v.m) \in Int
      BY <2>1, <3>1 DEF Abs
    <3> QED BY <2>1, <3>1, <3>2, ScalarsAssumption
  <2>5. u = Decimal(s[1], s[2])
    BY <2>2, <2>3
  <2> HIDE DEF s
  <2>6. SameKind(u, v) /\ ValuePart(u)
    BY <1>4, <2>4, <2>5 DEF SameKind, ValuePart, Decimal, IsStr, IsBool, IsDecimal, IsList
  <2>7. ~ IsStr(v) /\ ~ IsBool(v)
    BY <1>4 DEF IsStr, IsBool, IsDecimal
  <2> QED BY <2>5, <2>6, <2>7 DEF s
<1> QED BY <1>2, <1>3, <1>4 DEF ValuePart

LEMMA CanonicalLists ==
  ASSUME NEW v, Shallow(v), IsList(v), IsASeq(v.list), NEW u \in CanonicalScalar(v)
  PROVE  /\ SameKind(u, v) /\ ValuePart(u)
         /\ DOMAIN u.list = DOMAIN v.list
         /\ \A i \in DOMAIN v.list : u.list[i] \in CanonicalScalar(v.list[i])
<1> DEFINE f == [z \in Parts(v) |-> CanonicalScalar(z)]
           read == [i \in DOMAIN v.list |-> f[v.list[i]]]
<1>1. u \in CanonicalPart(v, f)
  BY CanonicalScalarUnfolds
<1>2. u \in { List(s) : s \in AllOf(read) }
  <2> HIDE DEF f
  <2> QED BY <1>1 DEF CanonicalPart, IsStr, IsBool, IsDecimal, IsList
<1>3. PICK s \in AllOf(read) : u = List(s)
  BY <1>2, Zenon
<1>4. s = [i \in DOMAIN read |-> s[i]] /\ \A i \in DOMAIN read : s[i] \in read[i]
  <2> HIDE DEF read
  <2> QED BY AllOfMembers
<1>5. \A i \in DOMAIN v.list : v.list[i] \in Parts(v)
  BY ItemsAreInside, PartsAreClosed DEF IsList
<1>6. DOMAIN s = DOMAIN v.list /\ \A i \in DOMAIN v.list : s[i] \in CanonicalScalar(v.list[i])
  BY <1>4, <1>5
<1>7. s = [i \in DOMAIN v.list |-> s[i]]
  BY <1>4, <1>6
<1> HIDE DEF read, f
<1>8. IsASeq(s)
  <2>1. PICK n \in Nat : v.list = [i \in 1 .. n |-> v.list[i]]
    BY DEF IsASeq
  <2>2. DOMAIN v.list = 1 .. n
    BY <2>1
  <2> QED BY <1>7, <2>2 DEF IsASeq
<1>9. IsList(u) /\ u.list = s /\ u = List(u.list)
  BY <1>3 DEF List, IsList
<1>10. SameKind(u, v) /\ ValuePart(u)
  BY <1>8, <1>9 DEF SameKind, ValuePart, IsStr, IsBool, IsDecimal, IsList
<1> QED BY <1>6, <1>9, <1>10

LEMMA CanonicalValues ==
  ASSUME NEW r, IsValue(r)
  PROVE  \A v \in Parts(r) : \A u \in CanonicalScalar(v) :
           /\ IsValue(u)
           /\ \A k \in Nat : k <= MaxDepth /\ Depth(v, k) => Depth(u, k)
<1> DEFINE Good(v, u) == /\ IsValue(u)
                         /\ \A k \in Nat : k <= MaxDepth /\ Depth(v, k) => Depth(u, k)
           S == {v \in Parts(r) : \A u \in CanonicalScalar(v) : Good(v, u)}
<1>1. Shallow(r)
  BY DEF IsValue
<1>2. ASSUME NEW v \in Parts(r), Below(v) \subseteq S PROVE v \in S
  <2> SUFFICES ASSUME NEW u \in CanonicalScalar(v) PROVE Good(v, u)
    OBVIOUS
  <2>1. Shallow(v) /\ ValuePart(v)
    BY <1>1, PartsAreClosed DEF IsValue
  <2>2. CASE ~ IsList(v)
    <3>1. SameKind(u, v) /\ ValuePart(u)
      BY <2>1, <2>2, CanonicalAtoms
    <3>2. IsStr(u) \/ IsBool(u) \/ IsDecimal(u)
      BY <2>1, <2>2, <3>1 DEF SameKind, ValuePart
    <3> QED BY <3>1, <3>2, AtomsHoldNothing, NothingInside DEF IsValue
  <2>3. CASE IsList(v)
    <3>1. IsASeq(v.list)
      BY <2>1, <2>3 DEF ValuePart, IsStr, IsBool, IsDecimal, IsList
    <3>2. /\ SameKind(u, v) /\ ValuePart(u)
          /\ DOMAIN u.list = DOMAIN v.list
          /\ \A i \in DOMAIN v.list : u.list[i] \in CanonicalScalar(v.list[i])
      BY <2>1, <2>3, <3>1, CanonicalLists
    <3>3. IsList(u)
      BY <2>3, <3>2 DEF SameKind
    <3>4. \A i \in DOMAIN v.list : v.list[i] \in Below(v) /\ v.list[i] \in Parts(v)
      <4>1. \A i \in DOMAIN v.list : v.list[i] \in Inside(v)
        BY <2>3, ItemsAreInside DEF IsList
      <4> QED BY <2>1, <4>1, InsideIsBelow, PartsAreClosed
    <3>5. ASSUME NEW z \in Inside(u)
          PROVE  \E w \in Below(v) : Good(w, z)
      <4>1. PICK i \in DOMAIN v.list : z = u.list[i]
        BY <3>2, <3>3, ListsHoldTheirItems DEF ToSet
      <4> QED BY <1>2, <3>2, <3>4, <4>1
    <3>6. ASSUME NEW k \in Nat, k <= MaxDepth, Depth(v, k) PROVE Depth(u, k)
      BY <3>5, <3>6, NestsAsDeep
    <3>7. Shallow(u)
      BY <2>1, <3>6, DepthAssumption DEF Shallow
    <3>8. \A y \in Parts(u) : ValuePart(y)
      <4>1. \A z \in Inside(u) : IsValue(z)
        BY <3>5
      <4>2. \A y \in Below(u) : ValuePart(y)
        BY <4>1 DEF Below, IsValue
      <4> QED BY <3>2, <3>7, <4>2, PartsAndBelow
    <3> QED BY <3>6, <3>7, <3>8 DEF IsValue
  <2> QED BY <2>2, <2>3
<1> HIDE DEF S
<1>3. Parts(r) \subseteq S
  BY <1>1, <1>2, NestingInduction
<1> QED BY <1>3 DEF S

LEMMA CanonicalConditions ==
  ASSUME NEW c, IsCond(c), NEW d \in CanonicalCondition(c)
  PROVE  /\ IsCond(d) /\ IsNfc(c.field)
         /\ d.field = c.field /\ d.operator = c.operator
         /\ d.value \in CanonicalScalar(c.value)
<1>1. /\ d = [c EXCEPT !.value = d.value] /\ d.value \in CanonicalScalar(c.value)
      /\ IsNfc(c.field)
  BY DEF CanonicalCondition, NfcOnly, IsCond
<1>2. c.value \in Parts(c.value)
  BY PartsAreClosed DEF IsCond, IsValue
<1>3. IsValue(d.value)
  BY <1>1, <1>2, CanonicalValues DEF IsCond
<1>4. DOMAIN d = DOMAIN c /\ d.field = c.field /\ d.operator = c.operator
  BY <1>1 DEF IsCond
<1> QED BY <1>1, <1>3, <1>4 DEF IsCond

(* A premise on words is kept as it is, and one that is kept was one.      *)
LEMMA WordsAreKept ==
  ASSUME NEW c, IsCond(c), NEW d \in CanonicalCondition(c),
         c.operator = "==" \/ (c.operator = "in" /\ (IsList(c.value) \/ IsList(d.value)))
  PROVE  /\ IsList(c.value) <=> IsList(d.value)
         /\ Words(d) => Words(c) /\ d.value = c.value
<1>1. /\ IsValue(c.value) /\ d.operator = c.operator
      /\ d.value \in CanonicalScalar(c.value)
  BY CanonicalConditions DEF IsCond
<1>2. Shallow(c.value) /\ ValuePart(c.value) /\ \A y \in Parts(c.value) : ValuePart(y)
  BY <1>1, PartsAreClosed DEF IsValue
<1>3. CASE ~ IsList(c.value)
  <2>1. SameKind(d.value, c.value) /\ (IsStr(c.value) => d.value = c.value)
    BY <1>1, <1>2, <1>3, CanonicalAtoms
  <2>2. ~ IsList(d.value) /\ c.operator = "=="
    BY <1>3, <2>1 DEF SameKind
  <2>3. Words(d) => IsStr(d.value)
    BY <1>1, <2>2 DEF Words
  <2> QED BY <1>1, <1>3, <2>1, <2>2, <2>3 DEF SameKind, Words
<1>4. CASE IsList(c.value)
  <2> DEFINE s == c.value.list
             t == d.value.list
  <2>1. IsASeq(s)
    BY <1>2, <1>4 DEF ValuePart, IsStr, IsBool, IsDecimal, IsList
  <2>2. /\ SameKind(d.value, c.value) /\ ValuePart(d.value) /\ DOMAIN t = DOMAIN s
        /\ \A i \in DOMAIN s : t[i] \in CanonicalScalar(s[i])
    BY <1>1, <1>2, <1>4, <2>1, CanonicalLists
  <2>3. IsList(d.value)
    BY <1>4, <2>2 DEF SameKind
  <2>4. ASSUME Words(d) PROVE Words(c) /\ d.value = c.value
    <3>1. d.operator = "in"
      <4>1. ~ IsStr(d.value)
        BY <2>3 DEF IsStr, IsList
      <4> QED BY <1>1, <2>4, <4>1 DEF Words
    <3>2. \A i \in DOMAIN s : IsStr(t[i])
      BY <2>2, <2>4, <3>1 DEF Words, ToSet
    <3>3. ASSUME NEW i \in DOMAIN s PROVE t[i] = s[i]
      <4>1. s[i] \in Parts(c.value)
        BY <1>2, <1>4, ItemsAreInside, PartsAreClosed DEF IsList
      <4>2. Shallow(s[i]) /\ ValuePart(s[i])
        BY <1>2, <4>1, PartsAreClosed
      <4>3. ~ IsList(s[i])
        <5>1. CASE IsList(s[i])
          <6>1. IsASeq(s[i].list)
            BY <4>2, <5>1 DEF ValuePart, IsStr, IsBool, IsDecimal, IsList
          <6>2. SameKind(t[i], s[i])
            BY <2>2, <4>2, <5>1, <6>1, CanonicalLists
          <6> QED BY <3>2, <5>1, <6>2 DEF SameKind, IsStr, IsList
        <5> QED BY <5>1
      <4> QED BY <2>2, <3>2, <4>2, <4>3, CanonicalAtoms DEF SameKind
    <3>4. t = s
      <4>1. PICK n \in Nat : s = [i \in 1 .. n |-> s[i]]
        BY <2>1 DEF IsASeq
      <4>2. PICK m \in Nat : t = [i \in 1 .. m |-> t[i]]
        <5>1. IsASeq(t)
          BY <2>2, <2>3 DEF ValuePart, IsStr, IsBool, IsDecimal, IsList
        <5> QED BY <5>1 DEF IsASeq
      <4>3. t = [i \in DOMAIN s |-> t[i]] /\ s = [i \in DOMAIN s |-> s[i]]
        BY <2>2, <4>1, <4>2
      <4> HIDE DEF s, t
      <4> QED BY <3>3, <4>3
    <3>5. d.value = c.value
      <4>1. d.value = List(t) /\ c.value = List(s)
        BY <1>2, <1>4, <2>2, <2>3 DEF ValuePart, IsStr, IsBool, IsDecimal, IsList
      <4> HIDE DEF s, t
      <4> QED BY <3>4, <4>1
    <3> QED BY <1>1, <2>4, <3>5 DEF Words
  <2> QED BY <1>4, <2>3, <2>4
<1> QED BY <1>3, <1>4


SideBody(opt, f) ==
  IF opt = {} THEN {{}}
  ELSE LET s == CHOOSE s \in opt : TRUE
       IN  { {t} : t \in AllOf([i \in DOMAIN s |-> f[s[i]]]) }

CanonicalGroupBody(x, f) ==
  IF IsGroup(x) THEN GroupsOf(SideBody(x.all, f), SideBody(x.any, f))
                ELSE CanonicalCondition(x)

LEMMA CanonicalGroupLocal ==
  ASSUME NEW x, NEW f, NEW g, \A z \in Below(x) : f[z] = g[z]
  PROVE  CanonicalGroupBody(x, f) = CanonicalGroupBody(x, g)
<1>1. CASE IsGroup(x)
  <2>1. ASSUME NEW opt \in {x.all, x.any} PROVE SideBody(opt, f) = SideBody(opt, g)
    <3>1. CASE opt = {}
      BY <3>1, Zenon DEF SideBody
    <3>2. CASE opt # {}
      <4> DEFINE s == CHOOSE s \in opt : TRUE
                 F == [i \in DOMAIN s |-> f[s[i]]]
                 G == [i \in DOMAIN s |-> g[s[i]]]
      <4>1. SideBody(opt, f) = { {t} : t \in AllOf(F) }
            /\ SideBody(opt, g) = { {t} : t \in AllOf(G) }
        BY <3>2, Zenon DEF SideBody
      <4>2. s \in x.all \cup x.any
        BY <3>2
      <4> HIDE DEF s
      <4>3. \A i \in DOMAIN s : f[s[i]] = g[s[i]]
        BY <1>1, <4>2, MembersAreInside DEF IsGroup
      <4>4. F = G
        BY <4>3
      <4> QED BY <4>1, <4>4, Zenon
    <3> QED BY <3>1, <3>2
  <2>2. SideBody(x.all, f) = SideBody(x.all, g) /\ SideBody(x.any, f) = SideBody(x.any, g)
    BY <2>1
  <2> QED BY <2>2, Zenon DEF CanonicalGroupBody
<1>2. CASE ~ IsGroup(x)
  BY <1>2, Zenon DEF CanonicalGroupBody
<1> QED BY <1>1, <1>2

LEMMA CanonicalGroupExists ==
  ASSUME NEW r, Shallow(r)
  PROVE  \E f : f = [x \in Parts(r) |-> CanonicalGroupBody(x, f)]
<1> DEFINE S == {n \in Nat : n <= MaxDepth + 1
                   => \E f : f = [x \in Lower(r, n) |-> CanonicalGroupBody(x, f)]}
<1>1. 0 \in S
  <2> DEFINE f == [x \in Lower(r, 0) |-> CanonicalGroupBody(x, <<>>)]
  <2>1. f = [x \in Lower(r, 0) |-> CanonicalGroupBody(x, f)]
    BY LowerGrows
  <2> QED BY <2>1, Zenon
<1>2. ASSUME NEW n \in Nat, n \in S PROVE n + 1 \in S
  <2> SUFFICES ASSUME n + 1 <= MaxDepth + 1
               PROVE  \E f : f = [x \in Lower(r, n + 1) |-> CanonicalGroupBody(x, f)]
    OBVIOUS
  <2>1. n <= MaxDepth /\ n <= MaxDepth + 1
    BY DepthAssumption
  <2>2. PICK f : f = [x \in Lower(r, n) |-> CanonicalGroupBody(x, f)]
    BY <1>2, <2>1
  <2> DEFINE g == [x \in Lower(r, n + 1) |-> CanonicalGroupBody(x, f)]
  <2>3. \A x \in Lower(r, n) : f[x] = CanonicalGroupBody(x, f)
    BY <2>2, Zenon
  <2>4. Lower(r, n) \subseteq Lower(r, n + 1)
    BY <2>1, LowerOnLower
  <2>5. \A x \in Lower(r, n) : g[x] = f[x]
    BY <2>3, <2>4
  <2>6. ASSUME NEW x \in Lower(r, n + 1) PROVE CanonicalGroupBody(x, f) = CanonicalGroupBody(x, g)
    <3>1. Below(x) \subseteq Lower(r, n)
      BY <2>1, LowerGrows
    <3> HIDE DEF g
    <3> QED BY <2>5, <3>1, CanonicalGroupLocal
  <2>7. g = [x \in Lower(r, n + 1) |-> CanonicalGroupBody(x, g)]
    BY <2>6
  <2> QED BY <2>7, Zenon
<1> HIDE DEF S
<1>3. Nat \subseteq S
  BY <1>1, <1>2, NatSetInduction
<1>4. \E f : f = [x \in Lower(r, MaxDepth + 1) |-> CanonicalGroupBody(x, f)]
  BY <1>3, DepthAssumption DEF S
<1> QED BY <1>4, LowerGrows

LEMMA CanonicalGroupUnfolds ==
  ASSUME NEW r, Shallow(r)
  PROVE  CanonicalGroup(r) = CanonicalGroupBody(r, [z \in Parts(r) |-> CanonicalGroup(z)])
<1> DEFINE F(x) == CHOOSE f : f = [z \in Parts(x) |-> CanonicalGroupBody(z, f)]
<1>1. ASSUME NEW x, Shallow(x)
      PROVE  /\ CanonicalGroup(x) = F(x)[x]
             /\ \A z \in Parts(x) : F(x)[z] = CanonicalGroupBody(z, F(x))
  <2>1. CanonicalGroup(x) = F(x)[x]
    BY Zenon DEF CanonicalGroup, CanonicalGroupBody, SideBody
  <2>2. \E f : f = [z \in Parts(x) |-> CanonicalGroupBody(z, f)]
    BY <1>1, CanonicalGroupExists
  <2>3. F(x) = [z \in Parts(x) |-> CanonicalGroupBody(z, F(x))]
    BY <2>2, Zenon
  <2> HIDE DEF F
  <2> QED BY <2>1, <2>3
<1> HIDE DEF F
<1>2. ASSUME NEW z \in Parts(r) PROVE F(r)[z] = CanonicalGroup(z)
  <2>1. Shallow(z) /\ Parts(z) \subseteq Parts(r)
    BY PartsAreClosed
  <2>2. ASSUME NEW y \in Parts(z), \A w \in Below(y) : F(r)[w] = F(z)[w]
        PROVE  F(r)[y] = F(z)[y]
    <3>1. F(r)[y] = CanonicalGroupBody(y, F(r)) /\ F(z)[y] = CanonicalGroupBody(y, F(z))
      BY <1>1, <2>1
    <3> QED BY <2>2, <3>1, CanonicalGroupLocal
  <2>3. z \in Parts(z)
    BY <2>1, PartsAreClosed
  <2>4. F(r)[z] = F(z)[z]
    BY <2>1, <2>2, <2>3, NestedAgree
  <2> QED BY <1>1, <2>1, <2>4
<1>3. r \in Parts(r) /\ Below(r) \subseteq Parts(r)
  BY PartsAreClosed
<1>4. \A z \in Below(r) : F(r)[z] = [y \in Parts(r) |-> CanonicalGroup(y)][z]
  BY <1>2, <1>3
<1>5. CanonicalGroupBody(r, F(r)) = CanonicalGroupBody(r, [z \in Parts(r) |-> CanonicalGroup(z)])
  BY <1>4, CanonicalGroupLocal
<1> QED BY <1>1, <1>3, <1>5


LEMMA CanonicalSides ==
  ASSUME NEW s, NEW f, NEW side \in SideBody({s}, f)
  PROVE  \E t : /\ side = {t} /\ DOMAIN t = DOMAIN s
                /\ t = [i \in DOMAIN s |-> t[i]]
                /\ \A i \in DOMAIN s : t[i] \in f[s[i]]
<1> DEFINE read == [i \in DOMAIN s |-> f[s[i]]]
<1>1. (CHOOSE z \in {s} : TRUE) = s
  OBVIOUS
<1>2. SideBody({s}, f) = { {t} : t \in AllOf(read) }
  BY <1>1 DEF SideBody
<1>3. PICK t \in AllOf(read) : side = {t}
  BY <1>2
<1>4. t = [i \in DOMAIN read |-> t[i]] /\ \A i \in DOMAIN read : t[i] \in read[i]
  <2> HIDE DEF read
  <2> QED BY AllOfMembers
<1>5. DOMAIN t = DOMAIN s
  BY <1>4
<1> QED BY <1>3, <1>4, <1>5

(* A canonical group has the sides of the group, and their members.        *)
SameSides(h, g) ==
  \A s : /\ g.all = {s} /\ g.any = {} =>
              /\ h.any = {}
              /\ \E t : /\ h.all = {t} /\ DOMAIN t = DOMAIN s
                        /\ \A i \in DOMAIN s : t[i] \in CanonicalGroup(s[i])
         /\ g.all = {} /\ g.any = {s} =>
              /\ h.all = {}
              /\ \E t : /\ h.any = {t} /\ DOMAIN t = DOMAIN s
                        /\ \A i \in DOMAIN s : t[i] \in CanonicalGroup(s[i])

LEMMA CanonicalGroupSides ==
  ASSUME NEW g, Shallow(g), OneSided(g), NEW h \in CanonicalGroup(g)
  PROVE  OneSided(h) /\ SameSides(h, g)
<1> DEFINE f == [z \in Parts(g) |-> CanonicalGroup(z)]
<1>1. h \in CanonicalGroupBody(g, f)
  BY CanonicalGroupUnfolds
<1>2. \A s \in g.all \cup g.any : \A i \in DOMAIN s : f[s[i]] = CanonicalGroup(s[i])
  <2>1. \A s \in g.all \cup g.any : \A i \in DOMAIN s : s[i] \in Parts(g)
    BY MembersAreInside, PartsAreClosed DEF OneSided
  <2> QED BY <2>1
<1> HIDE DEF f
<1>3. PICK as \in SideBody(g.all, f), bs \in SideBody(g.any, f) : h = [all |-> as, any |-> bs]
  BY <1>1, CondOrGroup DEF CanonicalGroupBody, GroupsOf
<1>4. SideBody({}, f) = {{}}
  BY DEF SideBody
<1>5. PICK s : /\ IsASeq(s)
               /\ \/ g.all = {s} /\ g.any = {}
                  \/ g.all = {} /\ g.any = {s}
  BY Zenon DEF OneSided
<1>6. ASSUME NEW side \in SideBody({s}, f), s \in g.all \cup g.any
      PROVE  \E t : /\ side = {t} /\ DOMAIN t = DOMAIN s /\ IsASeq(t)
                    /\ \A i \in DOMAIN s : t[i] \in CanonicalGroup(s[i])
  <2>1. PICK t : /\ side = {t} /\ DOMAIN t = DOMAIN s
                 /\ t = [i \in DOMAIN s |-> t[i]]
                 /\ \A i \in DOMAIN s : t[i] \in f[s[i]]
    BY CanonicalSides
  <2>2. PICK n \in Nat : s = [i \in 1 .. n |-> s[i]]
    BY <1>5 DEF IsASeq
  <2>3. DOMAIN s = 1 .. n
    BY <2>2
  <2>4. IsASeq(t)
    BY <2>1, <2>3 DEF IsASeq
  <2> QED BY <1>2, <1>6, <2>1, <2>4
<1>7. CASE g.all = {s} /\ g.any = {}
  <2>1. PICK t : /\ as = {t} /\ DOMAIN t = DOMAIN s /\ IsASeq(t)
                 /\ \A i \in DOMAIN s : t[i] \in CanonicalGroup(s[i])
    BY <1>3, <1>6, <1>7
  <2>2. h.all = {t} /\ h.any = {} /\ DOMAIN h = {"all", "any"}
    BY <1>3, <1>4, <1>7, <2>1
  <2>3. OneSided(h)
    BY <2>1, <2>2 DEF OneSided
  <2>4. \A z : g.all = {z} => z = s
    BY <1>7
  <2>5. ~ (g.all = {})
    BY <1>7
  <2> QED BY <2>1, <2>2, <2>3, <2>4, <2>5 DEF SameSides
<1>8. CASE g.all = {} /\ g.any = {s}
  <2>1. PICK t : /\ bs = {t} /\ DOMAIN t = DOMAIN s /\ IsASeq(t)
                 /\ \A i \in DOMAIN s : t[i] \in CanonicalGroup(s[i])
    BY <1>3, <1>6, <1>8
  <2>2. h.any = {t} /\ h.all = {} /\ DOMAIN h = {"all", "any"}
    BY <1>3, <1>4, <1>8, <2>1
  <2>3. OneSided(h)
    BY <2>1, <2>2 DEF OneSided
  <2>4. \A z : g.any = {z} => z = s
    BY <1>8
  <2>5. ~ (g.any = {})
    BY <1>8
  <2> QED BY <2>1, <2>2, <2>3, <2>4, <2>5 DEF SameSides
<1> QED BY <1>5, <1>7, <1>8

LEMMA CanonicalGroupConditions ==
  ASSUME NEW c, Shallow(c), ~ IsGroup(c)
  PROVE  CanonicalGroup(c) = CanonicalCondition(c)
BY CanonicalGroupUnfolds DEF CanonicalGroupBody

LEMMA CanonicalGroups ==
  ASSUME NEW r, GroupShape(r)
  PROVE  \A g \in Parts(r) : \A h \in CanonicalGroup(g) :
           /\ GroupShape(h) /\ (IsGroup(h) <=> IsGroup(g))
           /\ \A k \in Nat : k <= MaxDepth /\ Depth(g, k) => Depth(h, k)
<1> DEFINE Good(g, h) == /\ GroupShape(h)
                         /\ \A k \in Nat : k <= MaxDepth /\ Depth(g, k) => Depth(h, k)
           S == {g \in Parts(r) : \A h \in CanonicalGroup(g) :
                                    Good(g, h) /\ (IsGroup(h) <=> IsGroup(g))}
<1>1. Shallow(r)
  BY DEF GroupShape
<1>2. ASSUME NEW g \in Parts(r), Below(g) \subseteq S PROVE g \in S
  <2> SUFFICES ASSUME NEW h \in CanonicalGroup(g)
               PROVE  Good(g, h) /\ (IsGroup(h) <=> IsGroup(g))
    OBVIOUS
  <2>1. Shallow(g) /\ (IsCond(g) \/ OneSided(g))
    BY <1>1, PartsAreClosed DEF GroupShape
  <2>2. CASE IsCond(g)
    <3>1. h \in CanonicalCondition(g) /\ ~ IsGroup(g)
      BY <2>1, <2>2, CondOrGroup, CanonicalGroupConditions
    <3>2. IsCond(h) /\ ~ IsGroup(h)
      BY <2>2, <3>1, CanonicalConditions, CondOrGroup
    <3> QED BY <3>1, <3>2, ConditionsHoldNothing, NothingInside DEF GroupShape
  <2>3. CASE OneSided(g)
    <3>1. OneSided(h) /\ SameSides(h, g)
      BY <2>1, <2>3, CanonicalGroupSides
    <3>2. PICK s : \/ g.all = {s} /\ g.any = {}
                   \/ g.all = {} /\ g.any = {s}
      BY <2>3, Zenon DEF OneSided
    <3>3. PICK t : /\ h.all \cup h.any = {t} /\ DOMAIN t = DOMAIN s
                   /\ \A i \in DOMAIN s : t[i] \in CanonicalGroup(s[i])
      <4>1. CASE g.all = {s} /\ g.any = {}
        BY <3>1, <4>1 DEF SameSides
      <4>2. CASE g.all = {} /\ g.any = {s}
        BY <3>1, <4>2 DEF SameSides
      <4> QED BY <3>2, <4>1, <4>2
    <3>4. \A i \in DOMAIN s : s[i] \in Below(g)
      BY <2>3, <3>2, MembersAreInside DEF OneSided
    <3>5. ASSUME NEW z \in Inside(h)
          PROVE  \E w \in Below(g) : Good(w, z)
      <4>1. z \in ToSet(t)
        BY <3>1, <3>3, <3>5, GroupsHoldTheirMembers
      <4>2. PICK i \in DOMAIN s : z = t[i]
        BY <3>3, <4>1 DEF ToSet
      <4> QED BY <1>2, <3>3, <3>4, <4>2
    <3>6. ASSUME NEW k \in Nat, k <= MaxDepth, Depth(g, k) PROVE Depth(h, k)
      BY <3>5, <3>6, NestsAsDeep
    <3>7. Shallow(h)
      BY <2>1, <3>6, DepthAssumption DEF Shallow
    <3>8. \A y \in Parts(h) : IsCond(y) \/ OneSided(y)
      <4>1. \A z \in Inside(h) : GroupShape(z)
        BY <3>5
      <4>2. \A y \in Below(h) : IsCond(y) \/ OneSided(y)
        BY <4>1 DEF Below, GroupShape
      <4> QED BY <3>1, <3>7, <4>2, PartsAndBelow
    <3>9. IsGroup(h) /\ IsGroup(g)
      BY <2>3, <3>1, CondOrGroup
    <3> QED BY <3>6, <3>7, <3>8, <3>9 DEF GroupShape
  <2> QED BY <2>1, <2>2, <2>3
<1> HIDE DEF S
<1>3. Parts(r) \subseteq S
  BY <1>1, <1>2, NestingInduction
<1> QED BY <1>3 DEF S

CanonicalEntryBody(x, f) ==
  IF IsLeaf(x) THEN CanonicalLeaf(x)
  ELSE CanonicalNode(x, f[x.true_branch], f[x.false_branch])

LEMMA CanonicalEntryLocal ==
  ASSUME NEW x, NEW f, NEW g, \A z \in Below(x) : f[z] = g[z]
  PROVE  CanonicalEntryBody(x, f) = CanonicalEntryBody(x, g)
<1>1. CASE IsLeaf(x)
  BY <1>1, Zenon DEF CanonicalEntryBody
<1>2. CASE ~ IsLeaf(x)
  <2>1. f[x.true_branch] = g[x.true_branch] /\ f[x.false_branch] = g[x.false_branch]
    BY <1>2, BranchesAreBelow
  <2> QED BY <2>1, Zenon DEF CanonicalEntryBody
<1> QED BY <1>1, <1>2

LEMMA CanonicalEntryExists ==
  ASSUME NEW r, Shallow(r)
  PROVE  \E f : f = [x \in Parts(r) |-> CanonicalEntryBody(x, f)]
<1> DEFINE S == {n \in Nat : n <= MaxDepth + 1
                   => \E f : f = [x \in Lower(r, n) |-> CanonicalEntryBody(x, f)]}
<1>1. 0 \in S
  <2> DEFINE f == [x \in Lower(r, 0) |-> CanonicalEntryBody(x, <<>>)]
  <2>1. f = [x \in Lower(r, 0) |-> CanonicalEntryBody(x, f)]
    BY LowerGrows
  <2> QED BY <2>1, Zenon
<1>2. ASSUME NEW n \in Nat, n \in S PROVE n + 1 \in S
  <2> SUFFICES ASSUME n + 1 <= MaxDepth + 1
               PROVE  \E f : f = [x \in Lower(r, n + 1) |-> CanonicalEntryBody(x, f)]
    OBVIOUS
  <2>1. n <= MaxDepth /\ n <= MaxDepth + 1
    BY DepthAssumption
  <2>2. PICK f : f = [x \in Lower(r, n) |-> CanonicalEntryBody(x, f)]
    BY <1>2, <2>1
  <2> DEFINE g == [x \in Lower(r, n + 1) |-> CanonicalEntryBody(x, f)]
  <2>3. \A x \in Lower(r, n) : f[x] = CanonicalEntryBody(x, f)
    BY <2>2, Zenon
  <2>4. Lower(r, n) \subseteq Lower(r, n + 1)
    BY <2>1, LowerOnLower
  <2>5. \A x \in Lower(r, n) : g[x] = f[x]
    BY <2>3, <2>4
  <2>6. ASSUME NEW x \in Lower(r, n + 1) PROVE CanonicalEntryBody(x, f) = CanonicalEntryBody(x, g)
    <3>1. Below(x) \subseteq Lower(r, n)
      BY <2>1, LowerGrows
    <3> HIDE DEF g
    <3> QED BY <2>5, <3>1, CanonicalEntryLocal
  <2>7. g = [x \in Lower(r, n + 1) |-> CanonicalEntryBody(x, g)]
    BY <2>6
  <2> QED BY <2>7, Zenon
<1> HIDE DEF S
<1>3. Nat \subseteq S
  BY <1>1, <1>2, NatSetInduction
<1>4. \E f : f = [x \in Lower(r, MaxDepth + 1) |-> CanonicalEntryBody(x, f)]
  BY <1>3, DepthAssumption DEF S
<1> QED BY <1>4, LowerGrows

LEMMA CanonicalEntryUnfolds ==
  ASSUME NEW r, Shallow(r)
  PROVE  CanonicalEntry(r) = CanonicalEntryBody(r, [z \in Parts(r) |-> CanonicalEntry(z)])
<1> DEFINE F(x) == CHOOSE f : f = [z \in Parts(x) |-> CanonicalEntryBody(z, f)]
<1>1. ASSUME NEW x, Shallow(x)
      PROVE  /\ CanonicalEntry(x) = F(x)[x]
             /\ \A z \in Parts(x) : F(x)[z] = CanonicalEntryBody(z, F(x))
  <2>1. CanonicalEntry(x) = F(x)[x]
    BY Zenon DEF CanonicalEntry, CanonicalEntryBody
  <2>2. \E f : f = [z \in Parts(x) |-> CanonicalEntryBody(z, f)]
    BY <1>1, CanonicalEntryExists
  <2>3. F(x) = [z \in Parts(x) |-> CanonicalEntryBody(z, F(x))]
    BY <2>2, Zenon
  <2> HIDE DEF F
  <2> QED BY <2>1, <2>3
<1> HIDE DEF F
<1>2. ASSUME NEW z \in Parts(r) PROVE F(r)[z] = CanonicalEntry(z)
  <2>1. Shallow(z) /\ Parts(z) \subseteq Parts(r)
    BY PartsAreClosed
  <2>2. ASSUME NEW y \in Parts(z), \A w \in Below(y) : F(r)[w] = F(z)[w]
        PROVE  F(r)[y] = F(z)[y]
    <3>1. F(r)[y] = CanonicalEntryBody(y, F(r)) /\ F(z)[y] = CanonicalEntryBody(y, F(z))
      BY <1>1, <2>1
    <3> QED BY <2>2, <3>1, CanonicalEntryLocal
  <2>3. z \in Parts(z)
    BY <2>1, PartsAreClosed
  <2>4. F(r)[z] = F(z)[z]
    BY <2>1, <2>2, <2>3, NestedAgree
  <2> QED BY <1>1, <2>1, <2>4
<1>3. r \in Parts(r) /\ Below(r) \subseteq Parts(r)
  BY PartsAreClosed
<1>4. \A z \in Below(r) : F(r)[z] = [y \in Parts(r) |-> CanonicalEntry(y)][z]
  BY <1>2, <1>3
<1>5. CanonicalEntryBody(r, F(r)) = CanonicalEntryBody(r, [z \in Parts(r) |-> CanonicalEntry(z)])
  BY <1>4, CanonicalEntryLocal
<1> QED BY <1>1, <1>3, <1>5


RuleFields ==
  { "rule_id", "rule_version", "description", "interpretation_notes", "tags", "applies_if",
    "decision_tree", "obligations", "document_id", "citation", "window" }

LEMMA CompiledFields ==
  ASSUME NEW d \in Documents \cup IntentDocuments, ~ IsIntent(d),
         NEW rules \in CompileRules(d), NEW i \in DOMAIN rules
  PROVE  DOMAIN rules[i] = RuleFields
<1>1. PICK ast : rules[i] \in LowerRule(ast)
  BY CompiledRules
<1> QED BY <1>1 DEF LowerRule, RuleFields

(* A rule as the encoder leaves it.                                        *)
LEMMA CanonicalRules ==
  ASSUME NEW r, DOMAIN r = RuleFields, NEW q \in CanonicalRule(r)
  PROVE  /\ \A f \in RuleFields \ {"tags", "applies_if", "decision_tree"} : q[f] = r[f]
         /\ q.tags \in CanonicalTags(r.tags)
         /\ r.applies_if = {} => q.applies_if = {}
         /\ \A g : r.applies_if = {g} => \E h \in CanonicalGroup(g) : q.applies_if = {h}
         /\ q.decision_tree \in CanonicalEntry(r.decision_tree)
         /\ TextsAreNfc(r)
         /\ r.window \in CanonicalWindow(r.window)
<1>1. TextsAreNfc(r)
  BY DEF CanonicalRule
<1> DEFINE groups == CanonicalApplicability(r.applies_if)
<1>2. PICK tags \in CanonicalTags(r.tags), group \in groups,
           tree \in CanonicalEntry(r.decision_tree), window \in CanonicalWindow(r.window) :
        q = RuleWith(r, tags, group, tree, window)
  BY <1>1 DEF CanonicalRule
<1>3. window = r.window
  BY DEF CanonicalWindow
<1> HIDE DEF groups
<1>4. /\ q.tags = tags /\ q.applies_if = group /\ q.decision_tree = tree /\ q.window = window
      /\ \A f \in RuleFields \ {"tags", "applies_if", "decision_tree", "window"} : q[f] = r[f]
  BY <1>2 DEF RuleFields, RuleWith
<1>5. \A f \in RuleFields \ {"tags", "applies_if", "decision_tree"} : q[f] = r[f]
  BY <1>3, <1>4 DEF RuleFields
<1>6. r.applies_if = {} => group = {}
  BY DEF groups, CanonicalApplicability
<1>7. ASSUME NEW g, r.applies_if = {g} PROVE \E h \in CanonicalGroup(g) : group = {h}
  <2>1. (CHOOSE z \in {g} : TRUE) = g
    OBVIOUS
  <2>2. r.applies_if # {}
    BY <1>7
  <2>3. groups = { {h} : h \in CanonicalGroup(g) }
    BY <1>7, <2>1, <2>2, Zenon DEF groups, CanonicalApplicability
  <2> QED BY <2>3
<1> QED BY <1>1, <1>3, <1>4, <1>5, <1>6, <1>7

ShapedGroups(rule) ==
  \A g \in rule.applies_if : rule.applies_if = {g} /\ GroupShape(g) /\ OneSided(g)

LEMMA CanonicalRulesAreShaped ==
  ASSUME NEW r, DOMAIN r = RuleFields, ShapedGroups(r), NEW q \in CanonicalRule(r)
  PROVE  ShapedGroups(q)
<1> SUFFICES ASSUME NEW h \in q.applies_if
             PROVE  q.applies_if = {h} /\ GroupShape(h) /\ OneSided(h)
  BY DEF ShapedGroups
<1>1. r.applies_if # {}
  BY CanonicalRules
<1>2. PICK g \in r.applies_if : TRUE
  BY <1>1
<1>3. r.applies_if = {g} /\ GroupShape(g) /\ OneSided(g)
  BY <1>2 DEF ShapedGroups
<1>4. h \in CanonicalGroup(g) /\ q.applies_if = {h}
  BY <1>3, CanonicalRules
<1>5. Shallow(g) /\ g \in Parts(g)
  BY <1>3, PartsAreClosed DEF GroupShape
<1> QED BY <1>3, <1>4, <1>5, CanonicalGroups, CanonicalGroupSides

(* A rule's premises are the canonical rule's, one for one.                *)
LEMMA PremisesAreKept ==
  ASSUME NEW r, DOMAIN r = RuleFields, ShapedGroups(r), NEW q \in CanonicalRule(r)
  PROVE  /\ \A d \in PremiseConditions(q) : \E c \in PremiseConditions(r) :
              IsCond(c) /\ d \in CanonicalCondition(c)
         /\ \A c \in PremiseConditions(r) : \E d \in PremiseConditions(q) :
              IsCond(c) /\ d \in CanonicalCondition(c)
<1>1. ASSUME NEW g, r.applies_if = {g}
      PROVE  /\ GroupShape(g) /\ OneSided(g)
             /\ \E h \in CanonicalGroup(g) : q.applies_if = {h} /\ SameSides(h, g) /\ OneSided(h)
  <2>1. GroupShape(g) /\ OneSided(g) /\ Shallow(g)
    BY <1>1 DEF ShapedGroups, GroupShape
  <2> QED BY <1>1, <2>1, CanonicalRules, CanonicalGroupSides
<1>2. ASSUME NEW g, r.applies_if = {g}, NEW s, g.all = {s}, g.any = {}, NEW i \in DOMAIN s,
             NEW d \in CanonicalGroup(s[i])
      PROVE  /\ IsGroup(d) <=> IsGroup(s[i])
             /\ ~ IsGroup(s[i]) => IsCond(s[i]) /\ d \in CanonicalCondition(s[i])
  <2>1. s[i] \in Parts(g) /\ Shallow(g) /\ GroupShape(g)
    BY <1>1, <1>2, MembersAreInside, PartsAreClosed DEF OneSided, GroupShape
  <2>2. IsGroup(d) <=> IsGroup(s[i])
    BY <1>2, <2>1, CanonicalGroups
  <2>3. Shallow(s[i]) /\ (IsCond(s[i]) \/ OneSided(s[i]))
    BY <2>1, PartsAreClosed DEF GroupShape
  <2> QED BY <1>2, <2>2, <2>3, CanonicalGroupConditions, CondOrGroup
<1>3. ASSUME NEW c, IsCond(c), NEW d \in CanonicalCondition(c)
      PROVE  (c.operator = "==" \/ (c.operator = "in" /\ IsList(c.value)))
               <=> (d.operator = "==" \/ (d.operator = "in" /\ IsList(d.value)))
  BY <1>3, CanonicalConditions, WordsAreKept
<1>4. ASSUME NEW d \in PremiseConditions(q)
      PROVE  \E c \in PremiseConditions(r) : IsCond(c) /\ d \in CanonicalCondition(c)
  <2>1. PICK h \in q.applies_if : \E t \in h.all : d \in ToSet(t)
    BY DEF PremiseConditions
  <2>2. PICK t \in h.all : d \in ToSet(t)
    BY <2>1
  <2>3. r.applies_if # {}
    BY CanonicalRules
  <2>4. PICK g : r.applies_if = {g}
    BY <2>3 DEF ShapedGroups
  <2>5. OneSided(g) /\ SameSides(h, g) /\ OneSided(h)
    BY <1>1, <2>4
  <2>6. PICK s : g.all = {s} /\ g.any = {}
    BY <2>2, <2>5 DEF OneSided, SameSides
  <2>7. DOMAIN t = DOMAIN s /\ \A i \in DOMAIN s : t[i] \in CanonicalGroup(s[i])
    BY <2>2, <2>5, <2>6 DEF SameSides
  <2>8. PICK i \in DOMAIN s : d = t[i]
    BY <2>2, <2>7 DEF ToSet
  <2>9. ~ IsGroup(d) /\ (d.operator = "==" \/ (d.operator = "in" /\ IsList(d.value)))
    BY DEF PremiseConditions
  <2>10. ~ IsGroup(s[i]) /\ IsCond(s[i]) /\ d \in CanonicalCondition(s[i])
    BY <1>2, <2>4, <2>6, <2>7, <2>8, <2>9
  <2>11. s[i].operator = "==" \/ (s[i].operator = "in" /\ IsList(s[i].value))
    BY <1>3, <2>9, <2>10
  <2>12. s[i] \in UNION { ToSet(z) : z \in UNION { x.all : x \in r.applies_if } }
    BY <2>4, <2>6 DEF ToSet
  <2>13. s[i] \in PremiseConditions(r)
    BY <2>10, <2>11, <2>12 DEF PremiseConditions
  <2> QED BY <2>10, <2>13
<1>5. ASSUME NEW c \in PremiseConditions(r)
      PROVE  \E d \in PremiseConditions(q) : IsCond(c) /\ d \in CanonicalCondition(c)
  <2>1. PICK g \in r.applies_if : \E s \in g.all : c \in ToSet(s)
    BY DEF PremiseConditions
  <2>2. PICK s \in g.all : c \in ToSet(s)
    BY <2>1
  <2>3. r.applies_if = {g} /\ OneSided(g)
    BY <2>1 DEF ShapedGroups
  <2>4. PICK h : q.applies_if = {h} /\ SameSides(h, g)
    BY <1>1, <2>3
  <2>5. g.all = {s} /\ g.any = {}
    BY <2>2, <2>3 DEF OneSided
  <2>6. PICK t : /\ h.all = {t} /\ DOMAIN t = DOMAIN s
                 /\ \A i \in DOMAIN s : t[i] \in CanonicalGroup(s[i])
    BY <2>4, <2>5 DEF SameSides
  <2>7. PICK i \in DOMAIN s : c = s[i]
    BY <2>2 DEF ToSet
  <2>8. ~ IsGroup(c) /\ (c.operator = "==" \/ (c.operator = "in" /\ IsList(c.value)))
    BY DEF PremiseConditions
  <2>9. ~ IsGroup(t[i]) /\ IsCond(c) /\ t[i] \in CanonicalCondition(c)
    BY <1>2, <2>3, <2>5, <2>6, <2>7, <2>8
  <2>10. t[i].operator = "==" \/ (t[i].operator = "in" /\ IsList(t[i].value))
    BY <1>3, <2>8, <2>9
  <2>11. t[i] \in UNION { ToSet(z) : z \in UNION { x.all : x \in q.applies_if } }
    BY <2>4, <2>6 DEF ToSet
  <2>12. t[i] \in PremiseConditions(q)
    BY <2>9, <2>10, <2>11 DEF PremiseConditions
  <2> QED BY <2>9, <2>12
<1> QED BY <1>4, <1>5

LEMMA KeptWords ==
  ASSUME NEW c, IsCond(c), NEW d \in CanonicalCondition(c),
         d.operator = "==" \/ (d.operator = "in" /\ IsList(d.value)), Words(d)
  PROVE  Words(c) /\ d.field = c.field /\ d.operator = c.operator /\ d.value = c.value
<1>1. d.field = c.field /\ d.operator = c.operator /\ d.value \in CanonicalScalar(c.value)
  BY CanonicalConditions
<1>2. Words(c) /\ d.value = c.value
  BY <1>1, WordsAreKept
<1> QED BY <1>1, <1>2


LEMMA EncodedRules ==
  ASSUME NEW source, NEW rules \in EncodeRules(source)
  PROVE  /\ DOMAIN rules = DOMAIN source
         /\ \A i \in DOMAIN source : rules[i] \in CanonicalRule(source[i])
<1> DEFINE encoded == [i \in DOMAIN source |-> CanonicalRule(source[i])]
<1>1. rules \in AllOf(encoded)
  BY Zenon DEF EncodeRules
<1>2. rules = [i \in DOMAIN encoded |-> rules[i]] /\ \A i \in DOMAIN encoded : rules[i] \in encoded[i]
  <2> HIDE DEF encoded
  <2> QED BY <1>1, AllOfMembers
<1> QED BY <1>2

LEMMA StoredIsOne ==
  ASSUME PipelineInv
  PROVE  \A a, b \in StoredRules : a = b
<1> SUFFICES ASSUME NEW a \in StoredRules, NEW b \in StoredRules PROVE a = b
  OBVIOUS
<1>1. PICK s \in Compiled : a \in EncodeRules(s)
  BY DEF PipelineInv, StoredIsCompiled
<1>2. PICK z \in Compiled : b \in EncodeRules(z)
  BY DEF PipelineInv, StoredIsCompiled
<1>3. s = z
  BY CompiledIsOne DEF PipelineInv
<1>4. \A y : \A u, v \in AllOf(y) : u = v
  BY DEF AllOf
<1>5. \A u, v \in EncodeRules(s) : u = v
  BY <1>4, Zenon DEF EncodeRules
<1> QED BY <1>1, <1>2, <1>3, <1>5

LEMMA LeavesAreKept ==
  ASSUME NEW tree, Shallow(tree), NEW t \in CanonicalEntry(tree)
  PROVE  /\ IsLeaf(t) <=> IsLeaf(tree)
         /\ IsLeaf(tree) => t = tree
<1> DEFINE f == [z \in Parts(tree) |-> CanonicalEntry(z)]
<1>1. t \in CanonicalEntryBody(tree, f)
  BY CanonicalEntryUnfolds
<1> HIDE DEF f
<1>2. CASE IsLeaf(tree)
  BY <1>1, <1>2 DEF CanonicalEntryBody, CanonicalLeaf
<1>3. CASE ~ IsLeaf(tree)
  <2>1. t \in CanonicalNode(tree, f[tree.true_branch], f[tree.false_branch])
    BY <1>1, <1>3, Zenon DEF CanonicalEntryBody
  <2>2. "true_branch" \in DOMAIN t
    BY <2>1 DEF CanonicalNode
  <2> QED BY <1>3, <2>2 DEF IsLeaf
<1> QED BY <1>2, <1>3

LEMMA LeavesEndAtOnce ==
  ASSUME NEW x, Shallow(x), IsLeaf(x), NEW facts
  PROVE  /\ Walk(x, facts) = [leaf |-> x, path |-> <<>>]
         /\ CollectPaths(x) = {LeafPath(x)}
<1>1. Walk(x, facts) = WalkBody(x, facts, [z \in Parts(x) |-> Walk(z, facts)])
  BY WalkUnfolds
<1>2. CollectPaths(x) = CollectPathsBody(x, [z \in Parts(x) |-> CollectPaths(z)])
  BY CollectPathsUnfolds
<1> QED BY <1>1, <1>2, Zenon DEF WalkBody, CollectPathsBody

(* Leaves with different results contradict each other.                    *)
LEMMA LeavesContradict ==
  ASSUME NEW a, NEW b, NEW x, NEW y,
         a.decision_paths = {LeafPath(x)}, b.decision_paths = {LeafPath(y)},
         x.result # y.result
  PROVE  Contradiction(a, b) /\ a.decision_paths # b.decision_paths
<1> DEFINE p == LeafPath(x)
           q == LeafPath(y)
<1>1. /\ p.branches = <<>> /\ q.branches = <<>>
      /\ p.outcome.result # q.outcome.result
  BY DEF LeafPath
<1> HIDE DEF p, q
<1>2. DOMAIN <<>> = {} /\ ToSet(<<>>) = {}
  BY DEF ToSet
<1>3. PathsConsistent(p, q) /\ SharedScenario(p, q)
  BY <1>1, <1>2 DEF PathsConsistent, SharedScenario
<1>4. p \in a.decision_paths /\ q \in b.decision_paths /\ p # q
  BY <1>1 DEF p, q
<1>5. Contradiction(a, b)
  BY <1>1, <1>3, <1>4 DEF Contradiction
<1>6. p \notin b.decision_paths
  BY <1>4 DEF p, q
<1> QED BY <1>4, <1>5, <1>6

(* What is stored overlaps where its source does.                          *)
LEMMA KeptScopesOverlap ==
  ASSUME NEW ra, NEW rb, DOMAIN ra = RuleFields, DOMAIN rb = RuleFields,
         ShapedGroups(ra), ShapedGroups(rb),
         NEW qa \in CanonicalRule(ra), NEW qb \in CanonicalRule(rb),
         SharedByWords(qa, qb), NEW facts,
         \A d \in PremiseConditions(qa) \cup PremiseConditions(qb) : Holds(d, facts)
  PROVE  ScopesOverlap(ExtractPremises(ra), ExtractPremises(rb))
<1> DEFINE Fields(r) == { c.field : c \in PremiseConditions(r) }
           shared == Fields(qa) \cap Fields(qb)
<1>1. /\ \A d \in PremiseConditions(qa) : \E c \in PremiseConditions(ra) :
           IsCond(c) /\ d \in CanonicalCondition(c)
      /\ \A c \in PremiseConditions(ra) : \E d \in PremiseConditions(qa) :
           IsCond(c) /\ d \in CanonicalCondition(c)
  BY PremisesAreKept
<1>2. /\ \A d \in PremiseConditions(qb) : \E c \in PremiseConditions(rb) :
           IsCond(c) /\ d \in CanonicalCondition(c)
      /\ \A c \in PremiseConditions(rb) : \E d \in PremiseConditions(qb) :
           IsCond(c) /\ d \in CanonicalCondition(c)
  BY PremisesAreKept
<1>3. \A c : IsCond(c) => \A d \in CanonicalCondition(c) : d.field = c.field
  BY CanonicalConditions
<1>4. Fields(ra) = Fields(qa) /\ Fields(rb) = Fields(qb)
  BY <1>1, <1>2, <1>3
<1>5. shared # {} /\ \A d \in PremiseConditions(qa) \cup PremiseConditions(qb) :
                       d.field \in shared => Words(d)
  BY DEF SharedByWords, Words
<1> HIDE DEF shared
<1>6. ASSUME NEW c \in PremiseConditions(ra) \cup PremiseConditions(rb), c.field \in shared
      PROVE  Words(c) /\ Holds(c, facts)
  <2>1. PICK d \in PremiseConditions(qa) \cup PremiseConditions(qb) :
          IsCond(c) /\ d \in CanonicalCondition(c)
    BY <1>1, <1>2
  <2>2. d.field = c.field /\ Words(d)
    BY <1>3, <1>5, <1>6, <2>1
  <2>3. d.operator = "==" \/ (d.operator = "in" /\ IsList(d.value))
    BY DEF PremiseConditions
  <2>4. Words(c) /\ d.operator = c.operator /\ d.value = c.value
    BY <2>1, <2>2, <2>3, KeptWords
  <2>5. Holds(d, facts)
    OBVIOUS
  <2> QED BY <2>2, <2>4, <2>5, Zenon DEF Holds
<1>7. ASSUME NEW f \in shared
      PROVE  ExtractPremises(ra)[f] \cap ExtractPremises(rb)[f] # {}
  <2>1. PICK c \in PremiseConditions(ra) : c.field = f
    BY <1>4 DEF shared
  <2>2. PICK d \in PremiseConditions(rb) : d.field = f
    BY <1>4 DEF shared
  <2> DEFINE word == PythonStrFact(Lookup(facts, f))
  <2>3. word \in Allowed(c) /\ word \in Allowed(d)
    <3>1. /\ c.operator = "==" \/ (c.operator = "in" /\ IsList(c.value))
          /\ d.operator = "==" \/ (d.operator = "in" /\ IsList(d.value))
      BY DEF PremiseConditions
    <3>2. Words(c) /\ Holds(c, facts) /\ Words(d) /\ Holds(d, facts)
      BY <1>6, <1>7, <2>1, <2>2
    <3> QED BY <2>1, <2>2, <3>1, <3>2, PremisesAllowTheFact
  <2>4. word \in ExtractPremises(ra)[f] /\ word \in ExtractPremises(rb)[f]
    BY <2>1, <2>2, <2>3, PremisesAreExtracted
  <2> QED BY <2>4
<1>8. DOMAIN ExtractPremises(ra) \cap DOMAIN ExtractPremises(rb) = shared
  BY <1>4, PremisesAreExtracted DEF shared
<1>9. shared # {}
  BY <1>5
<1> QED BY <1>7, <1>8, <1>9 DEF ScopesOverlap

LEMMA StoredLeavesAgree ==
  ASSUME doc \in Documents \cup IntentDocuments,
         NEW source \in Compiled, ~ HasBlocking(Verify(source)),
         NEW rules \in EncodeRules(source),
         NEW i \in DOMAIN rules, NEW j \in DOMAIN rules, i < j,
         SharedByWords(rules[i], rules[j]),
         IsLeaf(rules[i].decision_tree), IsLeaf(rules[j].decision_tree), NEW facts,
         Evaluate(rules[i], facts).applicable, Evaluate(rules[j], facts).applicable
  PROVE  Evaluate(rules[i], facts).decision = Evaluate(rules[j], facts).decision
<1>1. /\ DOMAIN rules = DOMAIN source
      /\ rules[i] \in CanonicalRule(source[i]) /\ rules[j] \in CanonicalRule(source[j])
  BY EncodedRules
<1>2. \A k \in DOMAIN source : DOMAIN source[k] = RuleFields /\ ShapedGroups(source[k])
  BY CompiledFields, CompiledGroups DEF ShapedGroups, Compiled
<1>3. ShapedGroups(rules[i]) /\ ShapedGroups(rules[j])
  BY <1>1, <1>2, CanonicalRulesAreShaped
<1>4. /\ Applicability(rules[i].applies_if, facts).holds
      /\ Applicability(rules[j].applies_if, facts).holds
  BY EvaluateApplies
<1>5. \A d \in PremiseConditions(rules[i]) \cup PremiseConditions(rules[j]) : Holds(d, facts)
  BY <1>3, <1>4, PremisesHold DEF ShapedGroups
<1>6. ScopesOverlap(ExtractPremises(source[i]), ExtractPremises(source[j]))
  BY <1>1, <1>2, <1>5, KeptScopesOverlap
<1> DEFINE x == source[i].decision_tree
           y == source[j].decision_tree
<1>7. Shallow(x) /\ Shallow(y)
  BY <1>1, CompiledTrees DEF TreeShape, Compiled
<1>8. /\ IsLeaf(x) /\ rules[i].decision_tree = x
      /\ IsLeaf(y) /\ rules[j].decision_tree = y
  <2>1. rules[i].decision_tree \in CanonicalEntry(x) /\ rules[j].decision_tree \in CanonicalEntry(y)
    BY <1>1, <1>2, CanonicalRules
  <2> QED BY <1>7, <2>1, LeavesAreKept
<1>9. /\ Walk(x, facts).leaf = x /\ CollectPaths(x) = {LeafPath(x)}
      /\ Walk(y, facts).leaf = y /\ CollectPaths(y) = {LeafPath(y)}
  <2>1. /\ Walk(x, facts) = [leaf |-> x, path |-> <<>>] /\ CollectPaths(x) = {LeafPath(x)}
        /\ Walk(y, facts) = [leaf |-> y, path |-> <<>>] /\ CollectPaths(y) = {LeafPath(y)}
    BY <1>7, <1>8, LeavesEndAtOnce
  <2> HIDE DEF x, y
  <2> QED BY <2>1
<1>10. /\ Evaluate(rules[i], facts).decision = {x.result}
       /\ Evaluate(rules[j], facts).decision = {y.result}
  BY <1>8, <1>9, EvaluateWalks
<1>11. SUFFICES ASSUME x.result # y.result PROVE FALSE
  BY <1>10
<1> DEFINE a == SemanticRule(source[i])
           b == SemanticRule(source[j])
<1>12. a.decision_paths = {LeafPath(x)} /\ b.decision_paths = {LeafPath(y)}
  BY <1>9 DEF SemanticRule
<1> HIDE DEF x, y
<1>13. Contradiction(a, b) /\ a.decision_paths # b.decision_paths
  BY <1>11, <1>12, LeavesContradict
<1>14. "ContradictoryOutcome" \in Between(source[i], source[j])
  BY <1>6, <1>13 DEF Between
<1>15. [class |-> "ContradictoryOutcome", pair |-> <<i, j>>] \in DetectConflicts(source)
  BY <1>1, <1>14, ConflictsAreBetween
<1>16. \E c \in Verify(source).conflicts : DefaultSeverity(c.class) = "Blocking"
  <2>1. Verify(source).conflicts = DetectConflicts(source)
    BY DEF Verify
  <2>2. DefaultSeverity("ContradictoryOutcome") = "Blocking"
    BY DEF DefaultSeverity
  <2> QED BY <1>15, <2>1, <2>2
<1> QED BY <1>16 DEF HasBlocking

LEMMA SharedByWordsIsSymmetric ==
  \A a, b : SharedByWords(a, b) => SharedByWords(b, a)
<1> TAKE a, b
<1> HAVE SharedByWords(a, b)
<1>1. /\ { c.field : c \in PremiseConditions(a) } \cap { c.field : c \in PremiseConditions(b) } # {}
      /\ \A c \in PremiseConditions(a) \cup PremiseConditions(b) :
           c.field \in { d.field : d \in PremiseConditions(a) } \cap
                       { d.field : d \in PremiseConditions(b) } => Words(c)
  BY DEF SharedByWords, Words
<1> QED BY <1>1 DEF SharedByWords, Words

(* What was stored never decides one case in two ways, whatever the facts: *)
(* of two stored rules without branches that both apply, one would have    *)
(* been refused had they decided differently (t4.rs detect_conflicts,      *)
(* severity.rs default_severity).                                          *)
THEOREM StoredRulesAgree == Spec => []NoContradictionIsStored
<1>1. PipelineInv => NoContradictionIsStored
  <2> SUFFICES ASSUME PipelineInv, answer.what = "evaluations", answer.from = "hash",
                      NEW rules \in StoredRules,
                      NEW i \in DOMAIN rules, NEW j \in DOMAIN rules,
                      SharedByWords(rules[i], rules[j]),
                      IsLeaf(rules[i].decision_tree), IsLeaf(rules[j].decision_tree),
                      answer.evaluations[i].applicable, answer.evaluations[j].applicable
               PROVE  answer.evaluations[i].decision = answer.evaluations[j].decision
    BY DEF NoContradictionIsStored
  <2> DEFINE facts == answer.facts
  <2>1. EvaluatesAll(answer.evaluations, rules, facts)
    BY StoredIsOne DEF PipelineInv, AnswerIsOurs
  <2>2. /\ answer.evaluations[i] = Evaluate(rules[i], facts)
        /\ answer.evaluations[j] = Evaluate(rules[j], facts)
    BY <2>1 DEF EvaluatesAll
  <2> HIDE DEF facts
  <2>3. PICK source \in Compiled : /\ ~ HasBlocking(Verify(source))
                                   /\ rules \in EncodeRules(source)
    BY DEF PipelineInv, StoredIsCompiled
  <2>4. PICK n \in Nat : DOMAIN rules = 1 .. n
    BY <2>3, EncodedRules, CompiledRules DEF PipelineInv, Compiled
  <2>5. CASE i < j
    BY <2>2, <2>3, <2>5, StoredLeavesAgree DEF PipelineInv
  <2>6. CASE j < i
    BY <2>2, <2>3, <2>6, StoredLeavesAgree, SharedByWordsIsSymmetric DEF PipelineInv
  <2>7. CASE i = j
    BY <2>7
  <2>8. i < j \/ j < i \/ i = j
    BY <2>4
  <2> QED BY <2>5, <2>6, <2>7, <2>8
<1>2. Spec => []PipelineInv
  BY PipelineInvariance
<1> QED BY <1>1, <1>2, PTL

-----------------------------------------------------------------------------
(* What stored rules mean.                                                 *)

(* A canonical decimal has nothing to strip.                               *)
LEMMA StrippedIsStripped ==
  ASSUME NEW m \in Int, NEW e \in Nat, DecimalIsCanonical(m, e)
  PROVE  Stripped(m, e) = <<m, e>>
<1>1. CASE m = 0
  <2>1. e = 0
    BY <1>1 DEF DecimalIsCanonical
  <2> QED BY <1>1, <2>1, Zenon DEF Stripped
<1>2. CASE m # 0
  <2> DEFINE Drop(s) == IF s[2] > 0 /\ s[1] % 10 = 0 THEN <<s[1] \div 10, s[2] - 1>> ELSE s
             Body(h) == [k \in 0 .. e |-> IF k = 0 THEN <<m, e>> ELSE Drop(h[k - 1])]
             F == CHOOSE h : h = Body(h)
             f == [k \in 0 .. e |-> <<m, e>>]
  <2>1. Drop(<<m, e>>) = <<m, e>>
    BY <1>2 DEF DecimalIsCanonical
  <2> HIDE DEF Drop
  <2>2. \A k \in 0 .. e : k # 0 => k - 1 \in 0 .. e
    OBVIOUS
  <2>3. f = Body(f)
    BY <2>1, <2>2
  <2>4. F = Body(F)
    <3> HIDE DEF Body
    <3> QED BY <2>3, Zenon
  <2> DEFINE S == {k \in Nat : k <= e => F[k] = <<m, e>>}
  <2>5. \A k \in 0 .. e : F[k] = IF k = 0 THEN <<m, e>> ELSE Drop(F[k - 1])
    BY <2>4
  <2> HIDE DEF F
  <2>6. 0 \in S
    BY <2>5
  <2>7. ASSUME NEW k \in Nat, k \in S PROVE k + 1 \in S
    <3> SUFFICES ASSUME k + 1 <= e PROVE F[k + 1] = <<m, e>>
      OBVIOUS
    <3>1. k + 1 \in 0 .. e /\ k + 1 # 0 /\ (k + 1) - 1 = k /\ k <= e
      OBVIOUS
    <3>2. F[k] = <<m, e>>
      BY <2>7, <3>1
    <3>3. F[k + 1] = Drop(F[k])
      BY <2>5, <3>1
    <3> QED BY <2>1, <3>2, <3>3
  <2> HIDE DEF S
  <2>8. Nat \subseteq S
    BY <2>6, <2>7, NatSetInduction
  <2>9. F[e] = <<m, e>>
    BY <2>8 DEF S
  <2>10. Stripped(m, e) = F[e]
    BY <1>2, Zenon DEF Stripped, Drop, F
  <2> QED BY <2>9, <2>10
<1> QED BY <1>1, <1>2

LEMMA SemValueLocal ==
  ASSUME NEW x, NEW f, NEW g, \A z \in Below(x) : f[z] = g[z]
  PROVE  SemPart(x, f) = SemPart(x, g)
<1>1. CASE IsList(x)
  <2>1. \A i \in DOMAIN x.list : x.list[i] \in Below(x)
    BY <1>1, ItemsAreInside, InsideIsBelow DEF IsList
  <2> DEFINE F == [i \in DOMAIN x.list |-> f[x.list[i]]]
             G == [i \in DOMAIN x.list |-> g[x.list[i]]]
  <2>2. F = G
    BY <2>1
  <2>3. SemPart(x, f) = [list |-> ToBag(F)] /\ SemPart(x, g) = [list |-> ToBag(G)]
    BY <1>1 DEF SemPart, IsDecimal, IsList
  <2> QED BY <2>2, <2>3
<1>2. CASE ~ IsList(x)
  BY <1>2 DEF SemPart
<1> QED BY <1>1, <1>2

LEMMA SemValueExists ==
  ASSUME NEW r, Shallow(r)
  PROVE  \E f : f = [x \in Parts(r) |-> SemPart(x, f)]
<1> DEFINE S == {n \in Nat : n <= MaxDepth + 1
                   => \E f : f = [x \in Lower(r, n) |-> SemPart(x, f)]}
<1>1. 0 \in S
  <2> DEFINE f == [x \in Lower(r, 0) |-> SemPart(x, <<>>)]
  <2>1. f = [x \in Lower(r, 0) |-> SemPart(x, f)]
    BY LowerGrows
  <2> QED BY <2>1, Zenon
<1>2. ASSUME NEW n \in Nat, n \in S PROVE n + 1 \in S
  <2> SUFFICES ASSUME n + 1 <= MaxDepth + 1
               PROVE  \E f : f = [x \in Lower(r, n + 1) |-> SemPart(x, f)]
    OBVIOUS
  <2>1. n <= MaxDepth /\ n <= MaxDepth + 1
    BY DepthAssumption
  <2>2. PICK f : f = [x \in Lower(r, n) |-> SemPart(x, f)]
    BY <1>2, <2>1
  <2> DEFINE g == [x \in Lower(r, n + 1) |-> SemPart(x, f)]
  <2>3. \A x \in Lower(r, n) : f[x] = SemPart(x, f)
    BY <2>2, Zenon
  <2>4. Lower(r, n) \subseteq Lower(r, n + 1)
    BY <2>1, LowerOnLower
  <2>5. \A x \in Lower(r, n) : g[x] = f[x]
    BY <2>3, <2>4
  <2>6. ASSUME NEW x \in Lower(r, n + 1) PROVE SemPart(x, f) = SemPart(x, g)
    <3>1. Below(x) \subseteq Lower(r, n)
      BY <2>1, LowerGrows
    <3> HIDE DEF g
    <3> QED BY <2>5, <3>1, SemValueLocal
  <2>7. g = [x \in Lower(r, n + 1) |-> SemPart(x, g)]
    BY <2>6
  <2> QED BY <2>7, Zenon
<1> HIDE DEF S
<1>3. Nat \subseteq S
  BY <1>1, <1>2, NatSetInduction
<1>4. \E f : f = [x \in Lower(r, MaxDepth + 1) |-> SemPart(x, f)]
  BY <1>3, DepthAssumption DEF S
<1> QED BY <1>4, LowerGrows

LEMMA SemValueUnfolds ==
  ASSUME NEW r, Shallow(r)
  PROVE  SemValue(r) = SemPart(r, [z \in Parts(r) |-> SemValue(z)])
<1> DEFINE F(x) == CHOOSE f : f = [z \in Parts(x) |-> SemPart(z, f)]
<1>1. ASSUME NEW x, Shallow(x)
      PROVE  /\ SemValue(x) = F(x)[x]
             /\ \A z \in Parts(x) : F(x)[z] = SemPart(z, F(x))
  <2>1. SemValue(x) = F(x)[x]
    BY Zenon DEF SemValue
  <2>2. \E f : f = [z \in Parts(x) |-> SemPart(z, f)]
    BY <1>1, SemValueExists
  <2>3. F(x) = [z \in Parts(x) |-> SemPart(z, F(x))]
    BY <2>2, Zenon
  <2> HIDE DEF F
  <2> QED BY <2>1, <2>3
<1> HIDE DEF F
<1>2. ASSUME NEW z \in Parts(r) PROVE F(r)[z] = SemValue(z)
  <2>1. Shallow(z) /\ Parts(z) \subseteq Parts(r)
    BY PartsAreClosed
  <2>2. ASSUME NEW y \in Parts(z), \A w \in Below(y) : F(r)[w] = F(z)[w]
        PROVE  F(r)[y] = F(z)[y]
    <3>1. F(r)[y] = SemPart(y, F(r)) /\ F(z)[y] = SemPart(y, F(z))
      BY <1>1, <2>1
    <3> QED BY <2>2, <3>1, SemValueLocal
  <2>3. z \in Parts(z)
    BY <2>1, PartsAreClosed
  <2>4. F(r)[z] = F(z)[z]
    BY <2>1, <2>2, <2>3, NestedAgree
  <2> QED BY <1>1, <2>1, <2>4
<1>3. r \in Parts(r) /\ Below(r) \subseteq Parts(r)
  BY PartsAreClosed
<1>4. \A z \in Below(r) : F(r)[z] = [y \in Parts(r) |-> SemValue(y)][z]
  BY <1>2, <1>3
<1>5. SemPart(r, F(r)) = SemPart(r, [z \in Parts(r) |-> SemValue(z)])
  BY <1>4, SemValueLocal
<1> QED BY <1>1, <1>3, <1>5

(* The canonical form of a value is a valid one, and means what it did.    *)
LEMMA CanonicalValuesMean ==
  ASSUME NEW r, IsValue(r)
  PROVE  \A v \in Parts(r) : \A u \in CanonicalScalar(v) :
           ScalarValid(u) /\ SemValue(u) = SemValue(v)
<1> DEFINE Good(v, u) == ScalarValid(u) /\ SemValue(u) = SemValue(v)
           S == {v \in Parts(r) : \A u \in CanonicalScalar(v) : Good(v, u)}
<1>1. Shallow(r)
  BY DEF IsValue
<1>2. ASSUME NEW v \in Parts(r), Below(v) \subseteq S PROVE v \in S
  <2> SUFFICES ASSUME NEW u \in CanonicalScalar(v) PROVE Good(v, u)
    OBVIOUS
  <2>1. Shallow(v) /\ ValuePart(v)
    BY <1>1, PartsAreClosed DEF IsValue
  <2>2. IsValue(u) /\ Shallow(u)
    BY CanonicalValues DEF IsValue
  <2>3. \A x : Shallow(x) => SemValue(x) = SemPart(x, [z \in Parts(x) |-> SemValue(z)])
    BY SemValueUnfolds
  <2>4. CASE ~ IsList(v)
    <3>1. /\ SameKind(u, v) /\ ValuePart(u)
          /\ IsStr(v) => u = v /\ IsNfc(v.str)
          /\ IsBool(v) => u = v
          /\ IsDecimal(v) => u = Decimal(Stripped(v.m, v.e)[1], Stripped(v.m, v.e)[2])
      BY <2>1, <2>4, CanonicalAtoms
    <3>2. IsStr(u) \/ IsBool(u) \/ IsDecimal(u)
      BY <2>1, <2>4, <3>1 DEF SameKind, ValuePart
    <3>3. Parts(u) = {u}
      BY <3>2, AtomsHoldNothing, NothingInside
    <3>4. CASE IsStr(v)
      <4>1. u = v /\ IsNfc(u.str) /\ ~ IsDecimal(u)
        BY <3>1, <3>4 DEF IsStr, IsDecimal
      <4> QED BY <3>3, <4>1 DEF ScalarValid
    <3>5. CASE IsBool(v)
      <4>1. u = v /\ ~ IsStr(u) /\ ~ IsDecimal(u)
        BY <3>1, <3>5 DEF IsBool, IsStr, IsDecimal
      <4> QED BY <3>3, <4>1 DEF ScalarValid
    <3>6. CASE IsDecimal(v)
      <4> DEFINE s == Stripped(v.m, v.e)
      <4>1. v.m \in Int /\ v.e \in Nat
        BY <2>1, <3>6 DEF ValuePart, IsStr, IsBool, IsDecimal, IsList
      <4>2. s \in Int \X Nat /\ DecimalIsCanonical(s[1], s[2])
        BY <4>1, StrippedIsExact
      <4>3. u = Decimal(s[1], s[2])
        BY <3>1, <3>6
      <4> HIDE DEF s
      <4>4. u.m = s[1] /\ u.e = s[2] /\ IsDecimal(u) /\ ~ IsStr(u)
        BY <4>3 DEF Decimal, IsDecimal, IsStr
      <4>5. ScalarValid(u)
        BY <3>3, <4>2, <4>4 DEF ScalarValid
      <4>6. \A x, f : IsDecimal(x) => SemPart(x, f) = [num |-> NormDecimal(x.m, x.e)]
        BY DEF SemPart, IsDecimal, IsList
      <4>7. SemValue(v) = [num |-> NormDecimal(v.m, v.e)]
            /\ SemValue(u) = [num |-> NormDecimal(s[1], s[2])]
        BY <2>1, <2>2, <2>3, <3>6, <4>4, <4>6
      <4>8. NormDecimal(v.m, v.e) = s
        BY <4>1 DEF NormDecimal, s
      <4>9. s[1] \in Int /\ s[2] \in Nat /\ s = <<s[1], s[2]>>
        BY <4>2
      <4>10. NormDecimal(s[1], s[2]) = Stripped(s[1], s[2])
        BY <4>9 DEF NormDecimal
      <4>11. Stripped(s[1], s[2]) = s
        BY <4>2, <4>9, StrippedIsStripped
      <4> QED BY <4>5, <4>7, <4>8, <4>10, <4>11
    <3> QED BY <2>1, <2>4, <3>4, <3>5, <3>6 DEF ValuePart
  <2>5. CASE IsList(v)
    <3>1. IsASeq(v.list)
      BY <2>1, <2>5 DEF ValuePart, IsStr, IsBool, IsDecimal, IsList
    <3>2. /\ SameKind(u, v)
          /\ DOMAIN u.list = DOMAIN v.list
          /\ \A i \in DOMAIN v.list : u.list[i] \in CanonicalScalar(v.list[i])
      BY <2>1, <2>5, <3>1, CanonicalLists
    <3>3. IsList(u)
      BY <2>5, <3>2 DEF SameKind
    <3>4. \A i \in DOMAIN v.list : v.list[i] \in Below(v) /\ v.list[i] \in Parts(v)
      <4>1. \A i \in DOMAIN v.list : v.list[i] \in Inside(v)
        BY <2>5, ItemsAreInside DEF IsList
      <4> QED BY <2>1, <4>1, InsideIsBelow, PartsAreClosed
    <3>5. \A i \in DOMAIN v.list : Good(v.list[i], u.list[i])
      BY <1>2, <3>2, <3>4
    <3>6. \A i \in DOMAIN u.list : u.list[i] \in Parts(u)
      <4>1. \A i \in DOMAIN u.list : u.list[i] \in Inside(u)
        BY <3>3, ItemsAreInside DEF IsList
      <4> QED BY <2>2, <4>1, PartsAreClosed
    <3> DEFINE f == [z \in Parts(v) |-> SemValue(z)]
               h == [z \in Parts(u) |-> SemValue(z)]
               F == [i \in DOMAIN v.list |-> f[v.list[i]]]
               H == [i \in DOMAIN u.list |-> h[u.list[i]]]
    <3>7. F = H
      <4>1. \A i \in DOMAIN v.list : f[v.list[i]] = h[u.list[i]]
        BY <3>2, <3>4, <3>5, <3>6
      <4> HIDE DEF f, h
      <4> QED BY <3>2, <4>1
    <3>8. SemValue(v) = [list |-> ToBag(F)] /\ SemValue(u) = [list |-> ToBag(H)]
      <4>1. SemValue(v) = SemPart(v, f) /\ SemValue(u) = SemPart(u, h)
        BY <2>1, <2>2, <2>3
      <4> HIDE DEF f, h
      <4> QED BY <2>5, <3>3, <4>1 DEF SemPart, IsDecimal, IsList
    <3> HIDE DEF f, h
    <3>9. SemValue(u) = SemValue(v)
      BY <3>7, <3>8
    <3>10. \A z \in Inside(u) : ScalarValid(z)
      <4>1. Inside(u) = ToSet(u.list)
        BY <3>3, ListsHoldTheirItems
      <4> QED BY <3>2, <3>5, <4>1 DEF ToSet
    <3>11. ScalarValid(u)
      <4>1. ~ IsStr(u) /\ ~ IsDecimal(u)
        BY <3>3 DEF IsList, IsStr, IsDecimal
      <4>2. Parts(u) = {u} \cup Below(u)
        BY <2>2, PartsAndBelow
      <4> QED BY <3>10, <4>1, <4>2 DEF ScalarValid, Below
    <3> QED BY <3>9, <3>11
  <2> QED BY <2>4, <2>5
<1> HIDE DEF S
<1>3. Parts(r) \subseteq S
  BY <1>1, <1>2, NestingInduction
<1> QED BY <1>3 DEF S

LEMMA CanonicalConditionsMean ==
  ASSUME NEW c, IsCond(c), NEW d \in CanonicalCondition(c)
  PROVE  ConditionValid(d) /\ SemCond(d) = SemCond(c)
<1>1. /\ IsNfc(c.field) /\ d.field = c.field /\ d.operator = c.operator
      /\ d.value \in CanonicalScalar(c.value)
  BY CanonicalConditions
<1>2. c.value \in Parts(c.value)
  BY PartsAreClosed DEF IsCond, IsValue
<1>3. ScalarValid(d.value) /\ SemValue(d.value) = SemValue(c.value)
  BY <1>1, <1>2, CanonicalValuesMean DEF IsCond
<1> QED BY <1>1, <1>3 DEF ConditionValid, SemCond

SemMembers(opt, f) ==
  LET s == CHOOSE s \in opt : TRUE
  IN  ToBag([i \in DOMAIN s |-> f[s[i]]])

SemPredicateBody(x, f) ==
  IF ~ IsGroup(x) THEN SemCond(x)
  ELSE IF x.all # {} THEN [mode |-> "all", members |-> SemMembers(x.all, f)]
  ELSE IF x.any # {} THEN [mode |-> "any", members |-> SemMembers(x.any, f)]
  ELSE [mode |-> "all", members |-> EmptyBag]

LEMMA SemPredicateLocal ==
  ASSUME NEW x, NEW f, NEW g, \A z \in Below(x) : f[z] = g[z]
  PROVE  SemPredicateBody(x, f) = SemPredicateBody(x, g)
<1>1. CASE IsGroup(x)
  <2>1. ASSUME NEW opt \in {x.all, x.any}, opt # {} PROVE SemMembers(opt, f) = SemMembers(opt, g)
    <3> DEFINE s == CHOOSE s \in opt : TRUE
               F == [i \in DOMAIN s |-> f[s[i]]]
               G == [i \in DOMAIN s |-> g[s[i]]]
    <3>1. SemMembers(opt, f) = ToBag(F) /\ SemMembers(opt, g) = ToBag(G)
      BY Zenon DEF SemMembers
    <3>2. s \in x.all \cup x.any
      BY <2>1
    <3> HIDE DEF s
    <3>3. \A i \in DOMAIN s : f[s[i]] = g[s[i]]
      BY <1>1, <3>2, MembersAreInside DEF IsGroup
    <3>4. F = G
      BY <3>3
    <3> QED BY <3>1, <3>4, Zenon
  <2>2. CASE x.all # {}
    <3>1. SemMembers(x.all, f) = SemMembers(x.all, g)
      BY <2>1, <2>2
    <3> QED BY <1>1, <2>2, <3>1, Zenon DEF SemPredicateBody
  <2>3. CASE x.all = {} /\ x.any # {}
    <3>1. SemMembers(x.any, f) = SemMembers(x.any, g)
      BY <2>1, <2>3
    <3> QED BY <1>1, <2>3, <3>1, Zenon DEF SemPredicateBody
  <2>4. CASE x.all = {} /\ x.any = {}
    BY <1>1, <2>4, Zenon DEF SemPredicateBody
  <2> QED BY <2>2, <2>3, <2>4
<1>2. CASE ~ IsGroup(x)
  BY <1>2, Zenon DEF SemPredicateBody
<1> QED BY <1>1, <1>2

LEMMA SemPredicateExists ==
  ASSUME NEW r, Shallow(r)
  PROVE  \E f : f = [x \in Parts(r) |-> SemPredicateBody(x, f)]
<1> DEFINE S == {n \in Nat : n <= MaxDepth + 1
                   => \E f : f = [x \in Lower(r, n) |-> SemPredicateBody(x, f)]}
<1>1. 0 \in S
  <2> DEFINE f == [x \in Lower(r, 0) |-> SemPredicateBody(x, <<>>)]
  <2>1. f = [x \in Lower(r, 0) |-> SemPredicateBody(x, f)]
    BY LowerGrows
  <2> QED BY <2>1, Zenon
<1>2. ASSUME NEW n \in Nat, n \in S PROVE n + 1 \in S
  <2> SUFFICES ASSUME n + 1 <= MaxDepth + 1
               PROVE  \E f : f = [x \in Lower(r, n + 1) |-> SemPredicateBody(x, f)]
    OBVIOUS
  <2>1. n <= MaxDepth /\ n <= MaxDepth + 1
    BY DepthAssumption
  <2>2. PICK f : f = [x \in Lower(r, n) |-> SemPredicateBody(x, f)]
    BY <1>2, <2>1
  <2> DEFINE g == [x \in Lower(r, n + 1) |-> SemPredicateBody(x, f)]
  <2>3. \A x \in Lower(r, n) : f[x] = SemPredicateBody(x, f)
    BY <2>2, Zenon
  <2>4. Lower(r, n) \subseteq Lower(r, n + 1)
    BY <2>1, LowerOnLower
  <2>5. \A x \in Lower(r, n) : g[x] = f[x]
    BY <2>3, <2>4
  <2>6. ASSUME NEW x \in Lower(r, n + 1) PROVE SemPredicateBody(x, f) = SemPredicateBody(x, g)
    <3>1. Below(x) \subseteq Lower(r, n)
      BY <2>1, LowerGrows
    <3> HIDE DEF g
    <3> QED BY <2>5, <3>1, SemPredicateLocal
  <2>7. g = [x \in Lower(r, n + 1) |-> SemPredicateBody(x, g)]
    BY <2>6
  <2> QED BY <2>7, Zenon
<1> HIDE DEF S
<1>3. Nat \subseteq S
  BY <1>1, <1>2, NatSetInduction
<1>4. \E f : f = [x \in Lower(r, MaxDepth + 1) |-> SemPredicateBody(x, f)]
  BY <1>3, DepthAssumption DEF S
<1> QED BY <1>4, LowerGrows

LEMMA SemPredicateUnfolds ==
  ASSUME NEW r, Shallow(r)
  PROVE  SemPredicate(r) = SemPredicateBody(r, [z \in Parts(r) |-> SemPredicate(z)])
<1> DEFINE F(x) == CHOOSE f : f = [z \in Parts(x) |-> SemPredicateBody(z, f)]
<1>1. ASSUME NEW x, Shallow(x)
      PROVE  /\ SemPredicate(x) = F(x)[x]
             /\ \A z \in Parts(x) : F(x)[z] = SemPredicateBody(z, F(x))
  <2>1. SemPredicate(x) = F(x)[x]
    BY Zenon DEF SemPredicate, SemPredicateBody, SemMembers
  <2>2. \E f : f = [z \in Parts(x) |-> SemPredicateBody(z, f)]
    BY <1>1, SemPredicateExists
  <2>3. F(x) = [z \in Parts(x) |-> SemPredicateBody(z, F(x))]
    BY <2>2, Zenon
  <2> HIDE DEF F
  <2> QED BY <2>1, <2>3
<1> HIDE DEF F
<1>2. ASSUME NEW z \in Parts(r) PROVE F(r)[z] = SemPredicate(z)
  <2>1. Shallow(z) /\ Parts(z) \subseteq Parts(r)
    BY PartsAreClosed
  <2>2. ASSUME NEW y \in Parts(z), \A w \in Below(y) : F(r)[w] = F(z)[w]
        PROVE  F(r)[y] = F(z)[y]
    <3>1. F(r)[y] = SemPredicateBody(y, F(r)) /\ F(z)[y] = SemPredicateBody(y, F(z))
      BY <1>1, <2>1
    <3> QED BY <2>2, <3>1, SemPredicateLocal
  <2>3. z \in Parts(z)
    BY <2>1, PartsAreClosed
  <2>4. F(r)[z] = F(z)[z]
    BY <2>1, <2>2, <2>3, NestedAgree
  <2> QED BY <1>1, <2>1, <2>4
<1>3. r \in Parts(r) /\ Below(r) \subseteq Parts(r)
  BY PartsAreClosed
<1>4. \A z \in Below(r) : F(r)[z] = [y \in Parts(r) |-> SemPredicate(y)][z]
  BY <1>2, <1>3
<1>5. SemPredicateBody(r, F(r)) = SemPredicateBody(r, [z \in Parts(r) |-> SemPredicate(z)])
  BY <1>4, SemPredicateLocal
<1> QED BY <1>1, <1>3, <1>5

(* The meaning of a group's side, by the meanings of its members.          *)
LEMMA SemMembersOfSide ==
  ASSUME NEW s, NEW f
  PROVE  SemMembers({s}, f) = ToBag([i \in DOMAIN s |-> f[s[i]]])
<1>1. ASSUME NEW opt, NEW t, t = CHOOSE z \in opt : TRUE
      PROVE  SemMembers(opt, f) = ToBag([i \in DOMAIN t |-> f[t[i]]])
  BY <1>1 DEF SemMembers
<1>2. s = CHOOSE z \in {s} : TRUE
  OBVIOUS
<1> QED BY <1>1, <1>2

(* So is that of a group.                                                  *)
LEMMA CanonicalGroupsMean ==
  ASSUME NEW r, GroupShape(r)
  PROVE  \A g \in Parts(r) : \A h \in CanonicalGroup(g) :
           GroupValid(h) /\ SemPredicate(h) = SemPredicate(g)
<1> DEFINE Good(g, h) == GroupValid(h) /\ SemPredicate(h) = SemPredicate(g)
           S == {g \in Parts(r) : \A h \in CanonicalGroup(g) : Good(g, h)}
<1>1. Shallow(r)
  BY DEF GroupShape
<1>2. ASSUME NEW g \in Parts(r), Below(g) \subseteq S PROVE g \in S
  <2> SUFFICES ASSUME NEW h \in CanonicalGroup(g) PROVE Good(g, h)
    OBVIOUS
  <2>1. Shallow(g) /\ (IsCond(g) \/ OneSided(g))
    BY <1>1, PartsAreClosed DEF GroupShape
  <2>2. GroupShape(h) /\ Shallow(h)
    BY CanonicalGroups DEF GroupShape
  <2>3. \A x : Shallow(x) => SemPredicate(x) = SemPredicateBody(x, [z \in Parts(x) |-> SemPredicate(z)])
    BY SemPredicateUnfolds
  <2>4. CASE IsCond(g)
    <3>1. h \in CanonicalCondition(g) /\ ~ IsGroup(g)
      BY <2>1, <2>4, CondOrGroup, CanonicalGroupConditions
    <3>2. IsCond(h) /\ ~ IsGroup(h)
      BY <2>4, <3>1, CanonicalConditions, CondOrGroup
    <3>3. ConditionValid(h) /\ SemCond(h) = SemCond(g)
      BY <2>4, <3>1, CanonicalConditionsMean
    <3>4. Parts(h) = {h}
      BY <3>2, ConditionsHoldNothing, NothingInside
    <3>5. \A x, f : ~ IsGroup(x) => SemPredicateBody(x, f) = SemCond(x)
      BY Zenon DEF SemPredicateBody
    <3>6. SemPredicate(h) = SemCond(h) /\ SemPredicate(g) = SemCond(g)
      BY <2>1, <2>2, <2>3, <3>1, <3>2, <3>5
    <3> QED BY <3>3, <3>4, <3>6 DEF GroupValid
  <2>5. CASE OneSided(g)
    <3>1. OneSided(h) /\ SameSides(h, g)
      BY <2>1, <2>5, CanonicalGroupSides
    <3>2. PICK s : \/ g.all = {s} /\ g.any = {}
                   \/ g.all = {} /\ g.any = {s}
      BY <2>5, Zenon DEF OneSided
    <3>3. PICK t : /\ \/ g.all = {s} /\ g.any = {} /\ h.all = {t} /\ h.any = {}
                      \/ g.all = {} /\ g.any = {s} /\ h.all = {} /\ h.any = {t}
                   /\ DOMAIN t = DOMAIN s
                   /\ \A i \in DOMAIN s : t[i] \in CanonicalGroup(s[i])
      <4>1. CASE g.all = {s} /\ g.any = {}
        BY <3>1, <4>1 DEF SameSides
      <4>2. CASE g.all = {} /\ g.any = {s}
        BY <3>1, <4>2 DEF SameSides
      <4> QED BY <3>2, <4>1, <4>2
    <3>4. \A i \in DOMAIN s : s[i] \in Below(g) /\ s[i] \in Parts(g)
      <4>1. \A i \in DOMAIN s : s[i] \in Below(g)
        BY <2>5, <3>2, MembersAreInside DEF OneSided
      <4> QED BY <2>1, <4>1, PartsAreClosed
    <3>5. \A i \in DOMAIN s : Good(s[i], t[i])
      BY <1>2, <3>3, <3>4
    <3>6. \A i \in DOMAIN t : t[i] \in Parts(h)
      <4>1. \A i \in DOMAIN t : t[i] \in Below(h)
        BY <3>1, <3>3, MembersAreInside DEF OneSided
      <4> QED BY <2>2, <4>1, PartsAreClosed
    <3>7. IsGroup(h) /\ IsGroup(g)
      BY <2>5, <3>1, CondOrGroup
    <3> DEFINE f == [z \in Parts(g) |-> SemPredicate(z)]
               k == [z \in Parts(h) |-> SemPredicate(z)]
               F == [i \in DOMAIN s |-> f[s[i]]]
               K == [i \in DOMAIN t |-> k[t[i]]]
    <3>8. F = K
      <4>1. \A i \in DOMAIN s : f[s[i]] = k[t[i]]
        BY <3>3, <3>4, <3>5, <3>6
      <4> HIDE DEF f, k
      <4> QED BY <3>3, <4>1
    <3>9. SemPredicate(g) = SemPredicateBody(g, f) /\ SemPredicate(h) = SemPredicateBody(h, k)
      BY <2>1, <2>2, <2>3
    <3> HIDE DEF f, k
    <3>10. SemMembers({s}, f) = ToBag(F) /\ SemMembers({t}, k) = ToBag(K)
      BY SemMembersOfSide
    <3> HIDE DEF F, K
    <3>11. SemPredicate(h) = SemPredicate(g)
      <4>1. CASE g.all = {s} /\ g.any = {} /\ h.all = {t} /\ h.any = {}
        <5>1. g.all # {} /\ h.all # {}
          BY <4>1
        <5>2. SemPredicateBody(g, f) = [mode |-> "all", members |-> SemMembers({s}, f)]
          BY <3>7, <4>1, <5>1, Zenon DEF SemPredicateBody
        <5>3. SemPredicateBody(h, k) = [mode |-> "all", members |-> SemMembers({t}, k)]
          BY <3>7, <4>1, <5>1, Zenon DEF SemPredicateBody
        <5> QED BY <3>8, <3>9, <3>10, <5>2, <5>3
      <4>2. CASE g.all = {} /\ g.any = {s} /\ h.all = {} /\ h.any = {t}
        <5>1. g.any # {} /\ h.any # {}
          BY <4>2
        <5>2. SemPredicateBody(g, f) = [mode |-> "any", members |-> SemMembers({s}, f)]
          BY <3>7, <4>2, <5>1, Zenon DEF SemPredicateBody
        <5>3. SemPredicateBody(h, k) = [mode |-> "any", members |-> SemMembers({t}, k)]
          BY <3>7, <4>2, <5>1, Zenon DEF SemPredicateBody
        <5> QED BY <3>8, <3>9, <3>10, <5>2, <5>3
      <4> QED BY <3>3, <4>1, <4>2
    <3>12. \A z \in Inside(h) : GroupValid(z)
      <4> TAKE z \in Inside(h)
      <4>1. h.all \cup h.any = {t}
        BY <3>3
      <4>2. z \in ToSet(t)
        BY <3>1, <4>1, GroupsHoldTheirMembers
      <4> QED BY <3>3, <3>5, <4>2 DEF ToSet
    <3>13. GroupValid(h)
      <4>1. Parts(h) = {h} \cup Below(h)
        BY <2>2, PartsAndBelow
      <4> QED BY <3>7, <3>12, <4>1 DEF GroupValid, Below
    <3> QED BY <3>11, <3>13
  <2> QED BY <2>1, <2>4, <2>5
<1> HIDE DEF S
<1>3. Parts(r) \subseteq S
  BY <1>1, <1>2, NestingInduction
<1> QED BY <1>3 DEF S

(* A canonical node keeps its shape, and its branches are canonical.       *)
LEMMA CanonicalNodes ==
  ASSUME NEW x, IsNodeRecord(x), Shallow(x), NEW t \in CanonicalEntry(x)
  PROVE  /\ IsNodeRecord(t) /\ IsNfc(t.node_id)
         /\ t.condition \in CanonicalCondition(x.condition)
         /\ ConditionValid(t.condition) /\ SemCond(t.condition) = SemCond(x.condition)
         /\ t.true_branch \in CanonicalEntry(x.true_branch)
         /\ t.false_branch \in CanonicalEntry(x.false_branch)
<1> DEFINE f == [z \in Parts(x) |-> CanonicalEntry(z)]
<1>1. t \in CanonicalEntryBody(x, f)
  BY CanonicalEntryUnfolds
<1>2. ~ IsLeaf(x)
  BY DEF IsNodeRecord, IsLeaf
<1>3. x.true_branch \in Parts(x) /\ x.false_branch \in Parts(x)
  BY <1>2, BranchesAreBelow, PartsAreClosed
<1>4. f[x.true_branch] = CanonicalEntry(x.true_branch)
      /\ f[x.false_branch] = CanonicalEntry(x.false_branch)
  BY <1>3
<1> HIDE DEF f
<1>5. t \in CanonicalNode(x, f[x.true_branch], f[x.false_branch])
  BY <1>1, <1>2, Zenon DEF CanonicalEntryBody
<1>6. /\ DOMAIN t = {"node_id", "condition", "true_branch", "false_branch"}
      /\ t.node_id \in NfcOnly(x.node_id) /\ t.condition \in CanonicalCondition(x.condition)
      /\ t.true_branch \in f[x.true_branch] /\ t.false_branch \in f[x.false_branch]
  BY <1>5 DEF CanonicalNode
<1>7. IsNfc(t.node_id)
  BY <1>6 DEF NfcOnly
<1>8. IsCond(t.condition) /\ ConditionValid(t.condition)
      /\ SemCond(t.condition) = SemCond(x.condition)
  BY <1>6, CanonicalConditions, CanonicalConditionsMean DEF IsNodeRecord
<1> QED BY <1>4, <1>6, <1>7, <1>8 DEF IsNodeRecord

LEMMA CanonicalLeaves ==
  ASSUME NEW x, IsLeafRecord(x), NEW t \in CanonicalEntry(x)
  PROVE  /\ t = x /\ IsNfc(x.result)
         /\ \A s \in x.obligations : \A i \in DOMAIN s : IsNfc(s[i])
         /\ \A n \in x.notes : IsNfc(n)
<1>1. IsLeaf(x) /\ Shallow(x)
  BY LeavesHoldNothing, NothingInside
<1>2. CanonicalEntry(x) = CanonicalEntryBody(x, [z \in Parts(x) |-> CanonicalEntry(z)])
  BY <1>1, CanonicalEntryUnfolds
<1>3. t \in CanonicalLeaf(x)
  BY <1>1, <1>2, Zenon DEF CanonicalEntryBody
<1> QED BY <1>3 DEF CanonicalLeaf

LEMMA PathsOfNodes ==
  ASSUME NEW x, IsNodeRecord(x), Shallow(x)
  PROVE  CollectPaths(x) = Through(x, TRUE, CollectPaths(x.true_branch))
                             \cup Through(x, FALSE, CollectPaths(x.false_branch))
<1> DEFINE f == [z \in Parts(x) |-> CollectPaths(z)]
<1>1. CollectPaths(x) = CollectPathsBody(x, f)
  BY CollectPathsUnfolds
<1>2. ~ IsLeaf(x)
  BY DEF IsNodeRecord, IsLeaf
<1>3. x.true_branch \in Parts(x) /\ x.false_branch \in Parts(x)
  BY <1>2, BranchesAreBelow, PartsAreClosed
<1>4. f[x.true_branch] = CollectPaths(x.true_branch)
      /\ f[x.false_branch] = CollectPaths(x.false_branch)
  BY <1>3
<1> HIDE DEF f
<1> QED BY <1>1, <1>2, <1>4, Zenon DEF CollectPathsBody

(* So are those of a tree, and its paths.                                  *)
LEMMA CanonicalTreesMean ==
  ASSUME NEW r, TreeShape(r)
  PROVE  \A x \in Parts(r) : \A t \in CanonicalEntry(x) :
           /\ TreeShape(t) /\ EntryValid(t) /\ CollectPaths(t) = CollectPaths(x)
           /\ \A k \in Nat : k <= MaxDepth /\ Depth(x, k) => Depth(t, k)
<1> DEFINE Good(x, t) == /\ TreeShape(t) /\ EntryValid(t)
                         /\ CollectPaths(t) = CollectPaths(x)
                         /\ \A k \in Nat : k <= MaxDepth /\ Depth(x, k) => Depth(t, k)
           S == {x \in Parts(r) : \A t \in CanonicalEntry(x) : Good(x, t)}
<1>1. Shallow(r)
  BY DEF TreeShape
<1>2. ASSUME NEW x \in Parts(r), Below(x) \subseteq S PROVE x \in S
  <2> SUFFICES ASSUME NEW t \in CanonicalEntry(x) PROVE Good(x, t)
    OBVIOUS
  <2>1. Shallow(x) /\ (IsLeafRecord(x) \/ IsNodeRecord(x))
    BY <1>1, PartsAreClosed DEF TreeShape
  <2>2. CASE IsLeafRecord(x)
    <3>1. /\ t = x /\ IsNfc(x.result)
          /\ \A s \in x.obligations : \A i \in DOMAIN s : IsNfc(s[i])
          /\ \A n \in x.notes : IsNfc(n)
      BY <2>2, CanonicalLeaves
    <3>2. IsLeaf(x) /\ Parts(x) = {x}
      BY <2>2, LeavesHoldNothing, NothingInside
    <3>3. EntryValid(t)
      BY <3>1, <3>2 DEF EntryValid
    <3>4. TreeShape(t)
      BY <2>1, <2>2, <3>1, <3>2 DEF TreeShape
    <3> QED BY <3>1, <3>3, <3>4
  <2>3. CASE IsNodeRecord(x)
    <3>1. /\ IsNodeRecord(t) /\ IsNfc(t.node_id)
          /\ ConditionValid(t.condition) /\ SemCond(t.condition) = SemCond(x.condition)
          /\ t.true_branch \in CanonicalEntry(x.true_branch)
          /\ t.false_branch \in CanonicalEntry(x.false_branch)
      BY <2>1, <2>3, CanonicalNodes
    <3>2. x.true_branch \in Below(x) /\ x.false_branch \in Below(x)
      BY <2>3, NodesHoldTheirBranches, InsideIsBelow
    <3>3. Good(x.true_branch, t.true_branch) /\ Good(x.false_branch, t.false_branch)
      BY <1>2, <3>1, <3>2
    <3>4. Inside(t) = {t.true_branch, t.false_branch}
      BY <3>1, NodesHoldTheirBranches
    <3>5. ASSUME NEW z \in Inside(t)
          PROVE  \E w \in Below(x) : Good(w, z)
      BY <3>2, <3>3, <3>4, <3>5
    <3>6. ASSUME NEW k \in Nat, k <= MaxDepth, Depth(x, k) PROVE Depth(t, k)
      BY <3>5, <3>6, NestsAsDeep
    <3>7. Shallow(t)
      BY <2>1, <3>6, DepthAssumption DEF Shallow
    <3>8. Parts(t) = {t} \cup Below(t)
      BY <3>7, PartsAndBelow
    <3>9. TreeShape(t)
      <4>1. \A z \in Inside(t) : TreeShape(z)
        BY <3>5
      <4>2. \A y \in Below(t) : IsLeafRecord(y) \/ IsNodeRecord(y)
        BY <4>1 DEF Below, TreeShape
      <4> QED BY <3>1, <3>7, <3>8, <4>2 DEF TreeShape
    <3>10. EntryValid(t)
      <4>1. \A z \in Inside(t) : EntryValid(z)
        BY <3>5
      <4>2. ~ IsLeaf(t)
        BY <3>1 DEF IsNodeRecord, IsLeaf
      <4> QED BY <3>1, <3>8, <4>1, <4>2 DEF EntryValid, Below
    <3>11. CollectPaths(t) = CollectPaths(x)
      <4>1. \A b, rest : Through(t, b, rest) = Through(x, b, rest)
        BY <3>1 DEF Through
      <4>2. CollectPaths(x) = Through(x, TRUE, CollectPaths(x.true_branch))
                                \cup Through(x, FALSE, CollectPaths(x.false_branch))
        BY <2>1, <2>3, PathsOfNodes
      <4>3. CollectPaths(t) = Through(t, TRUE, CollectPaths(t.true_branch))
                                \cup Through(t, FALSE, CollectPaths(t.false_branch))
        BY <3>1, <3>7, PathsOfNodes
      <4> QED BY <3>3, <4>1, <4>2, <4>3
    <3> QED BY <3>6, <3>9, <3>10, <3>11
  <2> QED BY <2>1, <2>2, <2>3
<1> HIDE DEF S
<1>3. Parts(r) \subseteq S
  BY <1>1, <1>2, NestingInduction
<1> QED BY <1>3 DEF S

(* Tags are arranged, none lost.                                           *)
LEMMA CanonicalTagsMean ==
  ASSUME NEW tags, IsASeq(tags), NEW s \in CanonicalSet(tags)
  PROVE  /\ ToSet(s) = ToSet(tags) /\ DOMAIN s = DOMAIN tags /\ SetIsCanonical(s)
<1>1. PICK p \in Bijection(DOMAIN tags, DOMAIN tags) : s = [i \in DOMAIN tags |-> tags[p[i]]]
  BY DEF CanonicalSet
<1>2. /\ p \in [DOMAIN tags -> DOMAIN tags]
      /\ \A j \in DOMAIN tags : \E i \in DOMAIN tags : p[i] = j
  BY DEF Bijection, Surjection
<1>3. DOMAIN s = DOMAIN tags /\ \A i \in DOMAIN tags : s[i] = tags[p[i]]
  BY <1>1
<1>4. \A i, j \in DOMAIN s : i < j => TagRank[s[i]] < TagRank[s[j]]
  BY DEF CanonicalSet
<1>5. ToSet(s) = ToSet(tags)
  BY <1>2, <1>3 DEF ToSet
<1>6. PICK n \in Nat : tags = [i \in 1 .. n |-> tags[i]]
  BY DEF IsASeq
<1>7. DOMAIN s = 1 .. n
  BY <1>3, <1>6
<1>8. s \in Seq(ToSet(s)) /\ Len(s) = n
  <2>1. s = [i \in 1 .. n |-> s[i]]
    BY <1>1, <1>3, <1>7
  <2>2. \A i \in 1 .. n : s[i] \in ToSet(s)
    BY <1>7 DEF ToSet
  <2> QED BY <2>1, <2>2
<1>9. SetIsCanonical(s)
  <2> SUFFICES ASSUME NEW i \in 1 .. Len(s) - 1 PROVE TagRank[s[i]] < TagRank[s[i + 1]]
    BY DEF SetIsCanonical
  <2>1. i \in 1 .. n /\ i + 1 \in 1 .. n /\ i < i + 1
    BY <1>8
  <2> QED BY <1>4, <1>7, <2>1
<1> QED BY <1>3, <1>5, <1>9

(* A rule has its tags in a sequence, or has none.                         *)
LEMMA ScalarsAreASeq ==
  ASSUME NEW E, NEW seq \in Seq(E)
  PROVE  IsASeq(ScalarsOf(seq))
<1> DEFINE parts == [i \in DOMAIN seq |->
                       IF "scalar" \in DOMAIN seq[i] THEN <<seq[i].scalar.text>> ELSE <<>>]
           T == { seq[i].scalar.text : i \in DOMAIN seq }
<1>1. Len(seq) \in Nat /\ DOMAIN seq = 1 .. Len(seq)
  OBVIOUS
<1>2. parts \in Seq(Seq(T))
  <2>1. ASSUME NEW i \in DOMAIN seq PROVE parts[i] \in Seq(T)
    <3>1. seq[i].scalar.text \in T
      OBVIOUS
    <3>2. parts[i] = IF "scalar" \in DOMAIN seq[i] THEN <<seq[i].scalar.text>> ELSE <<>>
      OBVIOUS
    <3> HIDE DEF parts, T
    <3> QED BY <3>1, <3>2
  <2>2. parts = [i \in 1 .. Len(seq) |-> parts[i]]
    BY <1>1
  <2> HIDE DEF parts, T
  <2> QED BY <1>1, <2>1, <2>2
<1>3. ScalarsOf(seq) = FlattenSeq(parts)
  BY Zenon DEF ScalarsOf
<1> HIDE DEF parts, T
<1> DEFINE s == ScalarsOf(seq)
<1>4. s \in Seq(T)
  BY <1>2, <1>3, FlattenKeepsAll
<1> HIDE DEF s
<1>5. s = [i \in 1 .. Len(s) |-> s[i]] /\ Len(s) \in Nat
  BY <1>4
<1>6. IsASeq(s)
  BY <1>5 DEF IsASeq
<1> QED BY <1>6 DEF s

LEMMA CompiledTags ==
  ASSUME NEW d \in Documents \cup IntentDocuments, ~ IsIntent(d),
         NEW rules \in CompileRules(d), NEW i \in DOMAIN rules
  PROVE  rules[i].tags = {} \/ \E tags : IsASeq(tags) /\ rules[i].tags = {tags}
<1>1. PICK node \in Parts(d) : \E ast \in ParseRule(node) : rules[i] \in LowerRule(ast)
  BY CompiledRules
<1>2. PICK ast \in ParseRule(node) : rules[i] \in LowerRule(ast)
  BY <1>1
<1>3. YamlShape(d)
  BY CompiledRules DEF IsYaml, YamlShape
<1> DEFINE opt == GetSequence(node, "tags")
<1>4. ast.tags = ScalarsOf(OrEmpty(opt))
  BY <1>2 DEF ParseRule
<1>5. rules[i].tags \in {{}, {ast.tags}}
  <2>1. CASE ast.tags = <<>>
    BY <1>2, <2>1 DEF LowerRule
  <2>2. CASE ast.tags # <<>>
    BY <1>2, <2>2 DEF LowerRule
  <2> QED BY <2>1, <2>2
<1>6. \A s \in opt : s \in Seq(Parts(d))
  <2> SUFFICES ASSUME NEW s \in opt PROVE s \in Seq(Parts(d))
    OBVIOUS
  <2>1. PICK n \in Get(node, "tags", "seq") : s = n.seq
    BY DEF GetSequence
  <2>2. n \in Inside(node) /\ "seq" \in DOMAIN n
    BY <2>1, GetIsInside
  <2>3. n \in Parts(d)
    BY <1>3, <2>2, PartsAreClosed DEF YamlShape
  <2> QED BY <1>3, <2>1, <2>2, <2>3 DEF YamlShape
<1> HIDE DEF opt
<1>7. OrEmpty(opt) \in Seq(Parts(d))
  <2>1. CASE opt = {}
    BY <2>1 DEF OrEmpty
  <2>2. CASE opt # {}
    BY <1>6, <2>2 DEF OrEmpty
  <2> QED BY <2>1, <2>2
<1>8. IsASeq(ast.tags)
  BY <1>4, <1>7, ScalarsAreASeq
<1> QED BY <1>5, <1>8

LEMMA CanonicalTagsAreTags ==
  ASSUME NEW opt, opt = {} \/ \E tags : IsASeq(tags) /\ opt = {tags},
         NEW arranged \in CanonicalTags(opt)
  PROVE  /\ UNION { ToSet(t) : t \in arranged } = UNION { ToSet(t) : t \in opt }
         /\ \A s \in arranged : /\ \A i \in DOMAIN s : IsNfc(s[i])
                                /\ SetIsCanonical(s)
<1>1. CASE opt = {}
  <2>1. arranged = {}
    BY <1>1 DEF CanonicalTags
  <2> QED BY <1>1, <2>1
<1>2. ASSUME NEW tags, IsASeq(tags), opt = {tags}
      PROVE  /\ UNION { ToSet(t) : t \in arranged } = UNION { ToSet(t) : t \in opt }
             /\ \A s \in arranged : /\ \A i \in DOMAIN s : IsNfc(s[i])
                                    /\ SetIsCanonical(s)
  <2>1. (CHOOSE t \in {tags} : TRUE) = tags /\ opt # {}
    BY <1>2
  <2>2. CanonicalTags(opt) = IF \A i \in DOMAIN tags : IsNfc(tags[i])
                             THEN { {s} : s \in CanonicalSet(tags) } ELSE {}
    BY <1>2, <2>1, Zenon DEF CanonicalTags
  <2>3. /\ \A i \in DOMAIN tags : IsNfc(tags[i])
        /\ \E s \in CanonicalSet(tags) : arranged = {s}
    BY <2>2
  <2>4. PICK s \in CanonicalSet(tags) : arranged = {s}
    BY <2>3
  <2>5. ToSet(s) = ToSet(tags) /\ DOMAIN s = DOMAIN tags /\ SetIsCanonical(s)
    BY <1>2, CanonicalTagsMean
  <2>6. \A i \in DOMAIN s : s[i] \in ToSet(tags)
    BY <2>5 DEF ToSet
  <2>7. \A t \in ToSet(tags) : IsNfc(t)
    BY <2>3 DEF ToSet
  <2> QED BY <1>2, <2>4, <2>5, <2>6, <2>7
<1> QED BY <1>1, <1>2

(* A rule that was encoded is a valid one, and means what it did.          *)
LEMMA CanonicalRulesMean ==
  ASSUME NEW r, DOMAIN r = RuleFields, ShapedGroups(r), TreeShape(r.decision_tree),
         r.tags = {} \/ \E tags : IsASeq(tags) /\ r.tags = {tags},
         NEW q \in CanonicalRule(r)
  PROVE  RuleValid(q) /\ SemanticRule(q) = SemanticRule(r)
<1>1. /\ \A f \in RuleFields \ {"tags", "applies_if", "decision_tree"} : q[f] = r[f]
      /\ q.tags \in CanonicalTags(r.tags)
      /\ q.decision_tree \in CanonicalEntry(r.decision_tree)
      /\ TextsAreNfc(r)
      /\ r.window \in CanonicalWindow(r.window)
  BY CanonicalRules
<1>2. /\ q.rule_id = r.rule_id /\ q.rule_version = r.rule_version
      /\ q.description = r.description
      /\ q.interpretation_notes = r.interpretation_notes
      /\ q.obligations = r.obligations /\ q.document_id = r.document_id
      /\ q.citation = r.citation /\ q.window = r.window
  BY <1>1 DEF RuleFields
<1>3. TextsAreNfc(q)
  BY <1>1, <1>2 DEF TextsAreNfc, Prose
<1>4. WindowValid(q.window)
  BY <1>1, <1>2 DEF CanonicalWindow, WindowValid
<1>5. EntryValid(q.decision_tree)
      /\ CollectPaths(q.decision_tree) = CollectPaths(r.decision_tree)
  <2>1. r.decision_tree \in Parts(r.decision_tree)
    BY PartsAreClosed DEF TreeShape
  <2> QED BY <1>1, <2>1, CanonicalTreesMean
<1>6. /\ \A g \in q.applies_if : GroupValid(g)
      /\ { SemPredicate(g) : g \in q.applies_if } = { SemPredicate(g) : g \in r.applies_if }
  <2>1. CASE r.applies_if = {}
    <3>1. q.applies_if = {}
      BY <2>1, CanonicalRules
    <3> QED BY <2>1, <3>1
  <2>2. CASE r.applies_if # {}
    <3>1. PICK g : r.applies_if = {g} /\ GroupShape(g)
      BY <2>2 DEF ShapedGroups
    <3>2. PICK h \in CanonicalGroup(g) : q.applies_if = {h}
      BY <3>1, CanonicalRules
    <3>3. g \in Parts(g)
      BY <3>1, PartsAreClosed DEF GroupShape
    <3>4. GroupValid(h) /\ SemPredicate(h) = SemPredicate(g)
      BY <3>1, <3>3, CanonicalGroupsMean
    <3> QED BY <3>1, <3>2, <3>4
  <2> QED BY <2>1, <2>2
<1>7. /\ UNION { ToSet(t) : t \in q.tags } = UNION { ToSet(t) : t \in r.tags }
      /\ \A s \in q.tags : /\ \A i \in DOMAIN s : IsNfc(s[i])
                           /\ SetIsCanonical(s)
  BY <1>1, CanonicalTagsAreTags
<1>8. RuleValid(q)
  BY <1>3, <1>4, <1>5, <1>6, <1>7 DEF RuleValid
<1>9. SemanticRule(q) = SemanticRule(r)
  BY <1>2, <1>5, <1>6, <1>7 DEF SemanticRule
<1> QED BY <1>8, <1>9

(* What is stored can be read back and means what its document means, rule *)
(* by rule, for documents of every size: normalising numbers, ordering     *)
(* tags and refusing what is not NFC change no condition, no branch and no *)
(* outcome (canonical/encode.rs, semantic/form.rs, semantic_diff).         *)
THEOREM MeaningIsKept == Spec => []MeaningSurvivesStoring
<1>1. PipelineInv => MeaningSurvivesStoring
  <2> SUFFICES ASSUME PipelineInv,
                      NEW rules \in StoredRules, NEW source \in Compiled,
                      NEW i \in DOMAIN source
               PROVE  /\ RuleValid(rules[i])
                      /\ SemanticDiff(SemanticRule(source[i]), SemanticRule(rules[i])) = {}
    BY DEF MeaningSurvivesStoring
  <2>1. doc \in Documents \cup IntentDocuments
    BY DEF PipelineInv
  <2>2. PICK s \in Compiled : rules \in EncodeRules(s)
    BY DEF PipelineInv, StoredIsCompiled
  <2>3. s = source
    BY <2>1, CompiledIsOne
  <2>4. rules[i] \in CanonicalRule(source[i])
    BY <2>2, <2>3, EncodedRules
  <2>5. DOMAIN source[i] = RuleFields
    BY <2>1, CompiledFields DEF Compiled
  <2>6. ShapedGroups(source[i])
    BY <2>1, CompiledGroups DEF ShapedGroups, Compiled
  <2>7. TreeShape(source[i].decision_tree)
    BY <2>1, CompiledTrees DEF Compiled
  <2>8. source[i].tags = {} \/ \E tags : IsASeq(tags) /\ source[i].tags = {tags}
    BY <2>1, CompiledTags DEF Compiled
  <2>9. RuleValid(rules[i]) /\ SemanticRule(rules[i]) = SemanticRule(source[i])
    BY <2>4, <2>5, <2>6, <2>7, <2>8, CanonicalRulesMean
  <2> QED BY <2>9 DEF SemanticDiff
<1>2. Spec => []PipelineInv
  BY PipelineInvariance
<1> QED BY <1>1, <1>2, PTL

-----------------------------------------------------------------------------
(* What stored rules decide.                                               *)

(* Products that agree up to a positive factor compare alike.              *)
LEMMA CrossMultiplied ==
  ASSUME NEW a \in Int, NEW m \in Int, NEW s \in Int,
         NEW P \in Nat \ {0}, NEW Q \in Nat \ {0}, NEW R \in Nat \ {0}, s * P = m * Q
  PROVE  /\ a * P = m * R <=> a * Q = s * R
         /\ a * P < m * R <=> a * Q < s * R
         /\ m * R < a * P <=> s * R < a * Q
<1> DEFINE X == a * P - m * R
           Y == a * Q - s * R
<1>1. \A i, j, k \in Int : (i * j) * k = (i * k) * j /\ i * j \in Int
  OBVIOUS
<1>2. \A i, j, k \in Int : (i - j) * k = i * k - j * k
  OBVIOUS
<1>3. X \in Int /\ Y \in Int /\ P \in Int /\ Q \in Int /\ R \in Int
  OBVIOUS
<1>4. (a * P) * Q = (a * Q) * P
  BY <1>1, <1>3
<1>5. (m * R) * Q = (s * R) * P
  <2>1. (m * R) * Q = (m * Q) * R
    BY <1>1, <1>3
  <2>2. (s * R) * P = (s * P) * R
    BY <1>1, <1>3
  <2> QED BY <2>1, <2>2
<1>6. X * Q = (a * P) * Q - (m * R) * Q
  BY <1>1, <1>2, <1>3
<1>7. Y * P = (a * Q) * P - (s * R) * P
  BY <1>1, <1>2, <1>3
<1>8. X * Q = Y * P
  BY <1>4, <1>5, <1>6, <1>7
<1>9. (X = 0 <=> a * P = m * R) /\ (Y = 0 <=> a * Q = s * R)
      /\ (X < 0 <=> a * P < m * R) /\ (Y < 0 <=> a * Q < s * R)
      /\ (0 < X <=> m * R < a * P) /\ (0 < Y <=> s * R < a * Q)
  <2>1. a * P \in Int /\ m * R \in Int /\ a * Q \in Int /\ s * R \in Int
    BY <1>1, <1>3
  <2> QED BY <2>1
<1> HIDE DEF X, Y
<1>10. \A i \in Int, k \in Nat \ {0} :
         (i * k = 0 <=> i = 0) /\ (i * k < 0 <=> i < 0) /\ (0 < i * k <=> 0 < i)
  <2> SUFFICES ASSUME NEW i \in Int, NEW k \in Nat \ {0}
               PROVE  (i * k = 0 <=> i = 0) /\ (i * k < 0 <=> i < 0) /\ (0 < i * k <=> 0 < i)
    OBVIOUS
  <2>1. CASE i = 0
    BY <2>1
  <2>2. CASE i > 0
    <3>1. i * k > 0
      BY <2>2
    <3> QED BY <2>2, <3>1
  <2>3. CASE i < 0
    <3>1. i * k < 0
      BY <2>3
    <3> QED BY <2>3, <3>1
  <2> QED BY <2>1, <2>2, <2>3
<1>11. (X = 0 <=> Y = 0) /\ (X < 0 <=> Y < 0) /\ (0 < X <=> 0 < Y)
  BY <1>3, <1>8, <1>10
<1> QED BY <1>9, <1>11

(* A decimal and its stripped form compare alike.                          *)
LEMMA StrippedComparesAlike ==
  ASSUME NEW m \in Int, NEW e \in Nat, NEW a \in Int \X Nat
  PROVE  /\ SameNumber(a, <<m, e>>) <=> SameNumber(a, Stripped(m, e))
         /\ LessNumber(a, <<m, e>>) <=> LessNumber(a, Stripped(m, e))
         /\ LessNumber(<<m, e>>, a) <=> LessNumber(Stripped(m, e), a)
<1> DEFINE s == Stripped(m, e)
<1>1. s \in Int \X Nat /\ SameNumber(s, <<m, e>>)
  BY StrippedIsExact
<1> HIDE DEF s
<1>2. PICK b \in Int, k \in Nat : a = <<b, k>>
  OBVIOUS
<1>3. PICK t \in Int, j \in Nat : s = <<t, j>>
  BY <1>1
<1>4. Pow10[e] \in Nat \ {0} /\ Pow10[k] \in Nat \ {0} /\ Pow10[j] \in Nat \ {0}
  BY PowersOfTen
<1>5. t * Pow10[e] = m * Pow10[j]
  BY <1>1, <1>3 DEF SameNumber
<1> DEFINE P == Pow10[e]
           Q == Pow10[j]
           R == Pow10[k]
<1>8. P \in Nat \ {0} /\ Q \in Nat \ {0} /\ R \in Nat \ {0} /\ t * P = m * Q
  BY <1>4, <1>5
<1> HIDE DEF P, Q, R
<1>9. /\ b * P = m * R <=> b * Q = t * R
      /\ b * P < m * R <=> b * Q < t * R
      /\ m * R < b * P <=> t * R < b * Q
  BY <1>8, CrossMultiplied
<1>6. /\ b * Pow10[e] = m * Pow10[k] <=> b * Pow10[j] = t * Pow10[k]
      /\ b * Pow10[e] < m * Pow10[k] <=> b * Pow10[j] < t * Pow10[k]
      /\ m * Pow10[k] < b * Pow10[e] <=> t * Pow10[k] < b * Pow10[j]
  BY <1>9 DEF P, Q, R
<1>7. /\ SameNumber(a, <<m, e>>) <=> SameNumber(a, s)
      /\ LessNumber(a, <<m, e>>) <=> LessNumber(a, s)
      /\ LessNumber(<<m, e>>, a) <=> LessNumber(s, a)
  BY <1>2, <1>3, <1>6 DEF SameNumber, LessNumber
<1> QED BY <1>7 DEF s

(* Written plainly a decimal is what it is.                                *)
LEMMA PlainDecimal ==
  ASSUME NEW m \in Int, NEW e \in Nat
  PROVE  DecimalToF64(m, e) = F64(<<m, e>>)
<1>1. CASE e = 0
  <2>1. m * Pow10[-e] = m
    BY <1>1, PowersOfTen
  <2> QED BY <1>1, <2>1 DEF DecimalToF64, DecimalToString, Number
<1>2. CASE e > 0
  BY <1>2 DEF DecimalToF64, DecimalToString, Number
<1> QED BY <1>1, <1>2

(* A number with zeros at its end is rounded to what it is without them.   *)
LEMMA RoundedAlike ==
  ASSUME NEW m \in Int, NEW e \in Nat
  PROVE  F64(Stripped(m, e)) = F64(<<m, e>>)
<1> DEFINE s == Stripped(m, e)
<1>1. s \in Int \X Nat /\ DecimalIsCanonical(s[1], s[2])
  BY StrippedIsExact
<1>2. Stripped(s[1], s[2]) = <<s[1], s[2]>> /\ s = <<s[1], s[2]>>
  BY <1>1, StrippedIsStripped
<1>3. F64(s) = Nearest(s)
  BY <1>2, Zenon DEF F64
<1> QED BY <1>3 DEF F64

(* The number a decimal that needs no folding is rounded to.               *)
LEMMA DecimalAsNumber ==
  ASSUME NEW v, IsDecimal(v), v.m \in Int, v.e \in Nat
  PROVE  OperandAsNumber(v) = {F64(<<v.m, v.e>>)}
<1>1. OperandAsNumber(v) = {DecimalToF64(v.m, v.e)}
  <2>1. ~ IsBool(v)
    BY DEF IsBool, IsDecimal
  <2> QED BY <2>1, Zenon DEF OperandAsNumber
<1>2. DecimalToF64(v.m, v.e) = F64(<<v.m, v.e>>)
  BY PlainDecimal
<1> QED BY <1>1, <1>2

(* The number an operand is compared as is that of its canonical form.     *)
LEMMA CanonicalNumbers ==
  ASSUME NEW v, ValuePart(v), Shallow(v), NEW u \in CanonicalScalar(v)
  PROVE  OperandAsNumber(u) = OperandAsNumber(v)
<1>1. CASE IsDecimal(v)
  <2>1. v.m \in Int /\ v.e \in Nat /\ ~ IsList(v)
    BY <1>1 DEF ValuePart, IsStr, IsBool, IsDecimal, IsList
  <2> DEFINE s == Stripped(v.m, v.e)
  <2>2. u = Decimal(s[1], s[2])
    BY <1>1, <2>1, CanonicalAtoms
  <2>3. s \in Int \X Nat
    BY <2>1, StrippedIsExact
  <2>4. OperandAsNumber(v) = {F64(<<v.m, v.e>>)}
    BY <1>1, <2>1, DecimalAsNumber
  <2>5. F64(s) = F64(<<v.m, v.e>>)
    BY <2>1, RoundedAlike
  <2> HIDE DEF s
  <2>6. IsDecimal(u) /\ u.m \in Int /\ u.e \in Nat /\ <<u.m, u.e>> = s
    BY <2>2, <2>3 DEF Decimal, IsDecimal
  <2>7. OperandAsNumber(u) = {F64(s)}
    BY <2>6, DecimalAsNumber
  <2> QED BY <2>4, <2>5, <2>7
<1>2. CASE IsBool(v)
  <2>1. u = v
    BY <1>2, CanonicalAtoms DEF IsBool, IsList
  <2> QED BY <2>1
<1>3. CASE ~ IsDecimal(v) /\ ~ IsBool(v)
  <2>1. SameKind(u, v)
    <3>1. CASE IsList(v)
      BY <3>1, CanonicalLists DEF ValuePart, IsStr, IsBool, IsDecimal, IsList
    <3>2. CASE ~ IsList(v)
      BY <3>2, CanonicalAtoms
    <3> QED BY <3>1, <3>2
  <2>2. OperandAsNumber(v) = {} /\ OperandAsNumber(u) = {}
    BY <1>3, <2>1 DEF SameKind, OperandAsNumber
  <2> QED BY <2>2
<1> QED BY <1>1, <1>2, <1>3

LEMMA PythonStrScalarLocal ==
  ASSUME NEW x, NEW f, NEW g, \A z \in Below(x) : f[z] = g[z]
  PROVE  PythonStrScalarPart(x, f) = PythonStrScalarPart(x, g)
<1>1. CASE IsList(x)
  <2>1. \A i \in DOMAIN x.list : x.list[i] \in Below(x)
    BY <1>1, ItemsAreInside, InsideIsBelow DEF IsList
  <2>2. ReprList(x.list, f) = ReprList(x.list, g)
    BY <2>1 DEF ReprList
  <2>3. \A h : PythonStrScalarPart(x, h) = ReprList(x.list, h)
    BY <1>1 DEF PythonStrScalarPart, IsStr, IsBool, IsDecimal, IsList
  <2> QED BY <2>2, <2>3
<1>2. CASE IsStr(x)
  BY <1>2 DEF PythonStrScalarPart, IsStr, IsBool, IsDecimal, IsList
<1>3. CASE IsBool(x)
  BY <1>3 DEF PythonStrScalarPart, IsStr, IsBool, IsDecimal, IsList
<1>4. CASE IsDecimal(x)
  BY <1>4 DEF PythonStrScalarPart, IsStr, IsBool, IsDecimal, IsList
<1>5. CASE ~ IsList(x) /\ ~ IsDecimal(x) /\ ~ IsBool(x) /\ ~ IsStr(x)
  BY <1>5 DEF PythonStrScalarPart
<1> QED BY <1>1, <1>2, <1>3, <1>4, <1>5

LEMMA PythonStrScalarExists ==
  ASSUME NEW r, Shallow(r)
  PROVE  \E f : f = [x \in Parts(r) |-> PythonStrScalarPart(x, f)]
<1> DEFINE S == {n \in Nat : n <= MaxDepth + 1
                   => \E f : f = [x \in Lower(r, n) |-> PythonStrScalarPart(x, f)]}
<1>1. 0 \in S
  <2> DEFINE f == [x \in Lower(r, 0) |-> PythonStrScalarPart(x, <<>>)]
  <2>1. f = [x \in Lower(r, 0) |-> PythonStrScalarPart(x, f)]
    BY LowerGrows
  <2> QED BY <2>1, Zenon
<1>2. ASSUME NEW n \in Nat, n \in S PROVE n + 1 \in S
  <2> SUFFICES ASSUME n + 1 <= MaxDepth + 1
               PROVE  \E f : f = [x \in Lower(r, n + 1) |-> PythonStrScalarPart(x, f)]
    OBVIOUS
  <2>1. n <= MaxDepth /\ n <= MaxDepth + 1
    BY DepthAssumption
  <2>2. PICK f : f = [x \in Lower(r, n) |-> PythonStrScalarPart(x, f)]
    BY <1>2, <2>1
  <2> DEFINE g == [x \in Lower(r, n + 1) |-> PythonStrScalarPart(x, f)]
  <2>3. \A x \in Lower(r, n) : f[x] = PythonStrScalarPart(x, f)
    BY <2>2, Zenon
  <2>4. Lower(r, n) \subseteq Lower(r, n + 1)
    BY <2>1, LowerOnLower
  <2>5. \A x \in Lower(r, n) : g[x] = f[x]
    BY <2>3, <2>4
  <2>6. ASSUME NEW x \in Lower(r, n + 1) PROVE PythonStrScalarPart(x, f) = PythonStrScalarPart(x, g)
    <3>1. Below(x) \subseteq Lower(r, n)
      BY <2>1, LowerGrows
    <3> HIDE DEF g
    <3> QED BY <2>5, <3>1, PythonStrScalarLocal
  <2>7. g = [x \in Lower(r, n + 1) |-> PythonStrScalarPart(x, g)]
    BY <2>6
  <2> QED BY <2>7, Zenon
<1> HIDE DEF S
<1>3. Nat \subseteq S
  BY <1>1, <1>2, NatSetInduction
<1>4. \E f : f = [x \in Lower(r, MaxDepth + 1) |-> PythonStrScalarPart(x, f)]
  BY <1>3, DepthAssumption DEF S
<1> QED BY <1>4, LowerGrows

LEMMA PythonStrScalarUnfolds ==
  ASSUME NEW r, Shallow(r)
  PROVE  PythonStrScalar(r) = PythonStrScalarPart(r, [z \in Parts(r) |-> PythonStrScalar(z)])
<1> DEFINE F(x) == CHOOSE f : f = [z \in Parts(x) |-> PythonStrScalarPart(z, f)]
<1>1. ASSUME NEW x, Shallow(x)
      PROVE  /\ PythonStrScalar(x) = F(x)[x]
             /\ \A z \in Parts(x) : F(x)[z] = PythonStrScalarPart(z, F(x))
  <2>1. PythonStrScalar(x) = F(x)[x]
    BY Zenon DEF PythonStrScalar
  <2>2. \E f : f = [z \in Parts(x) |-> PythonStrScalarPart(z, f)]
    BY <1>1, PythonStrScalarExists
  <2>3. F(x) = [z \in Parts(x) |-> PythonStrScalarPart(z, F(x))]
    BY <2>2, Zenon
  <2> HIDE DEF F
  <2> QED BY <2>1, <2>3
<1> HIDE DEF F
<1>2. ASSUME NEW z \in Parts(r) PROVE F(r)[z] = PythonStrScalar(z)
  <2>1. Shallow(z) /\ Parts(z) \subseteq Parts(r)
    BY PartsAreClosed
  <2>2. ASSUME NEW y \in Parts(z), \A w \in Below(y) : F(r)[w] = F(z)[w]
        PROVE  F(r)[y] = F(z)[y]
    <3>1. F(r)[y] = PythonStrScalarPart(y, F(r)) /\ F(z)[y] = PythonStrScalarPart(y, F(z))
      BY <1>1, <2>1
    <3> QED BY <2>2, <3>1, PythonStrScalarLocal
  <2>3. z \in Parts(z)
    BY <2>1, PartsAreClosed
  <2>4. F(r)[z] = F(z)[z]
    BY <2>1, <2>2, <2>3, NestedAgree
  <2> QED BY <1>1, <2>1, <2>4
<1>3. r \in Parts(r) /\ Below(r) \subseteq Parts(r)
  BY PartsAreClosed
<1>4. \A z \in Below(r) : F(r)[z] = [y \in Parts(r) |-> PythonStrScalar(y)][z]
  BY <1>2, <1>3
<1>5. PythonStrScalarPart(r, F(r)) = PythonStrScalarPart(r, [z \in Parts(r) |-> PythonStrScalar(z)])
  BY <1>4, PythonStrScalarLocal
<1> QED BY <1>1, <1>3, <1>5


LEMMA CanonicalKinds ==
  ASSUME NEW v, ValuePart(v), Shallow(v), NEW u \in CanonicalScalar(v)
  PROVE  SameKind(u, v)
<1>1. CASE IsList(v)
  BY <1>1, CanonicalLists DEF ValuePart, IsStr, IsBool, IsDecimal, IsList
<1>2. CASE ~ IsList(v)
  BY <1>2, CanonicalAtoms
<1> QED BY <1>1, <1>2

(* A decimal that the encoder turns into an integer.                       *)
BecomesInteger(v) == IsDecimal(v) /\ v.e > 0 /\ Stripped(v.m, v.e)[2] = 0

(* Any other value prints as its canonical form does.                      *)
LEMMA CanonicalValuesPrint ==
  ASSUME NEW r, IsValue(r), \A v \in Parts(r) : ~ BecomesInteger(v)
  PROVE  \A u \in CanonicalScalar(r) : PythonStrScalar(u) = PythonStrScalar(r)
<1> DEFINE S == {v \in Parts(r) : \A u \in CanonicalScalar(v) :
                                     PythonStrScalar(u) = PythonStrScalar(v)}
<1>1. Shallow(r) /\ r \in Parts(r)
  BY PartsAreClosed DEF IsValue
<1>2. ASSUME NEW v \in Parts(r), Below(v) \subseteq S PROVE v \in S
  <2> SUFFICES ASSUME NEW u \in CanonicalScalar(v) PROVE PythonStrScalar(u) = PythonStrScalar(v)
    OBVIOUS
  <2>1. Shallow(v) /\ ValuePart(v)
    BY <1>1, PartsAreClosed DEF IsValue
  <2>2. Shallow(u) /\ ValuePart(u)
    <3>1. IsValue(u)
      BY CanonicalValues
    <3> QED BY <3>1, PartsAreClosed DEF IsValue
  <2>3. PythonStrScalar(v) = PythonStrScalarPart(v, [z \in Parts(v) |-> PythonStrScalar(z)])
        /\ PythonStrScalar(u) = PythonStrScalarPart(u, [z \in Parts(u) |-> PythonStrScalar(z)])
    BY <2>1, <2>2, PythonStrScalarUnfolds
  <2>4. CASE IsStr(v) \/ IsBool(v)
    <3>1. u = v
      BY <2>1, <2>4, CanonicalAtoms DEF IsStr, IsBool, IsList
    <3> QED BY <3>1
  <2>5. CASE IsDecimal(v)
    <3> DEFINE s == Stripped(v.m, v.e)
    <3>1. v.m \in Int /\ v.e \in Nat /\ ~ IsList(v)
      BY <2>1, <2>5 DEF ValuePart, IsStr, IsBool, IsDecimal, IsList
    <3>2. u = Decimal(s[1], s[2])
      BY <2>1, <2>5, <3>1, CanonicalAtoms
    <3>3. s \in Int \X Nat /\ DecimalIsCanonical(s[1], s[2])
      BY <3>1, StrippedIsExact
    <3>5. s = <<s[1], s[2]>>
      BY <3>3
    <3>6. v.e = 0 => s = <<v.m, v.e>>
      <4>1. v.e = 0 => DecimalIsCanonical(v.m, v.e)
        BY <3>1 DEF DecimalIsCanonical
      <4> QED BY <3>1, <4>1, StrippedIsStripped
    <3>7. v.e > 0 => s[2] > 0
      BY <2>5, <3>3 DEF BecomesInteger
    <3> HIDE DEF s
    <3>8. IsDecimal(u) /\ u.m = s[1] /\ u.e = s[2]
      BY <3>2 DEF Decimal, IsDecimal
    <3>9. \A x, h : IsDecimal(x) =>
            PythonStrScalarPart(x, h) = IF x.e <= 0 THEN DecimalToString(x.m, x.e)
                                        ELSE PythonFloatStr(DecimalToF64(x.m, x.e))
      <4> SUFFICES ASSUME NEW x, NEW h, IsDecimal(x)
                   PROVE  PythonStrScalarPart(x, h)
                            = IF x.e <= 0 THEN DecimalToString(x.m, x.e)
                              ELSE PythonFloatStr(DecimalToF64(x.m, x.e))
        OBVIOUS
      <4>1. ~ IsStr(x) /\ ~ IsBool(x) /\ ~ IsList(x)
        BY DEF IsStr, IsBool, IsDecimal, IsList
      <4> QED BY <4>1, Zenon DEF PythonStrScalarPart
    <3>10. CASE v.e = 0
      <4>1. u.m = v.m /\ u.e = v.e
        BY <3>6, <3>8, <3>10
      <4> QED BY <2>3, <2>5, <3>8, <3>9, <4>1
    <3>11. CASE v.e > 0
      <4>1. DecimalToF64(v.m, v.e) = F64(<<v.m, v.e>>) /\ DecimalToF64(s[1], s[2]) = F64(s)
        BY <3>1, <3>3, <3>5, PlainDecimal
      <4>2. F64(s) = F64(<<v.m, v.e>>)
        BY <3>1, RoundedAlike DEF s
      <4>3. ~ (v.e <= 0) /\ ~ (u.e <= 0)
        BY <3>1, <3>3, <3>7, <3>8, <3>11
      <4> QED BY <2>3, <2>5, <3>8, <3>9, <4>1, <4>2, <4>3
    <3> QED BY <3>1, <3>10, <3>11
  <2>6. CASE IsList(v)
    <3>1. IsASeq(v.list)
      BY <2>1, <2>6 DEF ValuePart, IsStr, IsBool, IsDecimal, IsList
    <3>2. /\ SameKind(u, v)
          /\ DOMAIN u.list = DOMAIN v.list
          /\ \A i \in DOMAIN v.list : u.list[i] \in CanonicalScalar(v.list[i])
      BY <2>1, <2>6, <3>1, CanonicalLists
    <3>3. \A i \in DOMAIN v.list : v.list[i] \in Below(v) /\ v.list[i] \in Parts(v)
      <4>1. \A i \in DOMAIN v.list : v.list[i] \in Inside(v)
        BY <2>6, ItemsAreInside DEF IsList
      <4> QED BY <2>1, <4>1, InsideIsBelow, PartsAreClosed
    <3>4. \A i \in DOMAIN u.list : u.list[i] \in Parts(u)
      <4>1. \A i \in DOMAIN u.list : u.list[i] \in Inside(u)
        BY <2>6, <3>2, ItemsAreInside DEF IsList, SameKind
      <4> QED BY <2>2, <4>1, PartsAreClosed
    <3>5. \A i \in DOMAIN v.list :
            PythonStrScalar(u.list[i]) = PythonStrScalar(v.list[i])
      BY <1>2, <3>2, <3>3
    <3>6. \A i \in DOMAIN v.list : IsStr(u.list[i]) <=> IsStr(v.list[i])
      <4> TAKE i \in DOMAIN v.list
      <4>1. Shallow(v.list[i]) /\ ValuePart(v.list[i])
        <5>1. v.list[i] \in Parts(r)
          BY <1>1, <3>3, PartsAreClosed
        <5> QED BY <1>1, <5>1, PartsAreClosed DEF IsValue
      <4>2. u.list[i] \in CanonicalScalar(v.list[i])
        BY <3>2
      <4> QED BY <4>1, <4>2, CanonicalKinds DEF SameKind
    <3>7. \A x, h : IsList(x) => PythonStrScalarPart(x, h) = ReprList(x.list, h)
      BY DEF PythonStrScalarPart, IsStr, IsBool, IsDecimal, IsList
    <3> DEFINE fv == [z \in Parts(v) |-> PythonStrScalar(z)]
               fu == [z \in Parts(u) |-> PythonStrScalar(z)]
    <3>8. \A i \in DOMAIN v.list : fv[v.list[i]] = fu[u.list[i]]
      BY <3>2, <3>3, <3>4, <3>5
    <3>9. IsList(u)
      BY <2>6, <3>2 DEF SameKind
    <3>10. PythonStrScalar(v) = ReprList(v.list, fv) /\ PythonStrScalar(u) = ReprList(u.list, fu)
      BY <2>3, <2>6, <3>7, <3>9
    <3> HIDE DEF fv, fu
    <3>11. ReprList(v.list, fv) = ReprList(u.list, fu)
      <4>1. \A i \in DOMAIN v.list :
              Repr(IsStr(v.list[i]), fv[v.list[i]]) = Repr(IsStr(u.list[i]), fu[u.list[i]])
        BY <3>6, <3>8 DEF Repr
      <4> QED BY <3>2, <4>1 DEF ReprList
    <3> QED BY <3>10, <3>11
  <2> QED BY <2>1, <2>4, <2>5, <2>6 DEF ValuePart
<1> HIDE DEF S
<1>3. Parts(r) \subseteq S
  BY <1>1, <1>2, NestingInduction
<1> QED BY <1>1, <1>3 DEF S

(* A fact's lists are lists.                                               *)
FactPart(x) == IsList(x) => IsASeq(x.list)
IsFact(v) == Shallow(v) /\ \A x \in Parts(v) : FactPart(x)

(* One step of the comparison of a fact's part with an operand's.          *)
SameValue(x, y, f) ==
  IF AsNumber(x) # {} /\ OperandAsNumber(y) # {}
  THEN \A a \in AsNumber(x), b \in OperandAsNumber(y) : SameNumber(a, b)
  ELSE \/ IsStr(x) /\ IsStr(y) /\ x.str = y.str
       \/ /\ IsList(x) /\ IsList(y) /\ Len(x.list) = Len(y.list)
          /\ \A i \in DOMAIN x.list : y.list[i] \in f[x.list[i]]

EqualsBody(x, w, f) == { y \in Parts(w) : SameValue(x, y, f) }

LEMMA EqualsLocal ==
  ASSUME NEW x, NEW w, NEW f, NEW g, \A z \in Below(x) : f[z] = g[z]
  PROVE  EqualsBody(x, w, f) = EqualsBody(x, w, g)
<1>1. CASE IsList(x)
  <2>1. \A i \in DOMAIN x.list : x.list[i] \in Below(x)
    BY <1>1, ItemsAreInside, InsideIsBelow DEF IsList
  <2>2. \A i \in DOMAIN x.list : f[x.list[i]] = g[x.list[i]]
    BY <2>1
  <2>3. \A y : SameValue(x, y, f) <=> SameValue(x, y, g)
    BY <2>2, Zenon DEF SameValue
  <2> QED BY <2>3 DEF EqualsBody
<1>2. CASE ~ IsList(x)
  <2>1. \A y : SameValue(x, y, f) <=> SameValue(x, y, g)
    BY <1>2, Zenon DEF SameValue
  <2> QED BY <2>1 DEF EqualsBody
<1> QED BY <1>1, <1>2

LEMMA EqualsExists ==
  ASSUME NEW r, Shallow(r), NEW w
  PROVE  \E f : f = [x \in Parts(r) |-> EqualsBody(x, w, f)]
<1> DEFINE S == {n \in Nat : n <= MaxDepth + 1
                   => \E f : f = [x \in Lower(r, n) |-> EqualsBody(x, w, f)]}
<1>1. 0 \in S
  <2> DEFINE f == [x \in Lower(r, 0) |-> EqualsBody(x, w, <<>>)]
  <2>1. f = [x \in Lower(r, 0) |-> EqualsBody(x, w, f)]
    BY LowerGrows
  <2> QED BY <2>1, Zenon
<1>2. ASSUME NEW n \in Nat, n \in S PROVE n + 1 \in S
  <2> SUFFICES ASSUME n + 1 <= MaxDepth + 1
               PROVE  \E f : f = [x \in Lower(r, n + 1) |-> EqualsBody(x, w, f)]
    OBVIOUS
  <2>1. n <= MaxDepth /\ n <= MaxDepth + 1
    BY DepthAssumption
  <2>2. PICK f : f = [x \in Lower(r, n) |-> EqualsBody(x, w, f)]
    BY <1>2, <2>1
  <2> DEFINE g == [x \in Lower(r, n + 1) |-> EqualsBody(x, w, f)]
  <2>3. \A x \in Lower(r, n) : f[x] = EqualsBody(x, w, f)
    BY <2>2, Zenon
  <2>4. Lower(r, n) \subseteq Lower(r, n + 1)
    BY <2>1, LowerOnLower
  <2>5. \A x \in Lower(r, n) : g[x] = f[x]
    BY <2>3, <2>4
  <2>6. ASSUME NEW x \in Lower(r, n + 1) PROVE EqualsBody(x, w, f) = EqualsBody(x, w, g)
    <3>1. Below(x) \subseteq Lower(r, n)
      BY <2>1, LowerGrows
    <3> HIDE DEF g
    <3> QED BY <2>5, <3>1, EqualsLocal
  <2>7. g = [x \in Lower(r, n + 1) |-> EqualsBody(x, w, g)]
    BY <2>6
  <2> QED BY <2>7, Zenon
<1> HIDE DEF S
<1>3. Nat \subseteq S
  BY <1>1, <1>2, NatSetInduction
<1>4. \E f : f = [x \in Lower(r, MaxDepth + 1) |-> EqualsBody(x, w, f)]
  BY <1>3, DepthAssumption DEF S
<1> QED BY <1>4, LowerGrows

LEMMA LenOfSeq ==
  ASSUME NEW s, IsASeq(s)
  PROVE  Len(s) \in Nat /\ DOMAIN s = 1 .. Len(s)
<1>1. PICK n \in Nat : s = [i \in 1 .. n |-> s[i]]
  BY DEF IsASeq
<1>2. DOMAIN s = 1 .. n
  BY <1>1
<1>3. s \in Seq({ s[i] : i \in 1 .. n })
  BY <1>1
<1> QED BY <1>3

(* What a fact equals, it equals in canonical form.                        *)
LEMMA CanonicalEquals ==
  ASSUME NEW a, IsFact(a), NEW w, IsValue(w), NEW u \in CanonicalScalar(w)
  PROVE  EvalEq(a, u) <=> EvalEq(a, w)
<1> DEFINE F(o) == CHOOSE f : f = [x \in Parts(a) |-> EqualsBody(x, o, f)]
<1>1. \A o : EvalEq(a, o) <=> o \in F(o)[a]
  BY Zenon DEF EvalEq, EqualsBody, SameValue
<1>2. \A o : \A x \in Parts(a) : F(o)[x] = EqualsBody(x, o, F(o))
  <2> TAKE o
  <2>1. \E f : f = [x \in Parts(a) |-> EqualsBody(x, o, f)]
    BY EqualsExists DEF IsFact
  <2>2. F(o) = [x \in Parts(a) |-> EqualsBody(x, o, F(o))]
    BY <2>1, Zenon
  <2> HIDE DEF F
  <2> QED BY <2>2
<1> HIDE DEF F
<1>3. Shallow(a) /\ Shallow(w) /\ w \in Parts(w) /\ a \in Parts(a)
  BY PartsAreClosed DEF IsFact, IsValue
<1>4. IsValue(u) /\ Shallow(u) /\ u \in Parts(u)
  <2>1. IsValue(u)
    BY <1>3, CanonicalValues
  <2> QED BY <2>1, PartsAreClosed DEF IsValue
<1> DEFINE Alike(x) == \A y \in Parts(w) : \A z \in Parts(u) :
                         z \in CanonicalScalar(y) => (y \in F(w)[x] <=> z \in F(u)[x])
           S == {x \in Parts(a) : Alike(x)}
<1>5. ASSUME NEW x \in Parts(a), Below(x) \subseteq S PROVE x \in S
  <2> SUFFICES ASSUME NEW y \in Parts(w), NEW z \in Parts(u), z \in CanonicalScalar(y)
               PROVE  y \in F(w)[x] <=> z \in F(u)[x]
    OBVIOUS
  <2>1. (y \in F(w)[x] <=> SameValue(x, y, F(w))) /\ (z \in F(u)[x] <=> SameValue(x, z, F(u)))
    BY <1>2 DEF EqualsBody
  <2>2. Shallow(y) /\ ValuePart(y)
    BY <1>3, PartsAreClosed DEF IsValue
  <2>3. SameKind(z, y)
    BY <2>2, CanonicalKinds
  <2>4. OperandAsNumber(z) = OperandAsNumber(y)
    BY <2>2, CanonicalNumbers
  <2>5. IsList(x) => IsASeq(x.list)
    BY DEF IsFact, FactPart
  <2>6. CASE AsNumber(x) # {} /\ OperandAsNumber(y) # {}
    <3>1. SameValue(x, y, F(w)) <=> \A n \in AsNumber(x), b \in OperandAsNumber(y) : SameNumber(n, b)
      BY <2>6 DEF SameValue
    <3>2. SameValue(x, z, F(u)) <=> \A n \in AsNumber(x), b \in OperandAsNumber(y) : SameNumber(n, b)
      BY <2>4, <2>6 DEF SameValue
    <3> QED BY <2>1, <3>1, <3>2
  <2>7. CASE ~ (AsNumber(x) # {} /\ OperandAsNumber(y) # {}) /\ IsList(y)
    <3>1. IsASeq(y.list)
      BY <2>2, <2>7 DEF ValuePart, IsStr, IsBool, IsDecimal, IsList
    <3>2. /\ DOMAIN z.list = DOMAIN y.list /\ ValuePart(z)
          /\ \A i \in DOMAIN y.list : z.list[i] \in CanonicalScalar(y.list[i])
      BY <2>2, <2>7, <3>1, CanonicalLists
    <3>3. IsList(z)
      BY <2>3, <2>7 DEF SameKind
    <3>4. IsASeq(z.list)
      BY <3>2, <3>3 DEF ValuePart, IsStr, IsBool, IsDecimal, IsList
    <3>5. Len(z.list) = Len(y.list)
      <4>1. Len(z.list) \in Nat /\ Len(y.list) \in Nat /\ 1 .. Len(z.list) = 1 .. Len(y.list)
        BY <3>1, <3>2, <3>4, LenOfSeq
      <4> QED BY <4>1
    <3>6. ~ IsStr(y) /\ ~ IsStr(z)
      BY <2>7, <3>3 DEF IsStr, IsList
    <3>7. ASSUME IsList(x), Len(x.list) = Len(y.list), NEW i \in DOMAIN x.list
          PROVE  y.list[i] \in F(w)[x.list[i]] <=> z.list[i] \in F(u)[x.list[i]]
      <4>1. i \in DOMAIN y.list
        BY <2>5, <3>1, <3>7, LenOfSeq
      <4>2. y.list[i] \in Parts(w)
        <5>1. y.list[i] \in Inside(y)
          BY <2>7, <4>1, ItemsAreInside DEF IsList
        <5> QED BY <1>3, <5>1, PartsAreClosed
      <4>3. z.list[i] \in Parts(u)
        <5>1. z.list[i] \in Inside(z)
          BY <3>2, <3>3, <4>1, ItemsAreInside DEF IsList
        <5> QED BY <1>4, <5>1, PartsAreClosed
      <4>4. x.list[i] \in Below(x)
        BY <3>7, ItemsAreInside, InsideIsBelow DEF IsList
      <4>5. Alike(x.list[i])
        BY <1>5, <4>4
      <4> QED BY <3>2, <4>1, <4>2, <4>3, <4>5
    <3> HIDE DEF Alike
    <3>8. SameValue(x, y, F(w)) <=> /\ IsList(x) /\ Len(x.list) = Len(y.list)
                                    /\ \A i \in DOMAIN x.list : y.list[i] \in F(w)[x.list[i]]
      BY <2>7, <3>6 DEF SameValue
    <3>9. SameValue(x, z, F(u)) <=> /\ IsList(x) /\ Len(x.list) = Len(z.list)
                                    /\ \A i \in DOMAIN x.list : z.list[i] \in F(u)[x.list[i]]
      BY <2>4, <2>7, <3>3, <3>6 DEF SameValue
    <3> QED BY <2>1, <3>5, <3>7, <3>8, <3>9
  <2>8. CASE ~ (AsNumber(x) # {} /\ OperandAsNumber(y) # {}) /\ ~ IsList(y)
    <3>1. ~ IsList(z)
      BY <2>3, <2>8 DEF SameKind
    <3>2. SameValue(x, y, F(w)) <=> IsStr(x) /\ IsStr(y) /\ x.str = y.str
      BY <2>8 DEF SameValue
    <3>3. SameValue(x, z, F(u)) <=> IsStr(x) /\ IsStr(z) /\ x.str = z.str
      BY <2>4, <2>8, <3>1 DEF SameValue
    <3>4. IsStr(y) => z = y
      BY <2>2, <2>8, CanonicalAtoms
    <3>5. IsStr(z) <=> IsStr(y)
      BY <2>3 DEF SameKind
    <3> QED BY <2>1, <3>2, <3>3, <3>4, <3>5
  <2> QED BY <2>6, <2>7, <2>8
<1> HIDE DEF S
<1>6. Parts(a) \subseteq S
  BY <1>3, <1>5, NestingInduction
<1>7. Alike(a)
  BY <1>3, <1>6 DEF S
<1> QED BY <1>1, <1>3, <1>4, <1>7

LEMMA CanonicalOrders ==
  ASSUME NEW a, NEW w, IsValue(w), NEW u \in CanonicalScalar(w), NEW op
  PROVE  EvalOrd(a, u, op) <=> EvalOrd(a, w, op)
<1>1. Shallow(w) /\ ValuePart(w)
  BY PartsAreClosed DEF IsValue
<1>2. SameKind(u, w)
  BY <1>1, CanonicalKinds
<1>3. IsStr(w) => u = w
  BY <1>1, CanonicalAtoms DEF IsStr, IsList
<1> DEFINE Orders(n, b) == ApplyOrd(LessNumber(n, b), LessNumber(b, n), op)
           ByText(o) == /\ IsStr(a) /\ IsStr(o)
                        /\ ApplyOrd(TextLess(a.str, o.str), TextLess(o.str, a.str), op)
           ByNumber(o) == \E n \in AsNumber(a), b \in OperandAsNumber(o) : Orders(n, b)
<1>4. ByText(u) <=> ByText(w)
  BY <1>2, <1>3 DEF SameKind
<1>5. ByNumber(u) <=> ByNumber(w)
  BY <1>1, CanonicalNumbers
<1>6. \A o : EvalOrd(a, o, op) <=> ByNumber(o) \/ ByText(o)
  BY Zenon DEF EvalOrd
<1> HIDE DEF ByNumber, ByText
<1> QED BY <1>4, <1>5, <1>6

LEMMA CanonicalMembers ==
  ASSUME NEW a, NEW w, IsValue(w), NEW u \in CanonicalScalar(w),
         IsList(w) => \A v \in Parts(w) : ~ BecomesInteger(v)
  PROVE  EvalIn(a, u) <=> EvalIn(a, w)
<1>1. Shallow(w) /\ ValuePart(w)
  BY PartsAreClosed DEF IsValue
<1>2. IsList(u) <=> IsList(w)
  BY <1>1, CanonicalKinds DEF SameKind
<1>3. CASE ~ IsList(w)
  BY <1>2, <1>3 DEF EvalIn
<1>4. CASE IsList(w)
  <2>1. IsASeq(w.list)
    BY <1>1, <1>4 DEF ValuePart, IsStr, IsBool, IsDecimal, IsList
  <2>2. /\ DOMAIN u.list = DOMAIN w.list
        /\ \A i \in DOMAIN w.list : u.list[i] \in CanonicalScalar(w.list[i])
    BY <1>1, <1>4, <2>1, CanonicalLists
  <2>3. ASSUME NEW i \in DOMAIN w.list
        PROVE  PythonStrScalar(u.list[i]) = PythonStrScalar(w.list[i])
    <3>1. w.list[i] \in Parts(w)
      <4>1. w.list[i] \in Inside(w)
        BY <1>4, ItemsAreInside DEF IsList
      <4> QED BY <1>1, <4>1, PartsAreClosed
    <3>2. Shallow(w.list[i]) /\ Parts(w.list[i]) \subseteq Parts(w)
      BY <1>1, <3>1, PartsAreClosed
    <3>3. IsValue(w.list[i]) /\ \A v \in Parts(w.list[i]) : ~ BecomesInteger(v)
      BY <1>4, <3>2 DEF IsValue
    <3> QED BY <2>2, <3>3, CanonicalValuesPrint
  <2> QED BY <1>2, <1>4, <2>2, <2>3 DEF EvalIn
<1> QED BY <1>3, <1>4

(* A condition that is not of the excepted kind.                           *)
Decides(c) ==
  c.operator \in {"in", "not_in"} /\ IsList(c.value) =>
    \A v \in Parts(c.value) : ~ BecomesInteger(v)

AreFacts(facts) == \A f \in DOMAIN facts : IsFact(facts[f])

LEMMA LookedUpIsFact ==
  ASSUME NEW facts, AreFacts(facts), NEW f
  PROVE  IsFact(Lookup(facts, f))
<1>1. IsFact(Null)
  <2>1. Inside(Null) = {}
    <3>1. \A k \in DOMAIN Null : Held(Null, k) = {}
      <4> TAKE k \in DOMAIN Null
      <4>1. k \notin {"list", "seq", "items", "all", "true_branch", "branches", "map"}
        BY DEF Null
      <4> QED BY <4>1, HeldByKey
    <3> QED BY <3>1 DEF Inside
  <2>2. FactPart(Null)
    BY DEF Null, IsList, FactPart
  <2> QED BY <2>1, <2>2, NothingInside DEF IsFact
<1> QED BY <1>1 DEF Lookup, AreFacts

(* It holds of the facts as it does in canonical form.                     *)
LEMMA CanonicalConditionsDecide ==
  ASSUME NEW c, IsCond(c), Decides(c), NEW d \in CanonicalCondition(c),
         NEW facts, AreFacts(facts)
  PROVE  Holds(d, facts) = Holds(c, facts) /\ NormStep(d, facts) = NormStep(c, facts)
<1>1. d.field = c.field /\ d.operator = c.operator /\ d.value \in CanonicalScalar(c.value)
  BY CanonicalConditions
<1> DEFINE a == Lookup(facts, c.field)
           op == c.operator
<1>2. IsFact(a)
  BY LookedUpIsFact
<1>4. IsValue(c.value)
  BY DEF IsCond
<1>5. EvalEq(a, d.value) <=> EvalEq(a, c.value)
  BY <1>1, <1>2, <1>4, CanonicalEquals
<1>6. EvalOrd(a, d.value, op) <=> EvalOrd(a, c.value, op)
  BY <1>1, <1>4, CanonicalOrders
<1>7. op \in {"in", "not_in"} => (EvalIn(a, d.value) <=> EvalIn(a, c.value))
  BY <1>1, <1>4, CanonicalMembers DEF Decides
<1>8. Holds(d, facts) = Compare(a, op, d.value) /\ Holds(c, facts) = Compare(a, op, c.value)
  BY <1>1 DEF Holds
<1> HIDE DEF a, op
<1>9. Compare(a, op, d.value) <=> Compare(a, op, c.value)
  <2>1. CASE op = "=="
    BY <1>5, <2>1 DEF Compare
  <2>2. CASE op = "!="
    BY <1>5, <2>2 DEF Compare
  <2>3. CASE op = "in"
    BY <1>7, <2>3 DEF Compare
  <2>4. CASE op = "not_in"
    BY <1>7, <2>4 DEF Compare
  <2>5. CASE op = "exists"
    BY <2>5 DEF Compare
  <2>6. CASE op \notin {"==", "!=", "in", "not_in", "exists"}
    BY <1>6, <2>6 DEF Compare
  <2> QED BY <2>1, <2>2, <2>3, <2>4, <2>5, <2>6
<1>10. Holds(d, facts) \in BOOLEAN /\ Holds(c, facts) \in BOOLEAN
  BY HoldsIsBoolean
<1>11. Holds(d, facts) = Holds(c, facts)
  BY <1>8, <1>9, <1>10
<1> QED BY <1>1, <1>11 DEF NormStep

(* Canonical groups splice into the canonical conditions, in order.        *)
Rewritten(C) == UNION { { <<c, d>> : d \in CanonicalCondition(c) } : c \in C }

LEMMA CanonicalMembersOfGroup ==
  ASSUME NEW g, Shallow(g), OneSided(g), NEW h \in CanonicalGroup(g)
  PROVE  /\ DOMAIN Members(h) = DOMAIN Members(g)
         /\ \A i \in DOMAIN Members(g) : Members(h)[i] \in CanonicalGroup(Members(g)[i])
         /\ GroupMode(h) = GroupMode(g)
<1>1. OneSided(h) /\ SameSides(h, g)
  BY CanonicalGroupSides
<1>2. PICK s : /\ IsASeq(s)
               /\ \/ g.all = {s} /\ g.any = {}
                  \/ g.all = {} /\ g.any = {s}
  BY Zenon DEF OneSided
<1>3. PICK t : /\ DOMAIN t = DOMAIN s
               /\ \A i \in DOMAIN s : t[i] \in CanonicalGroup(s[i])
               /\ \/ g.all = {s} /\ g.any = {} /\ h.all = {t} /\ h.any = {}
                  \/ g.all = {} /\ g.any = {s} /\ h.all = {} /\ h.any = {t}
  <2>1. CASE g.all = {s} /\ g.any = {}
    BY <1>1, <2>1 DEF SameSides
  <2>2. CASE g.all = {} /\ g.any = {s}
    BY <1>1, <2>2 DEF SameSides
  <2> QED BY <1>2, <2>1, <2>2
<1>4. g.all \cup g.any = {s} /\ h.all \cup h.any = {t}
  BY <1>3
<1>5. Members(g) = s /\ Members(h) = t
  BY <1>1, <1>4, MembersAreASeq
<1>6. IsASeq(t)
  <2>1. PICK n \in Nat : s = [i \in 1 .. n |-> s[i]]
    BY <1>2 DEF IsASeq
  <2>2. IsASeq(Members(h))
    BY <1>1, MembersAreASeq
  <2> QED BY <1>5, <2>2
<1>7. s = <<>> <=> t = <<>>
  <2>1. \A z : IsASeq(z) => (z = <<>> <=> DOMAIN z = {})
    <3> SUFFICES ASSUME NEW z, IsASeq(z) PROVE z = <<>> <=> DOMAIN z = {}
      OBVIOUS
    <3>1. PICK n \in Nat : z = [i \in 1 .. n |-> z[i]]
      BY DEF IsASeq
    <3>2. z \in Seq({ z[i] : i \in 1 .. n }) /\ DOMAIN z = 1 .. n
      BY <3>1
    <3> QED BY <3>2
  <2> QED BY <1>2, <1>3, <1>6, <2>1
<1>8. GroupMode(h) = GroupMode(g)
  BY <1>3, <1>7 DEF GroupMode, NonEmpty
<1> QED BY <1>3, <1>5, <1>8

(* A spliced group is its members' splicings, one after the other.         *)
LEMMA SplicedInPlace ==
  ASSUME NEW x, Shallow(x), OneSided(x), NEW E, \A y \in Below(x) : Flatten(y) \in Seq(E)
  PROVE  \E s \in Seq(Seq(E)) : /\ Flatten(x) = FlattenSeq(s)
                                /\ DOMAIN s = DOMAIN Members(x)
                                /\ \A i \in DOMAIN s : s[i] = Flatten(Members(x)[i])
<1> DEFINE f == [z \in Parts(x) |-> Flatten(z)]
           seqs == [i \in DOMAIN Members(x) |-> f[Members(x)[i]]]
<1>1. IsGroup(x)
  BY DEF OneSided, IsGroup
<1>2. Flatten(x) = FlattenSeq(seqs)
  <2>1. Flatten(x) = FlattenBody(x, f)
    BY FlattenUnfolds
  <2> HIDE DEF f
  <2> QED BY <1>1, <2>1 DEF FlattenBody
<1>3. \A i \in DOMAIN Members(x) : Members(x)[i] \in Below(x) /\ Members(x)[i] \in Parts(x)
  BY <1>1, MembersAreBelow, PartsAreClosed
<1>4. \A i \in DOMAIN Members(x) : seqs[i] = Flatten(Members(x)[i])
  BY <1>3
<1> HIDE DEF f
<1>5. PICK n \in Nat : DOMAIN Members(x) = 1 .. n
  <2>1. PICK n \in Nat : Members(x) = [i \in 1 .. n |-> Members(x)[i]]
    BY MembersAreASeq DEF IsASeq
  <2> QED BY <2>1
<1>6. seqs \in Seq(Seq(E))
  <2>1. \A i \in 1 .. n : seqs[i] \in Seq(E)
    BY <1>3, <1>4, <1>5
  <2>2. seqs = [i \in 1 .. n |-> seqs[i]]
    BY <1>5
  <2> HIDE DEF seqs
  <2> QED BY <2>1, <2>2
<1>7. DOMAIN seqs = DOMAIN Members(x)
  OBVIOUS
<1> HIDE DEF seqs
<1> QED BY <1>2, <1>4, <1>6, <1>7

LEMMA CanonicalGroupsSplice ==
  ASSUME NEW g, GroupShape(g)
  PROVE  \A x \in Parts(g) : \A h \in CanonicalGroup(x) :
           Match(Flatten(x), Flatten(h), Rewritten(ConditionsIn(g)))
<1> DEFINE R == Rewritten(ConditionsIn(g))
           S == { x \in Parts(g) : \A h \in CanonicalGroup(x) : Match(Flatten(x), Flatten(h), R) }
<1>1. Shallow(g)
  BY DEF GroupShape
<1>2. ASSUME NEW x \in Parts(g), Below(x) \subseteq S PROVE x \in S
  <2> SUFFICES ASSUME NEW h \in CanonicalGroup(x) PROVE Match(Flatten(x), Flatten(h), R)
    OBVIOUS
  <2>1. Shallow(x) /\ (IsCond(x) \/ OneSided(x))
    BY <1>1, PartsAreClosed DEF GroupShape
  <2>2. GroupShape(h) /\ Shallow(h)
    BY CanonicalGroups DEF GroupShape
  <2>3. CASE IsCond(x)
    <3>1. Flatten(x) = <<x>> /\ x \in ConditionsIn(g)
      BY <2>1, <2>3, SplicedConditions, CondOrGroup DEF ConditionsIn
    <3>2. h \in CanonicalCondition(x)
      BY <2>1, <2>3, CondOrGroup, CanonicalGroupConditions
    <3>3. Flatten(h) = <<h>>
      BY <2>2, <2>3, <3>2, CanonicalConditions, SplicedConditions, CondOrGroup
    <3>4. <<x, h>> \in R
      BY <3>1, <3>2 DEF Rewritten
    <3> HIDE DEF R
    <3>5. DOMAIN <<x>> = {1} /\ DOMAIN <<h>> = {1} /\ <<x>>[1] = x /\ <<h>>[1] = h
      OBVIOUS
    <3> QED BY <3>1, <3>3, <3>4, <3>5, Zenon DEF Match
  <2>4. CASE OneSided(x)
    <3> DEFINE E == ConditionsIn(g)
               G == ConditionsIn(h)
    <3> HIDE DEF R
    <3>1. OneSided(h)
      BY <2>1, <2>4, CanonicalGroupSides
    <3>2. \A y \in Below(x) : Flatten(y) \in Seq(E)
      BY <1>1, FlattenIsSeq, PartsAreClosed
    <3>3. \A y \in Below(h) : Flatten(y) \in Seq(G)
      BY <2>2, FlattenIsSeq, PartsAreClosed
    <3>4. PICK s \in Seq(Seq(E)) : /\ Flatten(x) = FlattenSeq(s)
                                   /\ DOMAIN s = DOMAIN Members(x)
                                   /\ \A i \in DOMAIN s : s[i] = Flatten(Members(x)[i])
      BY <2>1, <2>4, <3>2, SplicedInPlace
    <3>5. PICK t \in Seq(Seq(G)) : /\ Flatten(h) = FlattenSeq(t)
                                   /\ DOMAIN t = DOMAIN Members(h)
                                   /\ \A i \in DOMAIN t : t[i] = Flatten(Members(h)[i])
      BY <2>2, <3>1, <3>3, SplicedInPlace
    <3>6. /\ DOMAIN Members(h) = DOMAIN Members(x)
          /\ \A i \in DOMAIN Members(x) : Members(h)[i] \in CanonicalGroup(Members(x)[i])
      BY <2>1, <2>4, CanonicalMembersOfGroup
    <3>7. \A i \in DOMAIN Members(x) : Members(x)[i] \in S
      BY <1>2, <2>4, CondOrGroup, MembersAreBelow
    <3>8. \A i \in DOMAIN s : Match(s[i], t[i], R)
      BY <3>4, <3>5, <3>6, <3>7
    <3> HIDE DEF E, G
    <3>9. Match(FlattenSeq(s), FlattenSeq(t), R)
      BY <3>4, <3>5, <3>6, <3>8, FlattenMatches
    <3> QED BY <3>4, <3>5, <3>9
  <2> QED BY <2>1, <2>3, <2>4
<1> HIDE DEF S
<1>3. Parts(g) \subseteq S
  BY <1>1, <1>2, NestingInduction
<1> QED BY <1>3 DEF S

(* What is checked, and what it settles, stays.                            *)
LEMMA ChecksOfOne ==
  ASSUME NEW g, NEW E, Flatten(g) \in Seq(E)
  PROVE  FlattenSeq(SetToSeq({ Flatten(x) : x \in {g} })) = Flatten(g)
<1>1. { Flatten(x) : x \in {g} } = {Flatten(g)}
  OBVIOUS
<1>2. SetToSeq({Flatten(g)}) = <<Flatten(g)>>
  BY SeqOfOne
<1>3. FlattenSeq(<<Flatten(g)>>) = Flatten(g)
  BY FlattenOfOne
<1> QED BY <1>1, <1>2, <1>3

LEMMA CanonicalGroupsDecide ==
  ASSUME NEW g, GroupShape(g), OneSided(g), NEW h \in CanonicalGroup(g),
         \A c \in ToSet(Flatten(g)) : Decides(c),
         NEW facts, AreFacts(facts)
  PROVE  Applicability({h}, facts) = Applicability({g}, facts)
<1> DEFINE A == Flatten(g)
           B == Flatten(h)
           R == Rewritten(ConditionsIn(g))
<1>1. Shallow(g) /\ g \in Parts(g)
  BY PartsAreClosed DEF GroupShape
<1>2. GroupShape(h) /\ Shallow(h) /\ h \in Parts(h)
  BY <1>1, CanonicalGroups, PartsAreClosed DEF GroupShape
<1>3. A \in Seq(ConditionsIn(g)) /\ B \in Seq(ConditionsIn(h))
  BY <1>1, <1>2, FlattenIsSeq
<1>4. Match(A, B, R)
  BY <1>1, CanonicalGroupsSplice
<1>5. GroupMode(h) = GroupMode(g)
  BY <1>1, CanonicalMembersOfGroup
<1>6. DOMAIN A = DOMAIN B
  BY <1>4 DEF Match
<1>7. \A i \in DOMAIN A : /\ Holds(B[i], facts) = Holds(A[i], facts)
                          /\ NormStep(B[i], facts) = NormStep(A[i], facts)
  <2> SUFFICES ASSUME NEW i \in DOMAIN A
               PROVE  /\ Holds(B[i], facts) = Holds(A[i], facts)
                      /\ NormStep(B[i], facts) = NormStep(A[i], facts)
    OBVIOUS
  <2>1. A[i] \in ToSet(A) /\ A[i] \in ConditionsIn(g)
    BY <1>3 DEF ToSet
  <2>2. IsCond(A[i])
    BY <2>1, CondOrGroup DEF GroupShape, ConditionsIn
  <2>3. <<A[i], B[i]>> \in R
    BY <1>4 DEF Match
  <2>4. B[i] \in CanonicalCondition(A[i])
    <3> HIDE DEF A, B
    <3> QED BY <2>3 DEF Rewritten
  <2>5. Decides(A[i])
    BY <2>1
  <2> HIDE DEF A, B
  <2> QED BY <2>2, <2>4, <2>5, CanonicalConditionsDecide
<1> DEFINE checks(x) == FlattenSeq(SetToSeq({ Flatten(y) : y \in {x} }))
           all(x) == \A y \in {x} : GroupMode(y) = "all"
           settles(x) == { i \in DOMAIN checks(x) : Holds(checks(x)[i], facts) # all(x) }
           last(x) == IF settles(x) = {} THEN Len(checks(x)) ELSE Min(settles(x))
<1>8. \A x : Applicability({x}, facts)
        = [holds |-> checks(x) = <<>> \/ (settles(x) = {}) = all(x),
           steps |-> [i \in 1 .. last(x) |-> NormStep(checks(x)[i], facts)]]
  BY Zenon DEF Applicability
<1>9. checks(g) = A /\ checks(h) = B
  BY <1>3, ChecksOfOne
<1>10. all(g) = all(h)
  BY <1>5
<1> HIDE DEF checks, all, A, B, R
<1>11. settles(h) = settles(g)
  BY <1>6, <1>7, <1>9, <1>10
<1>12. Len(A) = Len(B) /\ DOMAIN A = 1 .. Len(A) /\ Len(A) \in Nat /\ (A = <<>> <=> B = <<>>)
  <2>1. DOMAIN A = 1 .. Len(A) /\ DOMAIN B = 1 .. Len(B) /\ Len(A) \in Nat /\ Len(B) \in Nat
    BY <1>3
  <2>2. ASSUME NEW m \in Nat, NEW n \in Nat, 1 .. m = 1 .. n, m < n PROVE FALSE
    <3>1. n \in 1 .. n /\ n \notin 1 .. m
      BY <2>2
    <3> QED BY <2>2, <3>1
  <2>3. Len(A) = Len(B)
    <3>1. 1 .. Len(A) = 1 .. Len(B)
      BY <1>6, <2>1, Zenon
    <3>2. ~ (Len(A) < Len(B)) /\ ~ (Len(B) < Len(A))
      BY <2>1, <2>2, <3>1
    <3>3. \A m, n \in Nat : ~ (m < n) /\ ~ (n < m) => m = n
      OBVIOUS
    <3> QED BY <2>1, <3>2, <3>3, Zenon
  <2>4. A = <<>> <=> Len(A) = 0
    BY <1>3
  <2>5. B = <<>> <=> Len(B) = 0
    BY <1>3
  <2> QED BY <2>1, <2>3, <2>4, <2>5
<1>13. last(h) = last(g) /\ 1 .. last(g) \subseteq DOMAIN A
  <2>1. settles(g) \subseteq 1 .. Len(A)
    BY <1>9, <1>12
  <2>2. last(h) = last(g)
    BY <1>9, <1>11, <1>12
  <2>3. CASE settles(g) = {}
    <3>1. last(g) = Len(A)
      BY <1>9, <2>3
    <3>2. 1 .. last(g) = DOMAIN A
      BY <1>12, <3>1, Zenon
    <3> QED BY <2>2, <3>2, Zenon
  <2>4. CASE settles(g) # {}
    <3> DEFINE S == settles(g)
    <3> HIDE DEF settles
    <3>1. S \subseteq Nat /\ S # {}
      BY <1>12, <2>1, <2>4
    <3>2. \E m \in S : \A k \in S : m <= k
      BY <3>1, LeastNatural
    <3>3. Min(S) \in S
      BY <3>2 DEF Min
    <3>4. Min(S) \in 1 .. Len(A)
      BY <2>1, <3>3
    <3>5. last(g) = Min(S)
      BY <2>4
    <3> QED BY <1>12, <2>2, <3>4, <3>5
  <2> QED BY <2>2, <2>3, <2>4
<1>14. [i \in 1 .. last(h) |-> NormStep(checks(h)[i], facts)]
         = [i \in 1 .. last(g) |-> NormStep(checks(g)[i], facts)]
  <2> HIDE DEF last, settles
  <2> QED BY <1>7, <1>9, <1>13
<1>15. (checks(h) = <<>> \/ (settles(h) = {}) = all(h))
         = (checks(g) = <<>> \/ (settles(g) = {}) = all(g))
  <2>1. checks(h) = <<>> <=> checks(g) = <<>>
    BY <1>9, <1>12
  <2> HIDE DEF settles
  <2> QED BY <1>10, <1>11, <2>1
<1> HIDE DEF last, settles
<1> QED BY <1>8, <1>14, <1>15

(* The conditions of a tree are those of its nodes.                        *)
CollectTreeBody(x, conditions) ==
  IF IsLeaf(x) THEN <<>>
  ELSE <<x.condition>> \o conditions[x.true_branch] \o conditions[x.false_branch]

LEMMA CollectTreeLocal ==
  ASSUME NEW x, NEW f, NEW g, \A z \in Below(x) : f[z] = g[z]
  PROVE  CollectTreeBody(x, f) = CollectTreeBody(x, g)
<1>1. CASE IsLeaf(x)
  BY <1>1, Zenon DEF CollectTreeBody
<1>2. CASE ~ IsLeaf(x)
  <2>1. f[x.true_branch] = g[x.true_branch] /\ f[x.false_branch] = g[x.false_branch]
    BY <1>2, BranchesAreBelow
  <2> QED BY <2>1, Zenon DEF CollectTreeBody
<1> QED BY <1>1, <1>2

LEMMA CollectTreeExists ==
  ASSUME NEW r, Shallow(r)
  PROVE  \E f : f = [x \in Parts(r) |-> CollectTreeBody(x, f)]
<1> DEFINE S == {n \in Nat : n <= MaxDepth + 1
                   => \E f : f = [x \in Lower(r, n) |-> CollectTreeBody(x, f)]}
<1>1. 0 \in S
  <2> DEFINE f == [x \in Lower(r, 0) |-> CollectTreeBody(x, <<>>)]
  <2>1. f = [x \in Lower(r, 0) |-> CollectTreeBody(x, f)]
    BY LowerGrows
  <2> QED BY <2>1, Zenon
<1>2. ASSUME NEW n \in Nat, n \in S PROVE n + 1 \in S
  <2> SUFFICES ASSUME n + 1 <= MaxDepth + 1
               PROVE  \E f : f = [x \in Lower(r, n + 1) |-> CollectTreeBody(x, f)]
    OBVIOUS
  <2>1. n <= MaxDepth /\ n <= MaxDepth + 1
    BY DepthAssumption
  <2>2. PICK f : f = [x \in Lower(r, n) |-> CollectTreeBody(x, f)]
    BY <1>2, <2>1
  <2> DEFINE g == [x \in Lower(r, n + 1) |-> CollectTreeBody(x, f)]
  <2>3. \A x \in Lower(r, n) : f[x] = CollectTreeBody(x, f)
    BY <2>2, Zenon
  <2>4. Lower(r, n) \subseteq Lower(r, n + 1)
    BY <2>1, LowerOnLower
  <2>5. \A x \in Lower(r, n) : g[x] = f[x]
    BY <2>3, <2>4
  <2>6. ASSUME NEW x \in Lower(r, n + 1) PROVE CollectTreeBody(x, f) = CollectTreeBody(x, g)
    <3>1. Below(x) \subseteq Lower(r, n)
      BY <2>1, LowerGrows
    <3> HIDE DEF g
    <3> QED BY <2>5, <3>1, CollectTreeLocal
  <2>7. g = [x \in Lower(r, n + 1) |-> CollectTreeBody(x, g)]
    BY <2>6
  <2> QED BY <2>7, Zenon
<1> HIDE DEF S
<1>3. Nat \subseteq S
  BY <1>1, <1>2, NatSetInduction
<1>4. \E f : f = [x \in Lower(r, MaxDepth + 1) |-> CollectTreeBody(x, f)]
  BY <1>3, DepthAssumption DEF S
<1> QED BY <1>4, LowerGrows

LEMMA CollectTreeUnfolds ==
  ASSUME NEW r, Shallow(r)
  PROVE  CollectTree(r) = CollectTreeBody(r, [z \in Parts(r) |-> CollectTree(z)])
<1> DEFINE F(x) == CHOOSE f : f = [z \in Parts(x) |-> CollectTreeBody(z, f)]
<1>1. ASSUME NEW x, Shallow(x)
      PROVE  /\ CollectTree(x) = F(x)[x]
             /\ \A z \in Parts(x) : F(x)[z] = CollectTreeBody(z, F(x))
  <2>1. CollectTree(x) = F(x)[x]
    BY Zenon DEF CollectTree, CollectTreeBody
  <2>2. \E f : f = [z \in Parts(x) |-> CollectTreeBody(z, f)]
    BY <1>1, CollectTreeExists
  <2>3. F(x) = [z \in Parts(x) |-> CollectTreeBody(z, F(x))]
    BY <2>2, Zenon
  <2> HIDE DEF F
  <2> QED BY <2>1, <2>3
<1> HIDE DEF F
<1>2. ASSUME NEW z \in Parts(r) PROVE F(r)[z] = CollectTree(z)
  <2>1. Shallow(z) /\ Parts(z) \subseteq Parts(r)
    BY PartsAreClosed
  <2>2. ASSUME NEW y \in Parts(z), \A w \in Below(y) : F(r)[w] = F(z)[w]
        PROVE  F(r)[y] = F(z)[y]
    <3>1. F(r)[y] = CollectTreeBody(y, F(r)) /\ F(z)[y] = CollectTreeBody(y, F(z))
      BY <1>1, <2>1
    <3> QED BY <2>2, <3>1, CollectTreeLocal
  <2>3. z \in Parts(z)
    BY <2>1, PartsAreClosed
  <2>4. F(r)[z] = F(z)[z]
    BY <2>1, <2>2, <2>3, NestedAgree
  <2> QED BY <1>1, <2>1, <2>4
<1>3. r \in Parts(r) /\ Below(r) \subseteq Parts(r)
  BY PartsAreClosed
<1>4. \A z \in Below(r) : F(r)[z] = [y \in Parts(r) |-> CollectTree(y)][z]
  BY <1>2, <1>3
<1>5. CollectTreeBody(r, F(r)) = CollectTreeBody(r, [z \in Parts(r) |-> CollectTree(z)])
  BY <1>4, CollectTreeLocal
<1> QED BY <1>1, <1>3, <1>5

Asked(r) == { x.condition : x \in { y \in Parts(r) : ~ IsLeaf(y) } }

LEMMA TreeConditions ==
  ASSUME NEW r, TreeShape(r)
  PROVE  \A x \in Parts(r) :
           /\ CollectTree(x) \in Seq(Asked(r))
           /\ IsNodeRecord(x) =>
                ToSet(CollectTree(x)) = {x.condition} \cup ToSet(CollectTree(x.true_branch))
                                          \cup ToSet(CollectTree(x.false_branch))
<1> DEFINE Good(x) == /\ CollectTree(x) \in Seq(Asked(r))
                      /\ IsNodeRecord(x) =>
                           ToSet(CollectTree(x))
                             = {x.condition} \cup ToSet(CollectTree(x.true_branch))
                                 \cup ToSet(CollectTree(x.false_branch))
           S == {x \in Parts(r) : Good(x)}
<1>1. Shallow(r)
  BY DEF TreeShape
<1>2. ASSUME NEW x \in Parts(r), Below(x) \subseteq S PROVE x \in S
  <2>1. Shallow(x) /\ (IsLeafRecord(x) \/ IsNodeRecord(x))
    BY <1>1, PartsAreClosed DEF TreeShape
  <2> DEFINE f == [z \in Parts(x) |-> CollectTree(z)]
  <2>2. CollectTree(x) = CollectTreeBody(x, f)
    BY <2>1, CollectTreeUnfolds
  <2>3. CASE IsLeafRecord(x)
    <3>1. IsLeaf(x) /\ ~ IsNodeRecord(x)
      BY <2>3, LeavesHoldNothing DEF IsLeafRecord, IsNodeRecord
    <3>2. CollectTree(x) = <<>>
      BY <2>2, <3>1, Zenon DEF CollectTreeBody
    <3> QED BY <3>1, <3>2
  <2>4. CASE IsNodeRecord(x)
    <3> DEFINE c == x.condition
               p == CollectTree(x.true_branch)
               q == CollectTree(x.false_branch)
    <3>1. ~ IsLeaf(x)
      BY <2>4 DEF IsNodeRecord, IsLeaf
    <3>2. /\ x.true_branch \in Below(x) /\ x.false_branch \in Below(x)
          /\ x.true_branch \in Parts(x) /\ x.false_branch \in Parts(x)
      BY <2>1, <3>1, BranchesAreBelow, PartsAreClosed
    <3>3. f[x.true_branch] = p /\ f[x.false_branch] = q
      BY <3>2
    <3>4. p \in Seq(Asked(r)) /\ q \in Seq(Asked(r))
      BY <1>2, <3>2
    <3>5. c \in Asked(r)
      BY <3>1 DEF Asked
    <3> HIDE DEF f, p, q, c
    <3>6. CollectTree(x) = <<c>> \o p \o q
      BY <2>2, <3>1, <3>3, Zenon DEF CollectTreeBody, c
    <3>7. <<c>> \in Seq(Asked(r)) /\ <<c>> \o p \in Seq(Asked(r))
      BY <3>4, <3>5
    <3>8. CollectTree(x) \in Seq(Asked(r))
      BY <3>4, <3>6, <3>7
    <3>9. ToSet(<<c>>) = {c}
      BY DEF ToSet
    <3>10. \A s, t \in Seq(Asked(r)) : ToSet(s \o t) = ToSet(s) \cup ToSet(t)
      BY JoinKeepsAll
    <3>11. ToSet(CollectTree(x)) = {c} \cup ToSet(p) \cup ToSet(q)
      <4>1. ToSet(<<c>> \o p) = {c} \cup ToSet(p)
        BY <3>4, <3>7, <3>9, <3>10
      <4>2. ToSet((<<c>> \o p) \o q) = ToSet(<<c>> \o p) \cup ToSet(q)
        BY <3>4, <3>7, <3>10, Zenon
      <4> QED BY <3>6, <4>1, <4>2
    <3> QED BY <3>8, <3>11 DEF c, p, q
  <2> QED BY <2>1, <2>3, <2>4
<1> HIDE DEF S
<1>3. Parts(r) \subseteq S
  BY <1>1, <1>2, NestingInduction
<1> QED BY <1>3 DEF S

LEMMA WalkOfNodes ==
  ASSUME NEW x, IsNodeRecord(x), Shallow(x), NEW facts
  PROVE  Walk(x, facts) = [Walk(Chosen(x, facts), facts)
                             EXCEPT !.path = <<NormStep(x.condition, facts)>> \o @]
<1> DEFINE f == [z \in Parts(x) |-> Walk(z, facts)]
<1>1. Walk(x, facts) = WalkBody(x, facts, f)
  BY WalkUnfolds
<1>2. ~ IsLeaf(x)
  BY DEF IsNodeRecord, IsLeaf
<1>3. Chosen(x, facts) \in Parts(x)
  BY <1>2, BranchesAreBelow, PartsAreClosed DEF Chosen
<1>4. f[Chosen(x, facts)] = Walk(Chosen(x, facts), facts)
  BY <1>3
<1> HIDE DEF f
<1> QED BY <1>1, <1>2, <1>4, Zenon DEF WalkBody

(* A canonical tree leads where the tree leads.                            *)
LEMMA CanonicalTreesDecide ==
  ASSUME NEW r, TreeShape(r), NEW facts, AreFacts(facts)
  PROVE  \A x \in Parts(r) : \A t \in CanonicalEntry(x) :
           (\A c \in ToSet(CollectTree(x)) : Decides(c)) => Walk(t, facts) = Walk(x, facts)
<1> DEFINE S == {x \in Parts(r) : \A t \in CanonicalEntry(x) :
                   (\A c \in ToSet(CollectTree(x)) : Decides(c))
                     => Walk(t, facts) = Walk(x, facts)}
<1>1. Shallow(r)
  BY DEF TreeShape
<1>2. ASSUME NEW x \in Parts(r), Below(x) \subseteq S PROVE x \in S
  <2> SUFFICES ASSUME NEW t \in CanonicalEntry(x), \A c \in ToSet(CollectTree(x)) : Decides(c)
               PROVE  Walk(t, facts) = Walk(x, facts)
    OBVIOUS
  <2>1. Shallow(x) /\ (IsLeafRecord(x) \/ IsNodeRecord(x))
    BY <1>1, PartsAreClosed DEF TreeShape
  <2>2. CASE IsLeafRecord(x)
    BY <2>2, CanonicalLeaves
  <2>3. CASE IsNodeRecord(x)
    <3>1. /\ IsNodeRecord(t) /\ t.condition \in CanonicalCondition(x.condition)
          /\ t.true_branch \in CanonicalEntry(x.true_branch)
          /\ t.false_branch \in CanonicalEntry(x.false_branch)
      BY <2>1, <2>3, CanonicalNodes
    <3>2. Shallow(t)
      BY CanonicalTreesMean DEF TreeShape
    <3>3. ToSet(CollectTree(x)) = {x.condition} \cup ToSet(CollectTree(x.true_branch))
                                    \cup ToSet(CollectTree(x.false_branch))
      BY <2>3, TreeConditions
    <3>4. x.true_branch \in S /\ x.false_branch \in S
      BY <1>2, <2>3, NodesHoldTheirBranches, InsideIsBelow
    <3>5. /\ Walk(t.true_branch, facts) = Walk(x.true_branch, facts)
          /\ Walk(t.false_branch, facts) = Walk(x.false_branch, facts)
      BY <3>1, <3>3, <3>4
    <3>6. IsCond(x.condition) /\ Decides(x.condition)
      BY <2>3, <3>3 DEF IsNodeRecord
    <3>7. /\ Holds(t.condition, facts) = Holds(x.condition, facts)
          /\ NormStep(t.condition, facts) = NormStep(x.condition, facts)
      BY <3>1, <3>6, CanonicalConditionsDecide
    <3>8. Walk(Chosen(t, facts), facts) = Walk(Chosen(x, facts), facts)
      BY <3>5, <3>7, Zenon DEF Chosen
    <3>9. Walk(x, facts) = [Walk(Chosen(x, facts), facts)
                              EXCEPT !.path = <<NormStep(x.condition, facts)>> \o @]
      BY <2>1, <2>3, WalkOfNodes
    <3>10. Walk(t, facts) = [Walk(Chosen(t, facts), facts)
                               EXCEPT !.path = <<NormStep(t.condition, facts)>> \o @]
      BY <3>1, <3>2, WalkOfNodes
    <3> QED BY <3>7, <3>8, <3>9, <3>10, Zenon
  <2> QED BY <2>1, <2>2, <2>3
<1> HIDE DEF S
<1>3. Parts(r) \subseteq S
  BY <1>1, <1>2, NestingInduction
<1> QED BY <1>3 DEF S

(* Facts. What is read from JSON is a fact, however it nests.              *)
LEMMA FromJsonLocal ==
  ASSUME NEW x, NEW f, NEW g, \A z \in Below(x) : f[z] = g[z]
  PROVE  FromJsonPart(x, f) = FromJsonPart(x, g)
<1>1. CASE "list" \in DOMAIN x
  <2>1. \A i \in DOMAIN x.list : x.list[i] \in Below(x)
    BY <1>1, ItemsAreInside, InsideIsBelow
  <2>2. [i \in DOMAIN x.list |-> f[x.list[i]]] = [i \in DOMAIN x.list |-> g[x.list[i]]]
    BY <2>1
  <2> QED BY <2>2, Zenon DEF FromJsonPart
<1>2. CASE "list" \notin DOMAIN x
  BY <1>2 DEF FromJsonPart
<1> QED BY <1>1, <1>2

LEMMA FromJsonExists ==
  ASSUME NEW r, Shallow(r)
  PROVE  \E f : f = [x \in Parts(r) |-> FromJsonPart(x, f)]
<1> DEFINE S == {n \in Nat : n <= MaxDepth + 1
                   => \E f : f = [x \in Lower(r, n) |-> FromJsonPart(x, f)]}
<1>1. 0 \in S
  <2> DEFINE f == [x \in Lower(r, 0) |-> FromJsonPart(x, <<>>)]
  <2>1. f = [x \in Lower(r, 0) |-> FromJsonPart(x, f)]
    BY LowerGrows
  <2> QED BY <2>1, Zenon
<1>2. ASSUME NEW n \in Nat, n \in S PROVE n + 1 \in S
  <2> SUFFICES ASSUME n + 1 <= MaxDepth + 1
               PROVE  \E f : f = [x \in Lower(r, n + 1) |-> FromJsonPart(x, f)]
    OBVIOUS
  <2>1. n <= MaxDepth /\ n <= MaxDepth + 1
    BY DepthAssumption
  <2>2. PICK f : f = [x \in Lower(r, n) |-> FromJsonPart(x, f)]
    BY <1>2, <2>1
  <2> DEFINE g == [x \in Lower(r, n + 1) |-> FromJsonPart(x, f)]
  <2>3. \A x \in Lower(r, n) : f[x] = FromJsonPart(x, f)
    BY <2>2, Zenon
  <2>4. Lower(r, n) \subseteq Lower(r, n + 1)
    BY <2>1, LowerOnLower
  <2>5. \A x \in Lower(r, n) : g[x] = f[x]
    BY <2>3, <2>4
  <2>6. ASSUME NEW x \in Lower(r, n + 1) PROVE FromJsonPart(x, f) = FromJsonPart(x, g)
    <3>1. Below(x) \subseteq Lower(r, n)
      BY <2>1, LowerGrows
    <3> HIDE DEF g
    <3> QED BY <2>5, <3>1, FromJsonLocal
  <2>7. g = [x \in Lower(r, n + 1) |-> FromJsonPart(x, g)]
    BY <2>6
  <2> QED BY <2>7, Zenon
<1> HIDE DEF S
<1>3. Nat \subseteq S
  BY <1>1, <1>2, NatSetInduction
<1>4. \E f : f = [x \in Lower(r, MaxDepth + 1) |-> FromJsonPart(x, f)]
  BY <1>3, DepthAssumption DEF S
<1> QED BY <1>4, LowerGrows

LEMMA FromJsonUnfolds ==
  ASSUME NEW r, Shallow(r)
  PROVE  FromJson(r) = FromJsonPart(r, [z \in Parts(r) |-> FromJson(z)])
<1> DEFINE F(x) == CHOOSE f : f = [z \in Parts(x) |-> FromJsonPart(z, f)]
<1>1. ASSUME NEW x, Shallow(x)
      PROVE  /\ FromJson(x) = F(x)[x]
             /\ \A z \in Parts(x) : F(x)[z] = FromJsonPart(z, F(x))
  <2>1. FromJson(x) = F(x)[x]
    BY Zenon DEF FromJson
  <2>2. \E f : f = [z \in Parts(x) |-> FromJsonPart(z, f)]
    BY <1>1, FromJsonExists
  <2>3. F(x) = [z \in Parts(x) |-> FromJsonPart(z, F(x))]
    BY <2>2, Zenon
  <2> HIDE DEF F
  <2> QED BY <2>1, <2>3
<1> HIDE DEF F
<1>2. ASSUME NEW z \in Parts(r) PROVE F(r)[z] = FromJson(z)
  <2>1. Shallow(z) /\ Parts(z) \subseteq Parts(r)
    BY PartsAreClosed
  <2>2. ASSUME NEW y \in Parts(z), \A w \in Below(y) : F(r)[w] = F(z)[w]
        PROVE  F(r)[y] = F(z)[y]
    <3>1. F(r)[y] = FromJsonPart(y, F(r)) /\ F(z)[y] = FromJsonPart(y, F(z))
      BY <1>1, <2>1
    <3> QED BY <2>2, <3>1, FromJsonLocal
  <2>3. z \in Parts(z)
    BY <2>1, PartsAreClosed
  <2>4. F(r)[z] = F(z)[z]
    BY <2>1, <2>2, <2>3, NestedAgree
  <2> QED BY <1>1, <2>1, <2>4
<1>3. r \in Parts(r) /\ Below(r) \subseteq Parts(r)
  BY PartsAreClosed
<1>4. \A z \in Below(r) : F(r)[z] = [y \in Parts(r) |-> FromJson(y)][z]
  BY <1>2, <1>3
<1>5. FromJsonPart(r, F(r)) = FromJsonPart(r, [z \in Parts(r) |-> FromJson(z)])
  BY <1>4, FromJsonLocal
<1> QED BY <1>1, <1>3, <1>5

JsonKinds == { {k} : k \in {"null", "bool", "str", "int", "float", "list", "object"} }

JsonPart(x) == /\ DOMAIN x \in JsonKinds
               /\ "list" \in DOMAIN x => IsASeq(x.list)

LEMMA JsonNests ==
  ASSUME NEW x, DOMAIN x \in JsonKinds
  PROVE  /\ "list" \notin DOMAIN x => Inside(x) = {}
         /\ "list" \in DOMAIN x => IsList(x)
<1>1. CASE "list" \notin DOMAIN x
  <2>1. \A k \in DOMAIN x : Held(x, k) = {}
    <3> TAKE k \in DOMAIN x
    <3>1. k \notin {"list", "seq", "items", "all", "true_branch", "branches", "map"}
      BY <1>1 DEF JsonKinds
    <3> QED BY <3>1, HeldByKey
  <2> QED BY <1>1, <2>1 DEF Inside
<1>2. CASE "list" \in DOMAIN x
  BY <1>2 DEF IsList, JsonKinds
<1> QED BY <1>1, <1>2

LEMMA JsonAtomsAreFacts ==
  ASSUME NEW x, JsonPart(x), "list" \notin DOMAIN x, Shallow(x)
  PROVE  FactPart(FromJson(x)) /\ Inside(FromJson(x)) = {}
<1> DEFINE f == [z \in Parts(x) |-> FromJson(z)]
           v == FromJson(x)
<1>1. v = FromJsonPart(x, f)
  BY FromJsonUnfolds
<1> HIDE DEF f, v
<1>2. DOMAIN v \in JsonKinds /\ "list" \notin DOMAIN v
  <2>1. CASE "int" \in DOMAIN x
    <3>1. "list" \notin DOMAIN x /\ "object" \notin DOMAIN x
      BY <2>1 DEF JsonPart, JsonKinds
    <3>2. v = x \/ v = FloatFact(F64(<<x.int, 0>>))
      BY <1>1, <2>1, <3>1, Zenon DEF FromJsonPart
    <3> QED BY <3>2 DEF JsonPart, FloatFact, JsonKinds
  <2>2. CASE "object" \in DOMAIN x
    <3>1. "int" \notin DOMAIN x
      BY <2>2 DEF JsonPart, JsonKinds
    <3>2. v = Str([json |-> x.object])
      BY <1>1, <2>2, <3>1, Zenon DEF FromJsonPart
    <3> QED BY <3>2 DEF Str, JsonKinds
  <2>3. CASE "int" \notin DOMAIN x /\ "object" \notin DOMAIN x
    <3>1. v = x
      BY <1>1, <2>3, Zenon DEF FromJsonPart
    <3> QED BY <3>1 DEF JsonPart
  <2> QED BY <2>1, <2>2, <2>3
<1>3. Inside(v) = {}
  BY <1>2, JsonNests
<1>4. ~ IsList(v)
  BY <1>2 DEF IsList
<1> QED BY <1>3, <1>4 DEF FactPart, v

LEMMA JsonListsAreFacts ==
  ASSUME NEW x, JsonPart(x), "list" \in DOMAIN x, Shallow(x)
  PROVE  /\ FactPart(FromJson(x)) /\ IsList(FromJson(x))
         /\ DOMAIN FromJson(x).list = DOMAIN x.list
         /\ \A i \in DOMAIN x.list : FromJson(x).list[i] = FromJson(x.list[i])
<1> DEFINE f == [z \in Parts(x) |-> FromJson(z)]
           v == FromJson(x)
           items == [i \in DOMAIN x.list |-> f[x.list[i]]]
<1>1. v = FromJsonPart(x, f)
  BY FromJsonUnfolds
<1>2. \A i \in DOMAIN x.list : items[i] = FromJson(x.list[i])
  BY ItemsAreInside, PartsAreClosed
<1>3. PICK n \in Nat : x.list = [i \in 1 .. n |-> x.list[i]]
  BY DEF JsonPart, IsASeq
<1>4. DOMAIN x.list = 1 .. n
  BY <1>3
<1>5. items = [i \in 1 .. n |-> items[i]] /\ DOMAIN items = DOMAIN x.list
  BY <1>4
<1>6. v = List(items)
  <2>1. "int" \notin DOMAIN x /\ "object" \notin DOMAIN x
    BY DEF JsonPart, JsonKinds
  <2> HIDE DEF v, f
  <2> QED BY <1>1, <2>1, Zenon DEF FromJsonPart
<1> HIDE DEF items, f, v
<1>7. IsList(v) /\ v.list = items
  BY <1>6 DEF List, IsList
<1>8. IsASeq(items)
  BY <1>5 DEF IsASeq
<1>10. FactPart(v)
  BY <1>7, <1>8 DEF FactPart
<1> QED BY <1>2, <1>5, <1>7, <1>10 DEF v

LEMMA JsonIsFacts ==
  ASSUME NEW r, IsJson(r)
  PROVE  IsFact(FromJson(r))
<1> DEFINE Good(x) == /\ IsFact(FromJson(x))
                      /\ \A k \in Nat : k <= MaxDepth /\ Depth(x, k) => Depth(FromJson(x), k)
           S == {x \in Parts(r) : Good(x)}
<1>1. Shallow(r) /\ r \in Parts(r)
  BY PartsAreClosed DEF IsJson
<1>2. \A x \in Parts(r) : JsonPart(x)
  <2> SUFFICES ASSUME NEW x \in Parts(r) PROVE JsonPart(x)
    OBVIOUS
  <2>1. /\ DOMAIN x \in JsonKinds
        /\ "list" \in DOMAIN x => x.list \in Seq(Parts(r))
    BY DEF IsJson, JsonKinds
  <2>2. \A E : \A s \in Seq(E) : IsASeq(s)
    BY DEF IsASeq
  <2> QED BY <2>1, <2>2, Zenon DEF JsonPart
<1>3. ASSUME NEW x \in Parts(r), Below(x) \subseteq S PROVE x \in S
  <2> DEFINE v == FromJson(x)
  <2>1. Shallow(x) /\ JsonPart(x)
    BY <1>1, <1>2, PartsAreClosed
  <2>2. CASE "list" \notin DOMAIN x
    <3>1. FactPart(v) /\ Inside(v) = {}
      BY <2>1, <2>2, JsonAtomsAreFacts
    <3> HIDE DEF v
    <3>2. IsFact(v) /\ \A k \in Nat : k <= MaxDepth => Depth(v, k)
      BY <3>1, NothingInside DEF IsFact
    <3> QED BY <3>2 DEF v
  <2>3. CASE "list" \in DOMAIN x
    <3>1. /\ FactPart(v) /\ IsList(v) /\ DOMAIN v.list = DOMAIN x.list
          /\ \A i \in DOMAIN x.list : v.list[i] = FromJson(x.list[i])
      BY <2>1, <2>3, JsonListsAreFacts
    <3> HIDE DEF v
    <3>2. \A i \in DOMAIN x.list : x.list[i] \in Below(x)
      BY <2>3, ItemsAreInside, InsideIsBelow
    <3>3. ASSUME NEW z \in Inside(v)
          PROVE  /\ IsFact(z)
                 /\ \E w \in Below(x) : \A k \in Nat : k <= MaxDepth /\ Depth(w, k) => Depth(z, k)
      <4>1. PICK i \in DOMAIN x.list : z = FromJson(x.list[i])
        BY <3>1, <3>3, ListsHoldTheirItems DEF ToSet
      <4>2. Good(x.list[i])
        BY <1>3, <3>2
      <4> QED BY <3>2, <4>1, <4>2
    <3>4. ASSUME NEW k \in Nat, k <= MaxDepth, Depth(x, k) PROVE Depth(v, k)
      BY <3>3, <3>4, NestsAsDeep
    <3>5. Shallow(v)
      BY <2>1, <3>4, DepthAssumption DEF Shallow
    <3>6. \A y \in Parts(v) : FactPart(y)
      <4>1. \A y \in Below(v) : FactPart(y)
        BY <3>3 DEF Below, IsFact
      <4> QED BY <3>1, <3>5, <4>1, PartsAndBelow
    <3> QED BY <3>4, <3>5, <3>6 DEF IsFact, v
  <2> QED BY <2>2, <2>3
<1> HIDE DEF S
<1>4. Parts(r) \subseteq S
  BY <1>1, <1>3, NestingInduction
<1> QED BY <1>1, <1>4 DEF S

LEMMA PayloadsAreFacts ==
  ASSUME doc \in Documents \cup IntentDocuments, NEW payload \in Payloads(doc),
         NEW facts \in FactsFromJson(payload)
  PROVE  AreFacts(facts)
<1>1. "object" \in DOMAIN payload /\ facts = [f \in DOMAIN payload.object |-> FromJson(payload.object[f])]
  BY Zenon DEF FactsFromJson
<1>2. \A f \in DOMAIN payload.object : IsJson(payload.object[f])
  BY <1>1, PayloadsAssumption
<1>3. ASSUME NEW f \in DOMAIN facts PROVE IsFact(facts[f])
  BY <1>1, <1>2, JsonIsFacts
<1> QED BY <1>3 DEF AreFacts

(* What an answered dry run was given are facts.                           *)
FactsAreTyped == answer.what = "evaluations" => AreFacts(answer.facts)

LEMMA EvaluateAllReadsFacts ==
  ASSUME doc \in Documents \cup IntentDocuments, NEW payload \in Payloads(doc),
         NEW rules, NEW from, NEW a, a = EvaluateAll(rules, from, payload)
  PROVE  a.what = "evaluations" => AreFacts(a.facts)
<1>1. CASE FactsFromJson(payload) = {}
  BY <1>1 DEF EvaluateAll, Fail
<1>2. CASE FactsFromJson(payload) # {}
  <2> DEFINE facts == CHOOSE f \in FactsFromJson(payload) : TRUE
  <2>1. a = [ what |-> "evaluations", from |-> from, facts |-> facts,
              evaluations |-> [i \in DOMAIN rules |-> Evaluate(rules[i], facts)] ]
    BY <1>2, Zenon DEF EvaluateAll
  <2>2. facts \in FactsFromJson(payload)
    BY <1>2
  <2> HIDE DEF facts
  <2>3. AreFacts(facts)
    BY <2>2, PayloadsAreFacts
  <2> QED BY <2>1, <2>3
<1> QED BY <1>1, <1>2

LEMMA FactsInvariance == Spec => []FactsAreTyped
<1>1. Init => FactsAreTyped
  BY DEF Init, FactsAreTyped, Idle
<1>2. PipelineInv /\ FactsAreTyped /\ [Next]_vars => FactsAreTyped'
  <2> SUFFICES ASSUME PipelineInv, FactsAreTyped, [Next]_vars PROVE FactsAreTyped'
    OBVIOUS
  <2>1. doc \in Documents \cup IntentDocuments
    BY DEF PipelineInv
  <2>2. ASSUME answer'.what # "evaluations" PROVE FactsAreTyped'
    BY <2>2 DEF FactsAreTyped
  <2>3. CASE Preview \/ Lint \/ Compile \/ CompileIntent \/ ReadAnswer
    <3>1. answer'.what # "evaluations"
      <4>1. CASE Preview
        BY <4>1 DEF Preview, Fail
      <4>2. CASE Lint
        BY <4>2 DEF Lint, Fail
      <4>3. CASE Compile
        BY <4>3 DEF Compile, Fail
      <4>4. CASE CompileIntent
        BY <4>4 DEF CompileIntent, Fail
      <4>5. CASE ReadAnswer
        BY <4>5 DEF ReadAnswer, Idle
      <4> QED BY <2>3, <4>1, <4>2, <4>3, <4>4, <4>5
    <3> QED BY <2>2, <3>1
  <2>4. CASE GenScenarios
    <3>1. PICK rule, s, facts, evaluation :
            answer' = [ what |-> "scenario", rule |-> rule, scenario |-> s,
                        facts |-> facts, evaluation |-> evaluation ]
      BY <2>4 DEF GenScenarios
    <3> QED BY <2>2, <3>1
  <2>5. CASE DryRunSource
    <3>1. CASE answer' = Fail("compile_error")
      BY <2>2, <3>1 DEF Fail
    <3>2. ASSUME NEW rules \in Compiled, NEW payload \in Payloads(doc),
                 answer' = EvaluateAll(rules, "source", payload)
          PROVE  FactsAreTyped'
      BY <2>1, <3>2, EvaluateAllReadsFacts DEF FactsAreTyped
    <3> QED BY <2>5, <3>1, <3>2 DEF DryRunSource
  <2>6. CASE DryRunHash
    <3>1. PICK item \in stored, payload \in Payloads(doc) :
            answer' = IF ~ Decodes(item) THEN Fail("artifact_decode")
                      ELSE IF "rules" \notin DOMAIN item THEN Fail("bad_request")
                      ELSE EvaluateAll(item.rules, "hash", payload)
      BY <2>6 DEF DryRunHash
    <3>2. answer' \in {Fail("artifact_decode"), Fail("bad_request"),
                       EvaluateAll(item.rules, "hash", payload)}
      BY <3>1
    <3>3. CASE answer' \in {Fail("artifact_decode"), Fail("bad_request")}
      BY <2>2, <3>3 DEF Fail
    <3>4. CASE answer' = EvaluateAll(item.rules, "hash", payload)
      BY <2>1, <3>4, EvaluateAllReadsFacts DEF FactsAreTyped
    <3> QED BY <3>2, <3>3, <3>4
  <2>7. CASE UNCHANGED vars
    BY <2>7 DEF vars, FactsAreTyped
  <2> QED BY <2>3, <2>4, <2>5, <2>6, <2>7 DEF Next
<1>3. Spec => []PipelineInv
  BY PipelineInvariance
<1> QED BY <1>1, <1>2, <1>3, PTL DEF Spec

(* A rule without such a list: all its conditions decide.                  *)
LEMMA RuleConditionsDecide ==
  ASSUME NEW rule, ShapedGroups(rule), TreeShape(rule.decision_tree),
         ~ ListsAnIntegerAsFloat(rule)
  PROVE  /\ \A g \in rule.applies_if : \A c \in ToSet(Flatten(g)) : Decides(c)
         /\ \A c \in ToSet(CollectTree(rule.decision_tree)) : Decides(c)
<1> DEFINE checks == AppliesChecks(rule)
           conditions == CollectTree(rule.decision_tree)
<1>1. rule.decision_tree \in Parts(rule.decision_tree)
  BY PartsAreClosed DEF TreeShape
<1>2. conditions \in Seq(Asked(rule.decision_tree))
  BY <1>1, TreeConditions
<1>3. \E E : /\ checks \in Seq(E)
             /\ \A g \in rule.applies_if : ToSet(Flatten(g)) \subseteq ToSet(checks)
  <2>1. CASE rule.applies_if = {}
    <3>1. checks = <<>>
      <4>1. { Flatten(g) : g \in rule.applies_if } = {}
        BY <2>1
      <4>2. FlattenSeq(<<>>) = <<>>
        BY FlattenOfNone
      <4> QED BY <4>1, <4>2, SeqOfNone DEF AppliesChecks
    <3>2. checks \in Seq({})
      BY <3>1
    <3> HIDE DEF checks
    <3> QED BY <2>1, <3>2
  <2>2. CASE rule.applies_if # {}
    <3>1. PICK g \in rule.applies_if : TRUE
      BY <2>2
    <3>2. rule.applies_if = {g} /\ GroupShape(g)
      BY DEF ShapedGroups
    <3>3. g \in Parts(g)
      BY <3>2, PartsAreClosed DEF GroupShape
    <3>4. Flatten(g) \in Seq(ConditionsIn(g))
      BY <3>2, <3>3, FlattenIsSeq
    <3>5. checks = Flatten(g)
      BY <3>2, <3>4, ChecksOfOne DEF AppliesChecks
    <3> HIDE DEF checks
    <3> QED BY <3>2, <3>4, <3>5
  <2> QED BY <2>1, <2>2
<1>4. PICK E : /\ checks \in Seq(E)
               /\ \A g \in rule.applies_if : ToSet(Flatten(g)) \subseteq ToSet(checks)
  BY <1>3
<1>5. ConditionsOf(rule) = ToSet(checks \o conditions)
  BY DEF ConditionsOf, Catalog
<1> HIDE DEF checks, conditions
<1>6. ConditionsOf(rule) = ToSet(checks) \cup ToSet(conditions)
  <2> DEFINE all == E \cup Asked(rule.decision_tree)
  <2>1. checks \in Seq(all) /\ conditions \in Seq(all)
    BY <1>2, <1>4
  <2> HIDE DEF all
  <2> QED BY <1>5, <2>1, JoinKeepsAll
<1>7. \A c \in ConditionsOf(rule) : Decides(c)
  BY DEF ListsAnIntegerAsFloat, Decides, BecomesInteger
<1> QED BY <1>4, <1>6, <1>7 DEF conditions

(* Such a rule evaluates as it does in canonical form.                     *)
LEMMA CanonicalRulesDecide ==
  ASSUME NEW r, DOMAIN r = RuleFields, ShapedGroups(r), TreeShape(r.decision_tree),
         ~ ListsAnIntegerAsFloat(r), NEW q \in CanonicalRule(r),
         NEW facts, AreFacts(facts)
  PROVE  Evaluate(q, facts) = Evaluate(r, facts)
<1>1. q.rule_id = r.rule_id /\ q.decision_tree \in CanonicalEntry(r.decision_tree)
  <2>1. \A f \in RuleFields \ {"tags", "applies_if", "decision_tree"} : q[f] = r[f]
    BY CanonicalRules
  <2>2. q.rule_id = r.rule_id
    BY <2>1 DEF RuleFields
  <2> QED BY <2>2, CanonicalRules
<1>2. /\ \A g \in r.applies_if : \A c \in ToSet(Flatten(g)) : Decides(c)
      /\ \A c \in ToSet(CollectTree(r.decision_tree)) : Decides(c)
  BY RuleConditionsDecide
<1>3. Applicability(q.applies_if, facts) = Applicability(r.applies_if, facts)
  <2>1. CASE r.applies_if = {}
    BY <2>1, CanonicalRules
  <2>2. CASE r.applies_if # {}
    <3>1. PICK g \in r.applies_if : TRUE
      BY <2>2
    <3>2. r.applies_if = {g} /\ GroupShape(g) /\ OneSided(g)
      BY DEF ShapedGroups
    <3>3. PICK h \in CanonicalGroup(g) : q.applies_if = {h}
      BY <3>2, CanonicalRules
    <3>4. Applicability({h}, facts) = Applicability({g}, facts)
      BY <1>2, <3>2, CanonicalGroupsDecide
    <3> QED BY <3>2, <3>3, <3>4
  <2> QED BY <2>1, <2>2
<1>4. Walk(q.decision_tree, facts) = Walk(r.decision_tree, facts)
  <2>1. r.decision_tree \in Parts(r.decision_tree)
    BY PartsAreClosed DEF TreeShape
  <2> QED BY <1>1, <1>2, <2>1, CanonicalTreesDecide
<1> QED BY <1>1, <1>3, <1>4, Zenon DEF Evaluate, Evaluation

(* A dry run against what is stored decides as one against its source, for *)
(* every document, all facts JSON can carry and every rule without a       *)
(* membership list that has a literal such as 1.0: the numbers the encoder *)
(* normalises compare as before, and print as before when they are looked  *)
(* up in a list (canonical/encode.rs, exec.rs evaluate, compare.rs).       *)
THEOREM DecisionsAreKept == Spec => []DecisionsSurviveStoring
<1>1. PipelineInv /\ FactsAreTyped => DecisionsSurviveStoring
  <2> SUFFICES ASSUME PipelineInv, FactsAreTyped,
                      answer.what = "evaluations", answer.from = "hash",
                      NEW source \in Compiled, NEW i \in DOMAIN source,
                      ~ ListsAnIntegerAsFloat(source[i])
               PROVE  answer.evaluations[i] = Evaluate(source[i], answer.facts)
    BY DEF DecisionsSurviveStoring
  <2> DEFINE facts == answer.facts
  <2>1. doc \in Documents \cup IntentDocuments
    BY DEF PipelineInv
  <2>2. PICK rules \in StoredRules : EvaluatesAll(answer.evaluations, rules, facts)
    BY DEF PipelineInv, AnswerIsOurs
  <2>3. AreFacts(facts)
    BY DEF FactsAreTyped
  <2> HIDE DEF facts
  <2>4. PICK s \in Compiled : rules \in EncodeRules(s)
    BY DEF PipelineInv, StoredIsCompiled
  <2>5. s = source
    BY <2>1, CompiledIsOne
  <2>6. DOMAIN rules = DOMAIN source /\ rules[i] \in CanonicalRule(source[i])
    BY <2>4, <2>5, EncodedRules
  <2>7. DOMAIN source[i] = RuleFields /\ ShapedGroups(source[i])
    BY <2>1, CompiledFields, CompiledGroups DEF ShapedGroups, Compiled
  <2>8. TreeShape(source[i].decision_tree)
    BY <2>1, CompiledTrees DEF Compiled
  <2>9. Evaluate(rules[i], facts) = Evaluate(source[i], facts)
    BY <2>3, <2>6, <2>7, <2>8, CanonicalRulesDecide
  <2>10. answer.evaluations[i] = Evaluate(rules[i], facts)
    BY <2>2, <2>6 DEF EvaluatesAll
  <2> QED BY <2>9, <2>10 DEF facts
<1>2. Spec => []PipelineInv
  BY PipelineInvariance
<1>3. Spec => []FactsAreTyped
  BY FactsInvariance
<1> QED BY <1>1, <1>2, <1>3, PTL

-----------------------------------------------------------------------------
(* What the generator makes of an operand.                                 *)

LEMMA OperandToJsonLocal ==
  ASSUME NEW x, NEW f, NEW g, \A z \in Below(x) : f[z] = g[z]
  PROVE  OperandToJsonPart(x, f) = OperandToJsonPart(x, g)
<1>1. CASE IsList(x)
  <2>1. \A i \in DOMAIN x.list : x.list[i] \in Below(x)
    BY <1>1, ItemsAreInside, InsideIsBelow DEF IsList
  <2>2. [i \in DOMAIN x.list |-> f[x.list[i]]] = [i \in DOMAIN x.list |-> g[x.list[i]]]
    BY <2>1
  <2>3. ~ IsDecimal(x)
    BY <1>1 DEF IsDecimal, IsList
  <2> QED BY <1>1, <2>2, <2>3, Zenon DEF OperandToJsonPart
<1>2. CASE ~ IsList(x)
  BY <1>2, Zenon DEF OperandToJsonPart
<1> QED BY <1>1, <1>2

LEMMA OperandToJsonExists ==
  ASSUME NEW r, Shallow(r)
  PROVE  \E f : f = [x \in Parts(r) |-> OperandToJsonPart(x, f)]
<1> DEFINE S == {n \in Nat : n <= MaxDepth + 1
                   => \E f : f = [x \in Lower(r, n) |-> OperandToJsonPart(x, f)]}
<1>1. 0 \in S
  <2> DEFINE f == [x \in Lower(r, 0) |-> OperandToJsonPart(x, <<>>)]
  <2>1. f = [x \in Lower(r, 0) |-> OperandToJsonPart(x, f)]
    BY LowerGrows
  <2> QED BY <2>1, Zenon
<1>2. ASSUME NEW n \in Nat, n \in S PROVE n + 1 \in S
  <2> SUFFICES ASSUME n + 1 <= MaxDepth + 1
               PROVE  \E f : f = [x \in Lower(r, n + 1) |-> OperandToJsonPart(x, f)]
    OBVIOUS
  <2>1. n <= MaxDepth /\ n <= MaxDepth + 1
    BY DepthAssumption
  <2>2. PICK f : f = [x \in Lower(r, n) |-> OperandToJsonPart(x, f)]
    BY <1>2, <2>1
  <2> DEFINE g == [x \in Lower(r, n + 1) |-> OperandToJsonPart(x, f)]
  <2>3. \A x \in Lower(r, n) : f[x] = OperandToJsonPart(x, f)
    BY <2>2, Zenon
  <2>4. Lower(r, n) \subseteq Lower(r, n + 1)
    BY <2>1, LowerOnLower
  <2>5. \A x \in Lower(r, n) : g[x] = f[x]
    BY <2>3, <2>4
  <2>6. ASSUME NEW x \in Lower(r, n + 1) PROVE OperandToJsonPart(x, f) = OperandToJsonPart(x, g)
    <3>1. Below(x) \subseteq Lower(r, n)
      BY <2>1, LowerGrows
    <3> HIDE DEF g
    <3> QED BY <2>5, <3>1, OperandToJsonLocal
  <2>7. g = [x \in Lower(r, n + 1) |-> OperandToJsonPart(x, g)]
    BY <2>6
  <2> QED BY <2>7, Zenon
<1> HIDE DEF S
<1>3. Nat \subseteq S
  BY <1>1, <1>2, NatSetInduction
<1>4. \E f : f = [x \in Lower(r, MaxDepth + 1) |-> OperandToJsonPart(x, f)]
  BY <1>3, DepthAssumption DEF S
<1> QED BY <1>4, LowerGrows

LEMMA OperandToJsonUnfolds ==
  ASSUME NEW r, Shallow(r)
  PROVE  OperandToJson(r) = OperandToJsonPart(r, [z \in Parts(r) |-> OperandToJson(z)])
<1> DEFINE F(x) == CHOOSE f : f = [z \in Parts(x) |-> OperandToJsonPart(z, f)]
<1>1. ASSUME NEW x, Shallow(x)
      PROVE  /\ OperandToJson(x) = F(x)[x]
             /\ \A z \in Parts(x) : F(x)[z] = OperandToJsonPart(z, F(x))
  <2>1. OperandToJson(x) = F(x)[x]
    BY Zenon DEF OperandToJson
  <2>2. \E f : f = [z \in Parts(x) |-> OperandToJsonPart(z, f)]
    BY <1>1, OperandToJsonExists
  <2>3. F(x) = [z \in Parts(x) |-> OperandToJsonPart(z, F(x))]
    BY <2>2, Zenon
  <2> HIDE DEF F
  <2> QED BY <2>1, <2>3
<1> HIDE DEF F
<1>2. ASSUME NEW z \in Parts(r) PROVE F(r)[z] = OperandToJson(z)
  <2>1. Shallow(z) /\ Parts(z) \subseteq Parts(r)
    BY PartsAreClosed
  <2>2. ASSUME NEW y \in Parts(z), \A w \in Below(y) : F(r)[w] = F(z)[w]
        PROVE  F(r)[y] = F(z)[y]
    <3>1. F(r)[y] = OperandToJsonPart(y, F(r)) /\ F(z)[y] = OperandToJsonPart(y, F(z))
      BY <1>1, <2>1
    <3> QED BY <2>2, <3>1, OperandToJsonLocal
  <2>3. z \in Parts(z)
    BY <2>1, PartsAreClosed
  <2>4. F(r)[z] = F(z)[z]
    BY <2>1, <2>2, <2>3, NestedAgree
  <2> QED BY <1>1, <2>1, <2>4
<1>3. r \in Parts(r) /\ Below(r) \subseteq Parts(r)
  BY PartsAreClosed
<1>4. \A z \in Below(r) : F(r)[z] = [y \in Parts(r) |-> OperandToJson(y)][z]
  BY <1>2, <1>3
<1>5. OperandToJsonPart(r, F(r)) = OperandToJsonPart(r, [z \in Parts(r) |-> OperandToJson(z)])
  BY <1>4, OperandToJsonLocal
<1> QED BY <1>1, <1>3, <1>5



(* A number is read back rounded, or as an integer where it is one of the  *)
(* exact range.                                                            *)
LEMMA NumbersAreReadBack ==
  ASSUME NEW m \in Int, NEW e \in Nat
  PROVE  /\ JsonPart(DecimalJson(m, e)) /\ "list" \notin DOMAIN DecimalJson(m, e)
         /\ Shallow(DecimalJson(m, e))
         /\ \/ FromJson(DecimalJson(m, e)) = FloatFact(F64(<<m, e>>))
            \/ FromJson(DecimalJson(m, e)) = IntFact(m) /\ e = 0
         /\ e = 0 /\ Abs(m) <= MaxJsonInt \div 2
              => FromJson(DecimalJson(m, e)) = IntFact(m)
<1> DEFINE j == DecimalJson(m, e)
<1>1. DecimalToF64(m, e) = F64(<<m, e>>)
  BY PlainDecimal
<1> DEFINE Half == - ((MaxJsonInt + 1) \div 2) .. (MaxJsonInt \div 2)
<1>2. j = IF e <= 0 /\ m \in Half THEN IntFact(m) ELSE FloatFact(F64(<<m, e>>))
  <2>1. CASE e > 0
    <3>1. ~ (e <= 0)
      BY <2>1
    <3> QED BY <1>1, <2>1, <3>1, Zenon DEF DecimalJson
  <2>2. CASE e = 0
    <3>1. e <= 0 /\ ~ (e > 0)
      BY <2>2
    <3> QED BY <2>2, <3>1, Zenon DEF DecimalJson
  <2> QED BY <2>1, <2>2
<1>3. Half \subseteq - ((MaxJsonInt + 1) \div 2) .. MaxJsonInt
  <2>1. MaxJsonInt \div 2 <= MaxJsonInt
    BY ScalarsAssumption
  <2>2. MaxJsonInt \div 2 \in Int /\ (MaxJsonInt + 1) \div 2 \in Int /\ MaxJsonInt \in Int
    BY ScalarsAssumption
  <2> QED BY <2>1, <2>2
<1>4. Abs(m) <= MaxJsonInt \div 2 => m \in Half
  <2>1. MaxJsonInt \div 2 \in Int /\ (MaxJsonInt + 1) \div 2 \in Int
        /\ MaxJsonInt \div 2 <= (MaxJsonInt + 1) \div 2
    BY ScalarsAssumption
  <2> QED BY <2>1 DEF Abs
<1> HIDE DEF Half, j
<1>5. JsonPart(j) /\ "list" \notin DOMAIN j
  <2>1. CASE j = IntFact(m)
    BY <2>1 DEF IntFact, JsonPart, JsonKinds
  <2>2. CASE j = FloatFact(F64(<<m, e>>))
    BY <2>2 DEF FloatFact, JsonPart, JsonKinds
  <2> QED BY <1>2, <2>1, <2>2
<1>6. Inside(j) = {} /\ Shallow(j)
  <2>1. Inside(j) = {}
    BY <1>5, JsonNests DEF JsonPart
  <2> QED BY <2>1, NothingInside
<1>7. FromJson(j) = FromJsonPart(j, [z \in Parts(j) |-> FromJson(z)])
  BY <1>6, FromJsonUnfolds
<1>8. CASE e <= 0 /\ m \in Half
  <2>1. j = IntFact(m)
    BY <1>2, <1>8
  <2>2. DOMAIN j = {"int"} /\ j.int = m
    BY <2>1 DEF IntFact
  <2>3. FromJson(j) = j
    <3>1. "int" \in DOMAIN j /\ "list" \notin DOMAIN j /\ "object" \notin DOMAIN j
      BY <2>2
    <3>2. j.int \in - ((MaxJsonInt + 1) \div 2) .. MaxJsonInt
      BY <1>3, <1>8, <2>2
    <3> QED BY <1>7, <3>1, <3>2, Zenon DEF FromJsonPart
  <2> QED BY <1>5, <1>6, <1>8, <2>1, <2>3 DEF j
<1>9. CASE ~ (e <= 0 /\ m \in Half)
  <2>1. j = FloatFact(F64(<<m, e>>))
    BY <1>2, <1>9
  <2>2. DOMAIN j = {"float"}
    BY <2>1 DEF FloatFact
  <2>3. FromJson(j) = j
    <3>1. "int" \notin DOMAIN j /\ "list" \notin DOMAIN j /\ "object" \notin DOMAIN j
      BY <2>2
    <3> QED BY <1>7, <3>1, Zenon DEF FromJsonPart
  <2> QED BY <1>4, <1>5, <1>6, <1>9, <2>1, <2>3 DEF j
<1> QED BY <1>8, <1>9

LEMMA NumbersCompareAsNumbers ==
  ASSUME NEW m \in Int, NEW e \in Nat, NEW v,
         v = FloatFact(F64(<<m, e>>)) \/ (v = IntFact(m) /\ e = 0)
  PROVE  /\ AsNumber(v) = {F64(<<m, e>>)}
         /\ ~ IsStr(v) /\ ~ IsBool(v) /\ ~ IsList(v)
<1>1. CASE v = FloatFact(F64(<<m, e>>))
  <2>1. DOMAIN v = {"float"} /\ v.float = F64(<<m, e>>)
    BY <1>1 DEF FloatFact
  <2>2. "int" \notin DOMAIN v /\ "float" \in DOMAIN v /\ ~ IsBool(v)
    BY <2>1 DEF IsBool
  <2>3. AsNumber(v) = {v.float}
    BY <2>2, Zenon DEF AsNumber
  <2> QED BY <2>1, <2>3 DEF IsStr, IsBool, IsList
<1>2. CASE v = IntFact(m) /\ e = 0
  <2>1. DOMAIN v = {"int"} /\ v.int = m
    BY <1>2 DEF IntFact
  <2>2. "int" \in DOMAIN v /\ "float" \notin DOMAIN v /\ ~ IsBool(v)
    BY <2>1 DEF IsBool
  <2>3. AsNumber(v) = {F64(<<v.int, 0>>)}
    BY <2>2, Zenon DEF AsNumber
  <2> QED BY <1>2, <2>1, <2>3 DEF IsStr, IsBool, IsList
<1> QED BY <1>1, <1>2

LEMMA AtomsAreReadBack ==
  ASSUME NEW v, ValuePart(v), ~ IsList(v), Shallow(v)
  PROVE  LET j == OperandToJson(v)
         IN  /\ JsonPart(j) /\ "list" \notin DOMAIN j /\ Inside(j) = {}
             /\ IsDecimal(v) => j = DecimalJson(v.m, v.e)
             /\ ~ IsDecimal(v) => FromJson(j) = v
<1> DEFINE j == OperandToJson(v)
<1>1. j = OperandToJsonPart(v, [z \in Parts(v) |-> OperandToJson(z)])
  BY OperandToJsonUnfolds
<1> HIDE DEF j
<1>2. CASE IsDecimal(v)
  <2>1. j = DecimalJson(v.m, v.e)
    BY <1>1, <1>2, Zenon DEF OperandToJsonPart
  <2>2. v.m \in Int /\ v.e \in Nat
    BY <1>2 DEF ValuePart, IsStr, IsBool, IsDecimal, IsList
  <2>3. JsonPart(j) /\ "list" \notin DOMAIN j
    BY <2>1, <2>2, NumbersAreReadBack
  <2>4. Inside(j) = {}
    BY <2>3, JsonNests DEF JsonPart
  <2> QED BY <1>2, <2>1, <2>3, <2>4 DEF j
<1>3. CASE ~ IsDecimal(v)
  <2>1. j = v
    BY <1>1, <1>3, Zenon DEF OperandToJsonPart
  <2>2. DOMAIN v = {"str"} \/ DOMAIN v = {"bool"}
    BY <1>3 DEF ValuePart, IsStr, IsBool
  <2>3. JsonPart(v) /\ "list" \notin DOMAIN v
    BY <2>2 DEF JsonPart, JsonKinds
  <2>4. Inside(v) = {}
    BY <2>3, JsonNests DEF JsonPart
  <2>5. FromJson(v) = FromJsonPart(v, [z \in Parts(v) |-> FromJson(z)])
    BY FromJsonUnfolds
  <2>6. FromJson(v) = v
    <3>1. "int" \notin DOMAIN v /\ "list" \notin DOMAIN v /\ "object" \notin DOMAIN v
      BY <2>2
    <3> QED BY <2>5, <3>1, Zenon DEF FromJsonPart
  <2> QED BY <1>3, <2>1, <2>3, <2>4, <2>6 DEF j
<1> QED BY <1>2, <1>3 DEF j

LEMMA ListsAreReadBack ==
  ASSUME NEW v, IsList(v), IsASeq(v.list), Shallow(v)
  PROVE  LET j == OperandToJson(v)
         IN  /\ JsonPart(j) /\ IsList(j) /\ IsASeq(j.list) /\ DOMAIN j.list = DOMAIN v.list
             /\ \A i \in DOMAIN v.list : j.list[i] = OperandToJson(v.list[i])
<1> DEFINE f == [z \in Parts(v) |-> OperandToJson(z)]
           j == OperandToJson(v)
           items == [i \in DOMAIN v.list |-> f[v.list[i]]]
<1>1. j = OperandToJsonPart(v, f)
  BY OperandToJsonUnfolds
<1>2. \A i \in DOMAIN v.list : items[i] = OperandToJson(v.list[i])
  BY ItemsAreInside, PartsAreClosed DEF IsList
<1>3. PICK n \in Nat : v.list = [i \in 1 .. n |-> v.list[i]]
  BY DEF IsASeq
<1>4. DOMAIN v.list = 1 .. n
  BY <1>3
<1>5. items = [i \in 1 .. n |-> items[i]] /\ DOMAIN items = DOMAIN v.list
  BY <1>4
<1>6. j = List(items)
  <2>1. ~ IsDecimal(v)
    BY DEF IsDecimal, IsList
  <2> HIDE DEF j, f
  <2> QED BY <1>1, <2>1, Zenon DEF OperandToJsonPart
<1> HIDE DEF items, f, j
<1>7. IsList(j) /\ j.list = items
  BY <1>6 DEF List, IsList
<1>8. IsASeq(items)
  BY <1>5 DEF IsASeq
<1>9. JsonPart(j)
  BY <1>7, <1>8 DEF JsonPart, JsonKinds, IsList
<1> QED BY <1>2, <1>5, <1>7, <1>8, <1>9 DEF j

(* An operand becomes JSON that nests no deeper.                           *)
LEMMA OperandsAreJson ==
  ASSUME NEW r, IsValue(r)
  PROVE  \A v \in Parts(r) : IsJson(OperandToJson(v))
<1> DEFINE Good(v) ==
             LET j == OperandToJson(v)
             IN  /\ Shallow(j) /\ \A y \in Parts(j) : JsonPart(y)
                 /\ \A k \in Nat : k <= MaxDepth /\ Depth(v, k) => Depth(j, k)
           S == {v \in Parts(r) : Good(v)}
<1>1. Shallow(r)
  BY DEF IsValue
<1>2. ASSUME NEW v \in Parts(r), Below(v) \subseteq S PROVE v \in S
  <2> DEFINE j == OperandToJson(v)
  <2>1. Shallow(v) /\ ValuePart(v)
    BY <1>1, PartsAreClosed DEF IsValue
  <2>2. CASE ~ IsList(v)
    <3>1. JsonPart(j) /\ Inside(j) = {}
      BY <2>1, <2>2, AtomsAreReadBack
    <3> HIDE DEF j
    <3>2. Shallow(j) /\ Parts(j) = {j} /\ \A k \in Nat : k <= MaxDepth => Depth(j, k)
      BY <3>1, NothingInside
    <3> QED BY <3>1, <3>2 DEF j
  <2>3. CASE IsList(v)
    <3>0. IsASeq(v.list)
      BY <2>1, <2>3 DEF ValuePart, IsStr, IsBool, IsDecimal, IsList
    <3>1. /\ JsonPart(j) /\ IsList(j) /\ DOMAIN j.list = DOMAIN v.list
          /\ \A i \in DOMAIN v.list : j.list[i] = OperandToJson(v.list[i])
      BY <2>1, <2>3, <3>0, ListsAreReadBack
    <3> HIDE DEF j
    <3>2. \A i \in DOMAIN v.list : v.list[i] \in Below(v)
      BY <2>3, ItemsAreInside, InsideIsBelow DEF IsList
    <3>3. ASSUME NEW z \in Inside(j)
          PROVE  /\ \A y \in Parts(z) : JsonPart(y)
                 /\ \E w \in Below(v) : \A k \in Nat : k <= MaxDepth /\ Depth(w, k) => Depth(z, k)
      <4>1. PICK i \in DOMAIN v.list : z = OperandToJson(v.list[i])
        BY <3>1, <3>3, ListsHoldTheirItems DEF ToSet
      <4>2. Good(v.list[i])
        BY <1>2, <3>2
      <4> QED BY <3>2, <4>1, <4>2
    <3>4. ASSUME NEW k \in Nat, k <= MaxDepth, Depth(v, k) PROVE Depth(j, k)
      BY <3>3, <3>4, NestsAsDeep
    <3>5. Shallow(j)
      BY <2>1, <3>4, DepthAssumption DEF Shallow
    <3>6. \A y \in Parts(j) : JsonPart(y)
      <4>1. \A y \in Below(j) : JsonPart(y)
        BY <3>3 DEF Below
      <4> QED BY <3>1, <3>5, <4>1, PartsAndBelow
    <3> QED BY <3>4, <3>5, <3>6 DEF j
  <2> QED BY <2>2, <2>3
<1> HIDE DEF S
<1>3. Parts(r) \subseteq S
  BY <1>1, <1>2, NestingInduction
<1>4. ASSUME NEW j, Shallow(j), \A y \in Parts(j) : JsonPart(y) PROVE IsJson(j)
  <2>1. ASSUME NEW y \in Parts(j), "list" \in DOMAIN y PROVE y.list \in Seq(Parts(j))
    <3>1. PICK n \in Nat : y.list = [i \in 1 .. n |-> y.list[i]]
      BY <1>4, <2>1 DEF JsonPart, IsASeq
    <3>2. \A i \in 1 .. n : y.list[i] \in Parts(j)
      <4>1. DOMAIN y.list = 1 .. n
        BY <3>1
      <4>2. \A i \in 1 .. n : y.list[i] \in Inside(y)
        BY <2>1, <4>1, ItemsAreInside
      <4> QED BY <1>4, <4>2, PartsAreClosed
    <3> QED BY <3>1, <3>2
  <2> QED BY <1>4, <2>1 DEF IsJson, JsonPart, JsonKinds
<1> QED BY <1>3, <1>4 DEF S

(* What the runtime reads of what the generator makes of an operand.       *)
ReadBack(v) == FromJson(OperandToJson(v))

LEMMA NumbersOfOperands ==
  ASSUME NEW v, IsDecimal(v), ValuePart(v), Shallow(v)
  PROVE  /\ v.m \in Int /\ v.e \in Nat
         /\ OperandAsNumber(v) = {F64(<<v.m, v.e>>)} /\ AsNumber(ReadBack(v)) = {F64(<<v.m, v.e>>)}
         /\ ~ IsStr(ReadBack(v)) /\ ~ IsList(ReadBack(v))
<1>1. v.m \in Int /\ v.e \in Nat /\ ~ IsList(v)
  BY DEF ValuePart, IsStr, IsBool, IsDecimal, IsList
<1>2. OperandToJson(v) = DecimalJson(v.m, v.e)
  BY <1>1, AtomsAreReadBack
<1>3. ReadBack(v) = FloatFact(F64(<<v.m, v.e>>)) \/ (ReadBack(v) = IntFact(v.m) /\ v.e = 0)
  BY <1>1, <1>2, NumbersAreReadBack DEF ReadBack
<1> QED BY <1>1, <1>3, DecimalAsNumber, NumbersCompareAsNumbers

LEMMA ListsOfOperands ==
  ASSUME NEW v, IsList(v), IsValue(v)
  PROVE  /\ IsASeq(v.list)
         /\ IsList(ReadBack(v)) /\ Len(ReadBack(v).list) = Len(v.list)
         /\ DOMAIN ReadBack(v).list = DOMAIN v.list
         /\ \A i \in DOMAIN v.list : ReadBack(v).list[i] = ReadBack(v.list[i])
<1> DEFINE j == OperandToJson(v)
<1>1. Shallow(v) /\ v \in Parts(v) /\ ValuePart(v)
  BY PartsAreClosed DEF IsValue
<1>2. IsASeq(v.list)
  BY <1>1 DEF ValuePart, IsStr, IsBool, IsDecimal, IsList
<1>3. /\ JsonPart(j) /\ IsList(j) /\ IsASeq(j.list) /\ DOMAIN j.list = DOMAIN v.list
      /\ \A i \in DOMAIN v.list : j.list[i] = OperandToJson(v.list[i])
  BY <1>1, <1>2, ListsAreReadBack
<1>4. Shallow(j)
  BY <1>1, OperandsAreJson DEF IsJson
<1>5. /\ FactPart(ReadBack(v)) /\ IsList(ReadBack(v)) /\ DOMAIN ReadBack(v).list = DOMAIN j.list
      /\ \A i \in DOMAIN j.list : ReadBack(v).list[i] = FromJson(j.list[i])
  <2>1. "list" \in DOMAIN j
    BY <1>3 DEF IsList
  <2> HIDE DEF j
  <2>2. FactPart(FromJson(j)) /\ IsList(FromJson(j)) /\ DOMAIN FromJson(j).list = DOMAIN j.list
      /\ \A i \in DOMAIN j.list : FromJson(j).list[i] = FromJson(j.list[i])
    BY <1>3, <1>4, <2>1, JsonListsAreFacts
  <2> QED BY <2>2 DEF ReadBack, j
<1> HIDE DEF j
<1>6. IsASeq(ReadBack(v).list)
  BY <1>5 DEF FactPart
<1>7. Len(ReadBack(v).list) = Len(v.list)
  <2>1. /\ Len(ReadBack(v).list) \in Nat /\ Len(v.list) \in Nat
        /\ 1 .. Len(ReadBack(v).list) = 1 .. Len(v.list)
    BY <1>2, <1>3, <1>5, <1>6, LenOfSeq
  <2> QED BY <2>1
<1> QED BY <1>2, <1>3, <1>5, <1>7 DEF ReadBack

(* The comparison is its own step, on itself.                              *)
LEMMA EqualsUnfolds ==
  ASSUME NEW a, Shallow(a), NEW w, Shallow(w)
  PROVE  \E F : /\ EvalEq(a, w) <=> w \in F[a]
                /\ EvalEq(a, w) <=> SameValue(a, w, F)
                /\ \A x \in Parts(a) : F[x] = EqualsBody(x, w, F)
<1> DEFINE F == CHOOSE f : f = [x \in Parts(a) |-> EqualsBody(x, w, f)]
<1>1. EvalEq(a, w) <=> w \in F[a]
  BY Zenon DEF EvalEq, EqualsBody, SameValue
<1>2. \A x \in Parts(a) : F[x] = EqualsBody(x, w, F)
  <2>1. \E f : f = [x \in Parts(a) |-> EqualsBody(x, w, f)]
    BY EqualsExists
  <2>2. F = [x \in Parts(a) |-> EqualsBody(x, w, F)]
    BY <2>1, Zenon
  <2> HIDE DEF F
  <2> QED BY <2>2
<1> HIDE DEF F
<1>3. a \in Parts(a) /\ w \in Parts(w)
  BY PartsAreClosed
<1>4. w \in F[a] <=> SameValue(a, w, F)
  BY <1>2, <1>3 DEF EqualsBody
<1> QED BY <1>1, <1>2, <1>4, Zenon

(* A text, a bool or a list is no number; a bool is one.                   *)
LEMMA NumbersAreNumbers ==
  ASSUME NEW v
  PROVE  /\ IsStr(v) \/ IsList(v) => AsNumber(v) = {} /\ OperandAsNumber(v) = {}
         /\ IsBool(v) => /\ AsNumber(v) = {<<IF v.bool THEN 1 ELSE 0, 0>>}
                         /\ OperandAsNumber(v) = {<<IF v.bool THEN 1 ELSE 0, 0>>}
<1>1. CASE IsStr(v) \/ IsList(v)
  <2>1. "int" \notin DOMAIN v /\ "float" \notin DOMAIN v /\ ~ IsBool(v) /\ ~ IsDecimal(v)
    BY <1>1 DEF IsStr, IsList, IsBool, IsDecimal
  <2>2. AsNumber(v) = {} /\ OperandAsNumber(v) = {}
    BY <2>1, Zenon DEF AsNumber, OperandAsNumber
  <2> QED BY <2>1, <2>2
<1>2. CASE IsBool(v)
  <2>1. "int" \notin DOMAIN v /\ "float" \notin DOMAIN v /\ ~ IsDecimal(v)
        /\ ~ IsStr(v) /\ ~ IsList(v)
    BY <1>2 DEF IsStr, IsList, IsBool, IsDecimal
  <2>2. AsNumber(v) = {<<IF v.bool THEN 1 ELSE 0, 0>>}
    BY <1>2, <2>1, Zenon DEF AsNumber
  <2>3. OperandAsNumber(v) = {<<IF v.bool THEN 1 ELSE 0, 0>>}
    BY <1>2, <2>1, Zenon DEF OperandAsNumber
  <2> QED BY <2>1, <2>2, <2>3
<1> QED BY <1>1, <1>2

(* An operand that is read back is equal to itself.                        *)
LEMMA OperandsAreEqual ==
  ASSUME NEW w, IsValue(w)
  PROVE  EvalEq(ReadBack(w), w)
<1> DEFINE a == ReadBack(w)
<1>1. Shallow(w) /\ w \in Parts(w) /\ \A v \in Parts(w) : IsValue(v) /\ ValuePart(v) /\ Shallow(v)
  BY PartsAreClosed DEF IsValue
<1>2. Shallow(a) /\ a \in Parts(a)
  <2>1. IsFact(a)
    BY <1>1, OperandsAreJson, JsonIsFacts DEF ReadBack
  <2> HIDE DEF a
  <2> QED BY <2>1, PartsAreClosed DEF IsFact
<1>3. PICK F : /\ EvalEq(a, w) <=> w \in F[a]
               /\ \A x \in Parts(a) : F[x] = EqualsBody(x, w, F)
  BY <1>1, <1>2, EqualsUnfolds
<1> HIDE DEF a
<1> DEFINE S == {v \in Parts(w) : ReadBack(v) \in Parts(a) => v \in F[ReadBack(v)]}
<1>4. ASSUME NEW v \in Parts(w), Below(v) \subseteq S PROVE v \in S
  <2> DEFINE x == ReadBack(v)
  <2> SUFFICES ASSUME x \in Parts(a) PROVE v \in F[x]
    OBVIOUS
  <2>1. v \in F[x] <=> SameValue(x, v, F)
    BY <1>3 DEF EqualsBody
  <2>2. IsValue(v) /\ ValuePart(v) /\ Shallow(v)
    BY <1>1
  <2>3. CASE IsDecimal(v)
    <3>1. PICK n : AsNumber(x) = {n} /\ OperandAsNumber(v) = {n}
      BY <2>2, <2>3, NumbersOfOperands
    <3> HIDE DEF x
    <3>2. SameNumber(n, n)
      BY DEF SameNumber
    <3> QED BY <2>1, <3>1, <3>2 DEF SameValue
  <2>4. CASE IsStr(v)
    <3>1. x = v
      BY <2>2, <2>4, AtomsAreReadBack DEF ReadBack, IsStr, IsList, IsDecimal
    <3>2. AsNumber(x) = {}
      BY <2>4, <3>1, NumbersAreNumbers
    <3> HIDE DEF x
    <3> QED BY <2>1, <2>4, <3>1, <3>2 DEF SameValue
  <2>5. CASE IsBool(v)
    <3>1. x = v
      BY <2>2, <2>5, AtomsAreReadBack DEF ReadBack, IsBool, IsList, IsDecimal
    <3>2. PICK n : AsNumber(x) = {n} /\ OperandAsNumber(v) = {n}
      BY <2>5, <3>1, NumbersAreNumbers
    <3> HIDE DEF x
    <3>3. SameNumber(n, n)
      BY DEF SameNumber
    <3> QED BY <2>1, <3>2, <3>3 DEF SameValue
  <2>6. CASE IsList(v)
    <3>1. /\ IsList(x) /\ Len(x.list) = Len(v.list) /\ DOMAIN x.list = DOMAIN v.list
          /\ \A i \in DOMAIN v.list : x.list[i] = ReadBack(v.list[i])
      BY <2>2, <2>6, ListsOfOperands
    <3> HIDE DEF x
    <3>2. AsNumber(x) = {}
      BY <3>1, NumbersAreNumbers
    <3>3. ASSUME NEW i \in DOMAIN x.list PROVE v.list[i] \in F[x.list[i]]
      <4>1. v.list[i] \in Below(v)
        BY <2>6, <3>1, ItemsAreInside, InsideIsBelow DEF IsList
      <4>2. x.list[i] \in Parts(a)
        <5>1. x.list[i] \in Inside(x)
          BY <3>1, ItemsAreInside DEF IsList
        <5> QED BY <1>2, <5>1, PartsAreClosed
      <4> QED BY <1>4, <3>1, <4>1, <4>2
    <3> HIDE DEF S
    <3> QED BY <2>1, <2>6, <3>1, <3>2, <3>3 DEF SameValue
  <2> QED BY <2>2, <2>3, <2>4, <2>5, <2>6 DEF ValuePart
<1> HIDE DEF S
<1>5. Parts(w) \subseteq S
  BY <1>1, <1>4, NestingInduction
<1>6. w \in F[a]
  BY <1>1, <1>2, <1>5 DEF S, a
<1> QED BY <1>3, <1>6 DEF a

LEMMA EqualsAtoms ==
  ASSUME NEW a, Shallow(a), NEW w, Shallow(w), ~ (IsList(a) /\ IsList(w))
  PROVE  EvalEq(a, w) <=> IF AsNumber(a) # {} /\ OperandAsNumber(w) # {}
                          THEN \A n \in AsNumber(a), b \in OperandAsNumber(w) : SameNumber(n, b)
                          ELSE IsStr(a) /\ IsStr(w) /\ a.str = w.str
<1>1. PICK F : EvalEq(a, w) <=> SameValue(a, w, F)
  BY EqualsUnfolds
<1> QED BY <1>1, Zenon DEF SameValue

(* A text or a bool is read as it is.                                      *)
LEMMA PlainIsReadBack ==
  ASSUME NEW x, IsStr(x) \/ IsBool(x)
  PROVE  FromJson(x) = x /\ Shallow(x) /\ Parts(x) = {x}
<1>1. Shallow(x) /\ Parts(x) = {x}
  BY AtomsHoldNothing, NothingInside
<1>2. FromJson(x) = FromJsonPart(x, [z \in Parts(x) |-> FromJson(z)])
  BY <1>1, FromJsonUnfolds
<1>3. "int" \notin DOMAIN x /\ "list" \notin DOMAIN x /\ "object" \notin DOMAIN x
  BY DEF IsStr, IsBool
<1> QED BY <1>1, <1>2, <1>3, Zenon DEF FromJsonPart

(* What a decimal is rounded to is a number, not less than itself, and what *)
(* it is less than is not the same.                                        *)
LEMMA RoundedIsNumber ==
  ASSUME NEW m \in Int, NEW e \in Nat, Abs(m) <= MaxMantissa, e <= MaxScale
  PROVE  F64(<<m, e>>) \in Int \X Nat
<1> DEFINE s == Stripped(m, e)
<1>1. s \in Int \X Nat /\ Abs(s[1]) <= Abs(m) /\ s[2] <= e
  BY StrippedIsExact
<1> HIDE DEF s
<1>2. PICK k \in Int, d \in Nat : s = <<k, d>>
  BY <1>1
<1>3. k \in - MaxMantissa - 1 .. MaxMantissa /\ d \in 0 .. MaxScale
  <2>1. Abs(k) <= Abs(m) /\ d <= e
    BY <1>1, <1>2
  <2> QED BY <2>1, ScalarsAssumption DEF Abs
<1>4. Nearest(s) \in Int \X Nat
  BY <1>2, <1>3, NearestAssumption
<1>5. F64(<<m, e>>) = Nearest(s)
  BY Zenon DEF F64, s
<1> QED BY <1>4, <1>5

LEMMA LessIsStrict ==
  ASSUME NEW a \in Int \X Nat, NEW b \in Int \X Nat
  PROVE  /\ LessNumber(a, b) => ~ SameNumber(b, a)
         /\ ~ LessNumber(a, a)
<1>1. \A n \in Nat : Pow10[n] \in Int
  BY PowersArePositive
<1>2. a[1] \in Int /\ a[2] \in Nat /\ b[1] \in Int /\ b[2] \in Nat
  OBVIOUS
<1>3. \A i \in Int, n \in Nat : i * Pow10[n] \in Int
  BY <1>1
<1>4. a[1] * Pow10[b[2]] \in Int /\ b[1] * Pow10[a[2]] \in Int /\ a[1] * Pow10[a[2]] \in Int
  BY <1>2, <1>3
<1> QED BY <1>4 DEF LessNumber, SameNumber

(* A decimal and, where there is room for it, the one a unit away are read *)
(* as the numbers they are rounded to.                                     *)
LEMMA AroundIsNumber ==
  ASSUME NEW v, IsDecimal(v), ValuePart(v), NEW delta \in {-1, 0, 1},
         Abs(v.m + delta) <= MaxMantissa
  PROVE  /\ Around(v, delta) = F64(<<v.m + delta, v.e>>)
         /\ Around(v, delta) \in Int \X Nat
<1>1. v.m \in Int /\ v.e \in Nat /\ v.e <= MaxScale
  BY DEF ValuePart, IsStr, IsBool, IsDecimal, IsList
<1>2. v.m + delta \in Int
  BY <1>1
<1>3. F64(<<v.m + delta, v.e>>) \in Int \X Nat
  BY <1>1, <1>2, RoundedIsNumber
<1>4. DecimalToF64(v.m + delta, v.e) = F64(<<v.m + delta, v.e>>)
  BY <1>1, <1>2, PlainDecimal
<1> QED BY <1>3, <1>4 DEF Around

LEMMA OperandIsAround ==
  ASSUME NEW v, IsDecimal(v), ValuePart(v), Shallow(v)
  PROVE  /\ OperandAsNumber(v) = {Around(v, 0)} /\ AsNumber(ReadBack(v)) = {Around(v, 0)}
         /\ Around(v, 0) \in Int \X Nat
         /\ ~ IsStr(ReadBack(v))
<1>1. v.m \in Int /\ Abs(v.m) <= MaxMantissa
  BY DEF ValuePart, IsStr, IsBool, IsDecimal, IsList
<1>2. v.m + 0 = v.m
  BY <1>1
<1>3. Around(v, 0) = F64(<<v.m, v.e>>) /\ Around(v, 0) \in Int \X Nat
  BY <1>1, <1>2, AroundIsNumber
<1> QED BY <1>3, NumbersOfOperands

LEMMA ShiftedNumbers ==
  ASSUME NEW v, IsDecimal(v), ValuePart(v), NEW delta \in {-1, 1},
         Abs(v.m + delta) <= MaxMantissa
  PROVE  LET a == FromJson(Shift(v, delta))
         IN  /\ AsNumber(a) = {Around(v, delta)}
             /\ ~ IsStr(a) /\ ~ IsList(a) /\ Shallow(a)
<1> DEFINE s == v.m + delta
           j == DecimalJson(s, v.e)
<1>1. v.m \in Int /\ v.e \in Nat /\ s \in Int
  BY DEF ValuePart, IsStr, IsBool, IsDecimal, IsList
<1>2. Shift(v, delta) = j
  <2>1. ~ (s > MaxMantissa) /\ ~ (s < - MaxMantissa - 1)
    BY <1>1, ScalarsAssumption DEF Abs
  <2> QED BY <2>1, Zenon DEF Shift
<1>3. Around(v, delta) = F64(<<s, v.e>>)
  BY AroundIsNumber
<1> HIDE DEF s
<1>4. FromJson(j) = FloatFact(F64(<<s, v.e>>)) \/ (FromJson(j) = IntFact(s) /\ v.e = 0)
  BY <1>1, NumbersAreReadBack
<1>5. Shallow(FromJson(j))
  <2>1. JsonPart(j) /\ "list" \notin DOMAIN j /\ Shallow(j)
    BY <1>1, NumbersAreReadBack
  <2> HIDE DEF j
  <2>2. Inside(FromJson(j)) = {}
    BY <2>1, JsonAtomsAreFacts
  <2> QED BY <2>2, NothingInside
<1> HIDE DEF j
<1>6. AsNumber(FromJson(j)) = {F64(<<s, v.e>>)} /\ ~ IsStr(FromJson(j)) /\ ~ IsList(FromJson(j))
  BY <1>1, <1>4, NumbersCompareAsNumbers
<1> QED BY <1>2, <1>3, <1>5, <1>6

(* What is meant to differ from an operand does.                           *)
LEMMA DifferentIsNotEqual ==
  ASSUME NEW w, IsValue(w), IsDecimal(w) => RoomAbove(w)
  PROVE  ~ EvalEq(FromJson(DifferentFrom(w)), w)
<1>1. Shallow(w) /\ ValuePart(w)
  BY PartsAreClosed DEF IsValue
<1>2. CASE IsStr(w)
  <2> DEFINE a == Str(Different(w.str))
  <2>1. DifferentFrom(w) = a
    <3>1. ~ IsBool(w) /\ ~ IsDecimal(w) /\ ~ IsList(w)
      BY <1>2 DEF IsStr, IsBool, IsDecimal, IsList
    <3> QED BY <1>2, <3>1, Zenon DEF DifferentFrom
  <2>2. IsStr(a) /\ a.str # w.str
    BY <1>1, <1>2 DEF Str, ValuePart, IsStr, IsBool, IsDecimal, IsList
  <2> HIDE DEF a
  <2>3. FromJson(a) = a /\ Shallow(a) /\ AsNumber(a) = {} /\ ~ IsList(a)
    BY <2>2, PlainIsReadBack, NumbersAreNumbers DEF IsStr, IsList
  <2> QED BY <1>1, <2>1, <2>2, <2>3, EqualsAtoms
<1>3. CASE IsBool(w)
  <2> DEFINE a == Bool(~ w.bool)
  <2>1. DifferentFrom(w) = a
    <3>1. ~ IsStr(w) /\ ~ IsDecimal(w) /\ ~ IsList(w)
      BY <1>3 DEF IsStr, IsBool, IsDecimal, IsList
    <3> QED BY <1>3, <3>1, Zenon DEF DifferentFrom
  <2>2. IsBool(a) /\ (a.bool <=> ~ w.bool)
    BY DEF Bool, IsBool
  <2> HIDE DEF a
  <2>3. FromJson(a) = a /\ Shallow(a) /\ ~ IsList(a)
    BY <2>2, PlainIsReadBack DEF IsBool, IsList
  <2>4. /\ AsNumber(a) = {<<IF a.bool THEN 1 ELSE 0, 0>>}
        /\ OperandAsNumber(w) = {<<IF w.bool THEN 1 ELSE 0, 0>>}
    BY <1>3, <2>2, NumbersAreNumbers
  <2>5. ~ SameNumber(<<IF a.bool THEN 1 ELSE 0, 0>>, <<IF w.bool THEN 1 ELSE 0, 0>>)
    <3>1. (IF a.bool THEN 1 ELSE 0) # (IF w.bool THEN 1 ELSE 0)
      BY <2>2
    <3> QED BY <3>1, PowersOfTen DEF SameNumber
  <2> QED BY <1>1, <2>1, <2>3, <2>4, <2>5, EqualsAtoms
<1>4. CASE IsDecimal(w)
  <2>1. DifferentFrom(w) = Shift(w, 1)
    <3>1. ~ IsStr(w) /\ ~ IsBool(w) /\ ~ IsList(w)
      BY <1>4 DEF IsStr, IsBool, IsDecimal, IsList
    <3> QED BY <1>4, <3>1, Zenon DEF DifferentFrom
  <2> DEFINE a == FromJson(Shift(w, 1))
  <2>2. w.m \in Int /\ Abs(w.m) <= MaxMantissa /\ w.m < MaxMantissa
        /\ LessNumber(Around(w, 0), Around(w, 1))
    BY <1>1, <1>4 DEF RoomAbove, ValuePart, IsStr, IsBool, IsDecimal, IsList
  <2>3. Abs(w.m + 1) <= MaxMantissa
    BY <2>2, ScalarsAssumption DEF Abs
  <2>4. AsNumber(a) = {Around(w, 1)} /\ ~ IsList(a) /\ Shallow(a)
    BY <1>1, <1>4, <2>3, ShiftedNumbers
  <2> HIDE DEF a
  <2>6. OperandAsNumber(w) = {Around(w, 0)} /\ ~ SameNumber(Around(w, 1), Around(w, 0))
    <3>1. OperandAsNumber(w) = {Around(w, 0)} /\ Around(w, 0) \in Int \X Nat
      BY <1>1, <1>4, OperandIsAround
    <3>2. Around(w, 1) \in Int \X Nat
      BY <1>1, <1>4, <2>3, AroundIsNumber
    <3> QED BY <2>2, <3>1, <3>2, LessIsStrict
  <2>5. ~ EvalEq(a, w)
    BY <1>1, <2>4, <2>6, EqualsAtoms
  <2> QED BY <2>1, <2>5 DEF a
<1>5. CASE IsList(w)
  <2> DEFINE a == Str(Word("__NOMATCH__"))
  <2>1. DifferentFrom(w) = a
    <3>1. ~ IsStr(w) /\ ~ IsBool(w) /\ ~ IsDecimal(w)
      BY <1>5 DEF IsStr, IsBool, IsDecimal, IsList
    <3> QED BY <1>5, <3>1, Zenon DEF DifferentFrom
  <2>2. IsStr(a)
    BY DEF Str, IsStr
  <2> HIDE DEF a
  <2>3. FromJson(a) = a /\ Shallow(a) /\ AsNumber(a) = {} /\ ~ IsList(a) /\ ~ IsStr(w)
    BY <1>5, <2>2, PlainIsReadBack, NumbersAreNumbers DEF IsStr, IsList
  <2> QED BY <1>1, <2>1, <2>3, EqualsAtoms
<1> QED BY <1>1, <1>2, <1>3, <1>4, <1>5 DEF ValuePart

(* An ordering decides by the two numbers.                                 *)
LEMMA OrderedByNumber ==
  ASSUME NEW w, NEW a, NEW n \in Int \X Nat, NEW b \in Int \X Nat,
         AsNumber(a) = {n}, OperandAsNumber(w) = {b}, ~ IsStr(a)
  PROVE  /\ EvalOrd(a, w, ">") <=> LessNumber(b, n)
         /\ EvalOrd(a, w, "<") <=> LessNumber(n, b)
         /\ EvalOrd(a, w, ">=") <=> ~ LessNumber(n, b)
         /\ EvalOrd(a, w, "<=") <=> ~ LessNumber(b, n)
<1> DEFINE l == LessNumber(n, b)
           g == LessNumber(b, n)
<1>1. \A op : EvalOrd(a, w, op) <=> ApplyOrd(l, g, op)
  BY Zenon DEF EvalOrd
<1>2. l \in BOOLEAN /\ g \in BOOLEAN
  BY SMT DEF LessNumber
<1>3. (EvalOrd(a, w, ">") <=> ApplyOrd(l, g, ">")) /\ (EvalOrd(a, w, "<") <=> ApplyOrd(l, g, "<"))
  BY <1>1
<1>4. (EvalOrd(a, w, ">=") <=> ApplyOrd(l, g, ">=")) /\ (EvalOrd(a, w, "<=") <=> ApplyOrd(l, g, "<="))
  BY <1>1
<1> HIDE DEF l, g
<1>5. (ApplyOrd(l, g, ">") <=> g) /\ (ApplyOrd(l, g, "<") <=> l)
  BY <1>2 DEF ApplyOrd
<1>6. (ApplyOrd(l, g, ">=") <=> ~ l) /\ (ApplyOrd(l, g, "<=") <=> ~ g)
  BY <1>2 DEF ApplyOrd
<1> QED BY <1>3, <1>4, <1>5, <1>6, Zenon DEF l, g

(* An item is looked up under the text it shows.                           *)
LEMMA OperandsPrint ==
  ASSUME NEW v, ValuePart(v), Shallow(v), ~ IsList(v),
         IsDecimal(v) /\ v.e = 0 => Abs(v.m) <= MaxJsonInt \div 2
  PROVE  PythonStrFact(ReadBack(v)) = PythonStrScalar(v)
<1> DEFINE str == [z \in Parts(v) |-> PythonStrScalar(z)]
<1>1. PythonStrScalar(v) = PythonStrScalarPart(v, str)
  BY PythonStrScalarUnfolds
<1> HIDE DEF str
<1>2. CASE IsStr(v)
  <2>1. ReadBack(v) = v
    BY <1>2, AtomsAreReadBack DEF ReadBack, IsStr, IsDecimal
  <2> QED BY <1>2, <2>1, PythonStrFactOfText, PythonStrScalarOfText
<1>3. CASE IsBool(v)
  <2>1. ReadBack(v) = v
    BY <1>3, AtomsAreReadBack DEF ReadBack, IsBool, IsDecimal
  <2>2. ~ IsStr(v) /\ ~ IsDecimal(v) /\ ~ IsList(v) /\ "int" \notin DOMAIN v /\ "float" \notin DOMAIN v
    BY <1>3 DEF IsStr, IsBool, IsDecimal, IsList
  <2>3. PythonStrScalar(v) = PythonBool(v.bool)
    BY <1>1, <1>3, <2>2, Zenon DEF PythonStrScalarPart
  <2>4. \A f : PythonStrFactPart(v, f) = PythonBool(v.bool)
    BY <1>3, <2>2, Zenon DEF PythonStrFactPart
  <2> QED BY <1>3, <2>1, <2>3, <2>4, PlainIsReadBack, PythonStrFactOfAtom
<1>4. CASE IsDecimal(v)
  <2>1. v.m \in Int /\ v.e \in Nat
    BY <1>4 DEF ValuePart, IsStr, IsBool, IsDecimal, IsList
  <2>2. ~ IsStr(v) /\ ~ IsBool(v)
    BY <1>4 DEF IsStr, IsBool, IsDecimal
  <2>3. PythonStrScalar(v) = IF v.e <= 0 THEN DecimalToString(v.m, v.e)
                             ELSE PythonFloatStr(DecimalToF64(v.m, v.e))
    BY <1>1, <1>4, <2>2, Zenon DEF PythonStrScalarPart
  <2> DEFINE x == ReadBack(v)
  <2>4. OperandToJson(v) = DecimalJson(v.m, v.e)
    BY <1>4, AtomsAreReadBack
  <2>5. CASE v.e = 0
    <3>1. x = IntFact(v.m)
      BY <1>4, <2>1, <2>4, <2>5, NumbersAreReadBack DEF ReadBack
    <3>2. DOMAIN x = {"int"} /\ x.int = v.m
      BY <3>1 DEF IntFact
    <3> HIDE DEF x
    <3>3. Parts(x) = {x}
      <4>1. Inside(x) = {}
        BY <3>2, JsonNests DEF JsonKinds
      <4> QED BY <4>1, NothingInside
    <3>4. \A f : PythonStrFactPart(x, f) = Number(<<v.m, 0>>)
      <4>1. "int" \in DOMAIN x /\ "float" \notin DOMAIN x /\ ~ IsStr(x) /\ ~ IsBool(x) /\ ~ IsList(x)
        BY <3>2 DEF IsStr, IsBool, IsList
      <4> QED BY <3>2, <4>1, Zenon DEF PythonStrFactPart
    <3>5. PythonStrFact(x) = Number(<<v.m, 0>>)
      BY <3>3, <3>4, PythonStrFactOfAtom
    <3>6. DecimalToString(v.m, v.e) = Number(<<v.m, 0>>)
      <4>1. Pow10[-(v.e)] = 1
        BY <2>5, PowersOfTen
      <4> QED BY <2>1, <2>5, <4>1 DEF DecimalToString
    <3> QED BY <2>3, <2>5, <3>5, <3>6 DEF x
  <2>6. CASE v.e > 0
    <3>1. x = FloatFact(F64(<<v.m, v.e>>))
      <4>1. v.e # 0
        BY <2>1, <2>6
      <4> QED BY <2>1, <2>4, <4>1, NumbersAreReadBack DEF ReadBack
    <3>2. DOMAIN x = {"float"} /\ x.float = F64(<<v.m, v.e>>)
      BY <3>1 DEF FloatFact
    <3> HIDE DEF x
    <3>3. Parts(x) = {x}
      <4>1. Inside(x) = {}
        BY <3>2, JsonNests DEF JsonKinds
      <4> QED BY <4>1, NothingInside
    <3>4. \A f : PythonStrFactPart(x, f) = PythonFloatStr(F64(<<v.m, v.e>>))
      <4>1. "float" \in DOMAIN x /\ "int" \notin DOMAIN x /\ ~ IsStr(x) /\ ~ IsBool(x) /\ ~ IsList(x)
        BY <3>2 DEF IsStr, IsBool, IsList
      <4> QED BY <3>2, <4>1, Zenon DEF PythonStrFactPart
    <3>5. PythonStrFact(x) = PythonFloatStr(F64(<<v.m, v.e>>))
      BY <3>3, <3>4, PythonStrFactOfAtom
    <3>6. ~ (v.e <= 0) /\ DecimalToF64(v.m, v.e) = F64(<<v.m, v.e>>)
      BY <2>1, <2>6, PlainDecimal
    <3> QED BY <2>3, <3>5, <3>6 DEF x
  <2> QED BY <2>1, <2>5, <2>6
<1> QED BY <1>2, <1>3, <1>4 DEF ValuePart

(* Nothing else shows the word that is kept for what is in no list.        *)
LEMMA NonMemberIsNoItem ==
  ASSUME NEW v, ValuePart(v), Shallow(v), v # NonMember
  PROVE  PythonStrScalar(v) # PythonStrFact(FromJson(NonMember))
<1>1. PythonStrFact(FromJson(NonMember)) = Word("__NOT_IN_SET__")
  <2>1. IsStr(NonMember) /\ NonMember.str = Word("__NOT_IN_SET__")
    BY DEF NonMember, Str, IsStr
  <2> QED BY <2>1, PlainIsReadBack, PythonStrFactOfText
<1> DEFINE str == [z \in Parts(v) |-> PythonStrScalar(z)]
<1>2. PythonStrScalar(v) = PythonStrScalarPart(v, str)
  BY PythonStrScalarUnfolds
<1> HIDE DEF str
<1>3. CASE IsStr(v)
  <2>1. v = Str(v.str)
    BY <1>3 DEF ValuePart, IsStr, IsBool, IsDecimal, IsList
  <2>2. PythonStrScalar(v) = v.str
    BY <1>3, PythonStrScalarOfText
  <2> QED BY <1>1, <2>1, <2>2 DEF NonMember
<1>4. CASE IsBool(v)
  <2>1. ~ IsStr(v) /\ ~ IsDecimal(v) /\ ~ IsList(v)
    BY <1>4 DEF IsStr, IsBool, IsDecimal, IsList
  <2>2. PythonStrScalar(v) = PythonBool(v.bool)
    BY <1>2, <1>4, <2>1, Zenon DEF PythonStrScalarPart
  <2> QED BY <1>1, <2>2 DEF PythonBool, Word
<1>5. CASE IsDecimal(v)
  <2>1. ~ IsStr(v) /\ ~ IsBool(v) /\ ~ IsList(v)
    BY <1>5 DEF IsStr, IsBool, IsDecimal, IsList
  <2>2. PythonStrScalar(v) = IF v.e <= 0 THEN DecimalToString(v.m, v.e)
                             ELSE PythonFloatStr(DecimalToF64(v.m, v.e))
    BY <1>2, <1>5, <2>1, Zenon DEF PythonStrScalarPart
  <2>3. \E n : PythonStrScalar(v) = Number(n)
    BY <2>2 DEF DecimalToString, PythonFloatStr
  <2> QED BY <1>1, <2>3 DEF Number, Word
<1>6. CASE IsList(v)
  <2>1. ~ IsStr(v) /\ ~ IsBool(v) /\ ~ IsDecimal(v)
    BY <1>6 DEF IsStr, IsBool, IsDecimal, IsList
  <2>2. PythonStrScalar(v) = ReprList(v.list, str)
    BY <1>2, <1>6, <2>1, Zenon DEF PythonStrScalarPart
  <2> QED BY <1>1, <2>2 DEF ReprList, Word
<1> QED BY <1>3, <1>4, <1>5, <1>6 DEF ValuePart

(* What a generated value, or its absence, leaves to be looked up.         *)
Left(gen) == IF gen = {} THEN Null ELSE FromJson(CHOOSE v \in gen : TRUE)

LEMMA LeftOfOne ==
  ASSUME NEW v
  PROVE  Left({v}) = FromJson(v)
<1>1. {v} # {} /\ (CHOOSE u \in {v} : TRUE) = v
  OBVIOUS
<1> QED BY <1>1 DEF Left

(* The value before a threshold, on it and after it.                       *)
LEMMA ThresholdIsOrdered ==
  ASSUME NEW w, IsValue(w), IsDecimal(w)
  PROVE  LET at    == ReadBack(w)
             above == FromJson(Shift(w, 1))
             below == FromJson(Shift(w, -1))
         IN  /\ ~ EvalOrd(at, w, ">") /\ ~ EvalOrd(at, w, "<")
             /\ EvalOrd(at, w, ">=") /\ EvalOrd(at, w, "<=")
             /\ RoomAbove(w) => EvalOrd(above, w, ">") /\ ~ EvalOrd(above, w, "<=")
             /\ RoomBelow(w) => EvalOrd(below, w, "<") /\ ~ EvalOrd(below, w, ">=")
<1> DEFINE at    == ReadBack(w)
           above == FromJson(Shift(w, 1))
           below == FromJson(Shift(w, -1))
<1>1. Shallow(w) /\ ValuePart(w)
  BY PartsAreClosed DEF IsValue
<1>2. w.m \in Int /\ Abs(w.m) <= MaxMantissa
  BY <1>1 DEF ValuePart, IsStr, IsBool, IsDecimal, IsList
<1>3. /\ OperandAsNumber(w) = {Around(w, 0)} /\ Around(w, 0) \in Int \X Nat
      /\ AsNumber(at) = {Around(w, 0)} /\ ~ IsStr(at)
  BY <1>1, OperandIsAround
<1>4. ~ LessNumber(Around(w, 0), Around(w, 0))
  BY <1>3, LessIsStrict
<1>5. ASSUME RoomAbove(w) PROVE EvalOrd(above, w, ">") /\ ~ EvalOrd(above, w, "<=")
  <2>1. Abs(w.m + 1) <= MaxMantissa
    BY <1>2, <1>5, ScalarsAssumption DEF RoomAbove, Abs
  <2>2. AsNumber(above) = {Around(w, 1)} /\ ~ IsStr(above) /\ Around(w, 1) \in Int \X Nat
    BY <1>1, <2>1, ShiftedNumbers, AroundIsNumber
  <2>3. LessNumber(Around(w, 0), Around(w, 1))
    BY <1>5 DEF RoomAbove
  <2> HIDE DEF above
  <2> QED BY <1>3, <2>2, <2>3, OrderedByNumber
<1>6. ASSUME RoomBelow(w) PROVE EvalOrd(below, w, "<") /\ ~ EvalOrd(below, w, ">=")
  <2>1. Abs(w.m + (-1)) <= MaxMantissa
    BY <1>2, <1>6, ScalarsAssumption DEF RoomBelow, Abs
  <2>2. AsNumber(below) = {Around(w, -1)} /\ ~ IsStr(below) /\ Around(w, -1) \in Int \X Nat
    BY <1>1, <2>1, ShiftedNumbers, AroundIsNumber
  <2>3. LessNumber(Around(w, -1), Around(w, 0))
    BY <1>6 DEF RoomBelow
  <2> HIDE DEF below
  <2> QED BY <1>3, <2>2, <2>3, OrderedByNumber
<1>7. ~ EvalOrd(at, w, ">") /\ ~ EvalOrd(at, w, "<") /\ EvalOrd(at, w, ">=") /\ EvalOrd(at, w, "<=")
  BY <1>3, <1>4, OrderedByNumber
<1> QED BY <1>5, <1>6, <1>7

(* The first item is in the list, the word kept for it is not.             *)
LEMMA FirstIsMember ==
  ASSUME NEW c, IsCond(c), Drivable(c), c.operator \in {"in", "not_in"}
  PROVE  /\ EvalIn(FromJson(FirstMember(c.value)), c.value)
         /\ ~ EvalIn(FromJson(NonMember), c.value)
<1> DEFINE w == c.value
           v == w.list[1]
<1>1. /\ IsList(w) /\ w.list # <<>> /\ NonMember \notin ToSet(w.list) /\ ~ IsList(v)
      /\ IsDecimal(v) /\ v.e = 0 => Abs(v.m) <= MaxJsonInt \div 2
  BY DEF Drivable
<1>2. IsValue(w) /\ Shallow(w) /\ IsASeq(w.list)
  BY <1>1, PartsAreClosed, ListsOfOperands DEF IsCond, IsValue
<1>3. ASSUME NEW i \in DOMAIN w.list
      PROVE  ValuePart(w.list[i]) /\ Shallow(w.list[i]) /\ w.list[i] # NonMember
  <2>1. w.list[i] \in Inside(w)
    BY <1>1, ItemsAreInside DEF IsList
  <2>2. w.list[i] \in Parts(w)
    BY <1>2, <2>1, PartsAreClosed
  <2>3. w.list[i] \in ToSet(w.list)
    BY DEF ToSet
  <2> QED BY <1>1, <1>2, <2>2, <2>3, PartsAreClosed DEF IsValue
<1>4. 1 \in DOMAIN w.list
  BY <1>1, <1>2 DEF IsASeq
<1> HIDE DEF w, v
<1>5. FirstMember(w) = OperandToJson(w.list[1])
  BY <1>1 DEF FirstMember
<1>6. PythonStrFact(ReadBack(w.list[1])) = PythonStrScalar(w.list[1])
  BY <1>1, <1>3, <1>4, OperandsPrint DEF v
<1>7. EvalIn(FromJson(FirstMember(w)), w)
  BY <1>1, <1>4, <1>5, <1>6 DEF EvalIn, ReadBack
<1>8. ~ EvalIn(FromJson(NonMember), w)
  BY <1>3, NonMemberIsNoItem DEF EvalIn
<1> QED BY <1>7, <1>8 DEF w

(* A condition that can be driven goes the way it is driven.               *)
LEMMA DrivenTrue ==
  ASSUME NEW c, IsCond(c), Drivable(c)
  PROVE  Compare(Left(ValueTrue(c)), c.operator, c.value)
<1> DEFINE w == c.value
           op == c.operator
<1>1. IsValue(w)
  BY DEF IsCond
<1>2. CASE op = "=="
  <2>1. ValueTrue(c) = {OperandToJson(w)}
    BY <1>2 DEF ValueTrue
  <2>2. EvalEq(Left(ValueTrue(c)), w)
    BY <1>1, <2>1, LeftOfOne, OperandsAreEqual DEF ReadBack
  <2> QED BY <1>2, <2>2 DEF Compare
<1>3. CASE op = "!="
  <2>1. ValueTrue(c) = {DifferentFrom(w)}
    BY <1>3 DEF ValueTrue
  <2>2. ~ EvalEq(Left(ValueTrue(c)), w)
    BY <1>1, <1>3, <2>1, LeftOfOne, DifferentIsNotEqual DEF Drivable
  <2> QED BY <1>3, <2>2 DEF Compare
<1>4. CASE op = "in"
  <2>1. ValueTrue(c) = {FirstMember(w)}
    BY <1>4 DEF ValueTrue
  <2>2. EvalIn(Left(ValueTrue(c)), w)
    BY <1>4, <2>1, LeftOfOne, FirstIsMember
  <2> QED BY <1>4, <2>2 DEF Compare
<1>5. CASE op = "not_in"
  <2>1. ValueTrue(c) = {NonMember}
    BY <1>5 DEF ValueTrue
  <2>2. ~ EvalIn(Left(ValueTrue(c)), w)
    BY <1>5, <2>1, LeftOfOne, FirstIsMember
  <2> QED BY <1>5, <2>2 DEF Compare
<1>6. CASE op = "exists"
  <2> DEFINE word == Str(Word("present"))
  <2>1. ValueTrue(c) = {word}
    BY <1>6 DEF ValueTrue
  <2>2. IsStr(word) /\ word # Null
    BY DEF Str, IsStr, Null
  <2> HIDE DEF word
  <2>3. Left(ValueTrue(c)) # Null
    BY <2>1, <2>2, LeftOfOne, PlainIsReadBack
  <2> QED BY <1>6, <2>3 DEF Compare, IsPresent
<1>7. CASE op \in {">", "<", ">=", "<="}
  <2>1. /\ IsDecimal(w)
        /\ op \in {">", "<="} => RoomAbove(w)
        /\ op \in {"<", ">="} => RoomBelow(w)
    BY <1>7 DEF Drivable
  <2>2. EvalOrd(Left(ValueTrue(c)), w, op)
    <3>1. CASE op = ">"
      <4>1. ValueTrue(c) = {Shift(w, 1)}
        BY <3>1 DEF ValueTrue
      <4> QED BY <1>1, <2>1, <3>1, <4>1, LeftOfOne, ThresholdIsOrdered
    <3>2. CASE op = "<"
      <4>1. ValueTrue(c) = {Shift(w, -1)}
        BY <3>2 DEF ValueTrue
      <4> QED BY <1>1, <2>1, <3>2, <4>1, LeftOfOne, ThresholdIsOrdered
    <3>3. CASE op \in {">=", "<="}
      <4>1. ValueTrue(c) = {OperandToJson(w)}
        BY <3>3 DEF ValueTrue
      <4> QED BY <1>1, <2>1, <3>3, <4>1, LeftOfOne, ThresholdIsOrdered DEF ReadBack
    <3> QED BY <1>7, <3>1, <3>2, <3>3
  <2> QED BY <1>7, <2>2 DEF Compare
<1> QED BY <1>2, <1>3, <1>4, <1>5, <1>6, <1>7 DEF Drivable

LEMMA DrivenFalse ==
  ASSUME NEW c, IsCond(c), Drivable(c)
  PROVE  ~ Compare(Left(ValueFalse(c)), c.operator, c.value)
<1> DEFINE w == c.value
           op == c.operator
<1>1. IsValue(w)
  BY DEF IsCond
<1>2. CASE op = "=="
  <2>1. ValueFalse(c) = {DifferentFrom(w)}
    BY <1>2 DEF ValueFalse
  <2>2. ~ EvalEq(Left(ValueFalse(c)), w)
    BY <1>1, <1>2, <2>1, LeftOfOne, DifferentIsNotEqual DEF Drivable
  <2> QED BY <1>2, <2>2 DEF Compare
<1>3. CASE op = "!="
  <2>1. ValueFalse(c) = {OperandToJson(w)}
    BY <1>3 DEF ValueFalse
  <2>2. EvalEq(Left(ValueFalse(c)), w)
    BY <1>1, <2>1, LeftOfOne, OperandsAreEqual DEF ReadBack
  <2> QED BY <1>3, <2>2 DEF Compare
<1>4. CASE op = "in"
  <2>1. ValueFalse(c) = {NonMember}
    BY <1>4 DEF ValueFalse
  <2>2. ~ EvalIn(Left(ValueFalse(c)), w)
    BY <1>4, <2>1, LeftOfOne, FirstIsMember
  <2> QED BY <1>4, <2>2 DEF Compare
<1>5. CASE op = "not_in"
  <2>1. ValueFalse(c) = {FirstMember(w)}
    BY <1>5 DEF ValueFalse
  <2>2. EvalIn(Left(ValueFalse(c)), w)
    BY <1>5, <2>1, LeftOfOne, FirstIsMember
  <2> QED BY <1>5, <2>2 DEF Compare
<1>6. CASE op = "exists"
  <2>1. Left(ValueFalse(c)) = Null
    BY <1>6 DEF ValueFalse, Left
  <2> QED BY <1>6, <2>1 DEF Compare, IsPresent
<1>7. CASE op \in {">", "<", ">=", "<="}
  <2>1. /\ IsDecimal(w)
        /\ op \in {">", "<="} => RoomAbove(w)
        /\ op \in {"<", ">="} => RoomBelow(w)
    BY <1>7 DEF Drivable
  <2>2. ~ EvalOrd(Left(ValueFalse(c)), w, op)
    <3>1. CASE op = ">="
      <4>1. ValueFalse(c) = {Shift(w, -1)}
        BY <3>1 DEF ValueFalse
      <4> QED BY <1>1, <2>1, <3>1, <4>1, LeftOfOne, ThresholdIsOrdered
    <3>2. CASE op = "<="
      <4>1. ValueFalse(c) = {Shift(w, 1)}
        BY <3>2 DEF ValueFalse
      <4> QED BY <1>1, <2>1, <3>2, <4>1, LeftOfOne, ThresholdIsOrdered
    <3>3. CASE op \in {">", "<"}
      <4>1. ValueFalse(c) = {OperandToJson(w)}
        BY <3>3 DEF ValueFalse
      <4> QED BY <1>1, <2>1, <3>3, <4>1, LeftOfOne, ThresholdIsOrdered DEF ReadBack
    <3> QED BY <1>7, <3>1, <3>2, <3>3
  <2> QED BY <1>7, <2>2 DEF Compare
<1> QED BY <1>2, <1>3, <1>4, <1>5, <1>6, <1>7 DEF Drivable

-----------------------------------------------------------------------------
(* Facts built from pairs.                                                 *)

FieldsOf(s) == { s[i].field : i \in DOMAIN s }
Once(s) == \A i, j \in DOMAIN s : s[i].field = s[j].field => i = j

LEMMA OnceInEach ==
  ASSUME NEW E, NEW s \in Seq(E), NEW t \in Seq(E)
  PROVE  /\ FieldsOf(s \o t) = FieldsOf(s) \cup FieldsOf(t)
         /\ Once(s \o t) => Once(s) /\ Once(t) /\ FieldsOf(s) \cap FieldsOf(t) = {}
         /\ Once(s) /\ Once(t) /\ FieldsOf(s) \cap FieldsOf(t) = {} => Once(s \o t)
<1> DEFINE k == Len(s)
           n == Len(t)
           u == s \o t
<1>1. k \in Nat /\ n \in Nat /\ DOMAIN s = 1 .. k /\ DOMAIN t = 1 .. n /\ DOMAIN u = 1 .. k + n
  OBVIOUS
<1>2. \A i \in 1 .. k : u[i] = s[i] /\ i \in 1 .. k + n
  OBVIOUS
<1>3. \A i \in 1 .. n : u[k + i] = t[i] /\ k + i \in 1 .. k + n
  OBVIOUS
<1> HIDE DEF k, n, u
<1>4. \A i \in 1 .. k + n : i \in 1 .. k \/ (i - k \in 1 .. n /\ i = k + (i - k))
  BY <1>1
<1>5. FieldsOf(u) = FieldsOf(s) \cup FieldsOf(t)
  <2>1. ASSUME NEW i \in 1 .. k + n PROVE u[i].field \in FieldsOf(s) \cup FieldsOf(t)
    <3>1. CASE i \in 1 .. k
      BY <1>1, <1>2, <3>1 DEF FieldsOf
    <3>2. CASE i - k \in 1 .. n /\ i = k + (i - k)
      <4>1. u[i] = t[i - k]
        BY <1>3, <3>2
      <4> QED BY <1>1, <3>2, <4>1 DEF FieldsOf
    <3> QED BY <1>4, <3>1, <3>2
  <2>2. FieldsOf(s) \subseteq FieldsOf(u) /\ FieldsOf(t) \subseteq FieldsOf(u)
    BY <1>1, <1>2, <1>3 DEF FieldsOf
  <2> QED BY <1>1, <2>1, <2>2 DEF FieldsOf
<1>6. Once(u) => Once(s) /\ Once(t) /\ FieldsOf(s) \cap FieldsOf(t) = {}
  <2> SUFFICES ASSUME Once(u) PROVE Once(s) /\ Once(t) /\ FieldsOf(s) \cap FieldsOf(t) = {}
    OBVIOUS
  <2>1. Once(s)
    BY <1>1, <1>2 DEF Once
  <2>2. ASSUME NEW i \in 1 .. n, NEW j \in 1 .. n, t[i].field = t[j].field PROVE i = j
    <3>1. k + i = k + j
      BY <1>1, <1>3, <2>2 DEF Once
    <3> QED BY <1>1, <3>1
  <2>3. ASSUME NEW i \in 1 .. k, NEW j \in 1 .. n, s[i].field = t[j].field PROVE FALSE
    <3>1. i = k + j
      BY <1>1, <1>2, <1>3, <2>3 DEF Once
    <3> QED BY <1>1, <3>1
  <2> QED BY <1>1, <2>1, <2>2, <2>3 DEF Once, FieldsOf
<1>7. ASSUME Once(s), Once(t), FieldsOf(s) \cap FieldsOf(t) = {} PROVE Once(u)
  <2> SUFFICES ASSUME NEW i \in 1 .. k + n, NEW j \in 1 .. k + n, u[i].field = u[j].field
               PROVE  i = j
    BY <1>1 DEF Once
  <2>1. ASSUME NEW x \in 1 .. k, NEW y \in 1 .. n PROVE s[x].field # t[y].field
    <3>1. s[x].field \in FieldsOf(s) /\ t[y].field \in FieldsOf(t)
      BY <1>1 DEF FieldsOf
    <3> QED BY <1>7, <3>1
  <2>2. CASE i \in 1 .. k /\ j \in 1 .. k
    BY <1>1, <1>2, <1>7, <2>2 DEF Once
  <2>3. CASE i - k \in 1 .. n /\ i = k + (i - k) /\ j - k \in 1 .. n /\ j = k + (j - k)
    <3>1. u[i] = t[i - k] /\ u[j] = t[j - k]
      BY <1>3, <2>3
    <3>2. i - k = j - k
      BY <1>1, <1>7, <2>3, <3>1 DEF Once
    <3> QED BY <2>3, <3>2
  <2>4. CASE i \in 1 .. k /\ j - k \in 1 .. n /\ j = k + (j - k)
    <3>1. u[i] = s[i] /\ u[j] = t[j - k]
      BY <1>2, <1>3, <2>4
    <3> QED BY <2>1, <2>4, <3>1
  <2>5. CASE j \in 1 .. k /\ i - k \in 1 .. n /\ i = k + (i - k)
    <3>1. u[j] = s[j] /\ u[i] = t[i - k]
      BY <1>2, <1>3, <2>5
    <3> QED BY <2>1, <2>5, <3>1
  <2> QED BY <1>4, <2>2, <2>3, <2>4, <2>5
<1> QED BY <1>5, <1>6, <1>7 DEF u

(* The facts have what each pair says of its field.                        *)
Realised(facts, pairs) ==
  \A i \in DOMAIN pairs : Lookup(facts, pairs[i].field) = Left(pairs[i].gen)

LEMMA RealisedInEach ==
  ASSUME NEW E, NEW s \in Seq(E), NEW t \in Seq(E), NEW facts, Realised(facts, s \o t)
  PROVE  Realised(facts, s) /\ Realised(facts, t)
<1>1. /\ \A i \in DOMAIN s : (s \o t)[i] = s[i] /\ i \in DOMAIN (s \o t)
      /\ \A i \in DOMAIN t : (s \o t)[Len(s) + i] = t[i] /\ Len(s) + i \in DOMAIN (s \o t)
  OBVIOUS
<1> QED BY <1>1 DEF Realised

LEMMA BuiltFactsRealise ==
  ASSUME NEW E, NEW pairs \in Seq(E), Once(pairs),
         NEW facts \in FactsFromJson([object |-> BuildFacts(pairs)])
  PROVE  Realised(facts, pairs)
<1> DEFINE last(f) == pairs[Max({ i \in DOMAIN pairs : pairs[i].field = f })]
           fields  == { f \in { pairs[i].field : i \in DOMAIN pairs } : last(f).gen # {} }
           built   == BuildFacts(pairs)
<1>1. DOMAIN pairs \subseteq Int
  OBVIOUS
<1>2. ASSUME NEW i \in DOMAIN pairs PROVE last(pairs[i].field) = pairs[i]
  <2>1. { j \in DOMAIN pairs : pairs[j].field = pairs[i].field } = {i}
    BY DEF Once
  <2>2. Max({i}) = i
    BY <1>1 DEF Max
  <2> QED BY <2>1, <2>2
<1>3. built = [f \in fields |-> CHOOSE v \in last(f).gen : TRUE]
  BY DEF BuildFacts
<1>4. facts = [f \in DOMAIN built |-> FromJson(built[f])]
  <2>1. \A b : /\ "object" \in DOMAIN [object |-> b]
               /\ [object |-> b].object = b
    OBVIOUS
  <2>2. \A b : FactsFromJson([object |-> b]) = {[f \in DOMAIN b |-> FromJson(b[f])]}
    BY <2>1, Zenon DEF FactsFromJson
  <2>3. facts \in FactsFromJson([object |-> built])
    OBVIOUS
  <2> HIDE DEF built
  <2> QED BY <2>2, <2>3
<1> SUFFICES ASSUME NEW i \in DOMAIN pairs
             PROVE  Lookup(facts, pairs[i].field) = Left(pairs[i].gen)
  BY DEF Realised
<1> DEFINE f == pairs[i].field
<1>5. f \in { pairs[j].field : j \in DOMAIN pairs } /\ last(f) = pairs[i]
  BY <1>2
<1>6. f \in fields <=> pairs[i].gen # {}
  BY <1>5
<1>7. f \in fields => built[f] = CHOOSE v \in pairs[i].gen : TRUE
  <2> DEFINE what(g) == CHOOSE v \in g : TRUE
  <2>1. built = [g \in fields |-> what(last(g).gen)]
    BY <1>3, Zenon
  <2>2. what(last(f).gen) = what(pairs[i].gen)
    BY <1>5, Zenon
  <2>3. what(pairs[i].gen) = CHOOSE v \in pairs[i].gen : TRUE
    OBVIOUS
  <2> HIDE DEF built, fields, f, last, what
  <2> QED BY <2>1, <2>2, <2>3
<1>8. DOMAIN facts = fields /\ \A g \in fields : facts[g] = FromJson(built[g])
  <2>1. DOMAIN built = fields
    BY <1>3, Zenon
  <2> HIDE DEF built, fields, f
  <2> QED BY <1>4, <2>1
<1> HIDE DEF built, fields, f
<1>9. Lookup(facts, f) = Left(pairs[i].gen)
  BY <1>6, <1>7, <1>8 DEF Lookup, Left
<1> QED BY <1>9 DEF f

-----------------------------------------------------------------------------
(* The ways to the leaves.                                                 *)

Along(x, value, rest) ==
  { [p EXCEPT !.pairs = <<Pair(x.condition.field, value)>> \o @] : p \in rest }

EnumeratePathsBody(x, paths) ==
  IF IsLeaf(x) THEN {[pairs |-> <<>>, leaf |-> x]}
  ELSE Along(x, ValueTrue(x.condition), paths[x.true_branch]) \cup
       Along(x, ValueFalse(x.condition), paths[x.false_branch])

LEMMA EnumeratePathsLocal ==
  ASSUME NEW x, NEW f, NEW g, \A z \in Below(x) : f[z] = g[z]
  PROVE  EnumeratePathsBody(x, f) = EnumeratePathsBody(x, g)
<1>1. CASE IsLeaf(x)
  BY <1>1, Zenon DEF EnumeratePathsBody
<1>2. CASE ~ IsLeaf(x)
  <2>1. f[x.true_branch] = g[x.true_branch] /\ f[x.false_branch] = g[x.false_branch]
    BY <1>2, BranchesAreBelow
  <2> QED BY <2>1, Zenon DEF EnumeratePathsBody
<1> QED BY <1>1, <1>2

LEMMA EnumeratePathsExists ==
  ASSUME NEW r, Shallow(r)
  PROVE  \E f : f = [x \in Parts(r) |-> EnumeratePathsBody(x, f)]
<1> DEFINE S == {n \in Nat : n <= MaxDepth + 1
                   => \E f : f = [x \in Lower(r, n) |-> EnumeratePathsBody(x, f)]}
<1>1. 0 \in S
  <2> DEFINE f == [x \in Lower(r, 0) |-> EnumeratePathsBody(x, <<>>)]
  <2>1. f = [x \in Lower(r, 0) |-> EnumeratePathsBody(x, f)]
    BY LowerGrows
  <2> QED BY <2>1, Zenon
<1>2. ASSUME NEW n \in Nat, n \in S PROVE n + 1 \in S
  <2> SUFFICES ASSUME n + 1 <= MaxDepth + 1
               PROVE  \E f : f = [x \in Lower(r, n + 1) |-> EnumeratePathsBody(x, f)]
    OBVIOUS
  <2>1. n <= MaxDepth /\ n <= MaxDepth + 1
    BY DepthAssumption
  <2>2. PICK f : f = [x \in Lower(r, n) |-> EnumeratePathsBody(x, f)]
    BY <1>2, <2>1
  <2> DEFINE g == [x \in Lower(r, n + 1) |-> EnumeratePathsBody(x, f)]
  <2>3. \A x \in Lower(r, n) : f[x] = EnumeratePathsBody(x, f)
    BY <2>2, Zenon
  <2>4. Lower(r, n) \subseteq Lower(r, n + 1)
    BY <2>1, LowerOnLower
  <2>5. \A x \in Lower(r, n) : g[x] = f[x]
    BY <2>3, <2>4
  <2>6. ASSUME NEW x \in Lower(r, n + 1) PROVE EnumeratePathsBody(x, f) = EnumeratePathsBody(x, g)
    <3>1. Below(x) \subseteq Lower(r, n)
      BY <2>1, LowerGrows
    <3> HIDE DEF g
    <3> QED BY <2>5, <3>1, EnumeratePathsLocal
  <2>7. g = [x \in Lower(r, n + 1) |-> EnumeratePathsBody(x, g)]
    BY <2>6
  <2> QED BY <2>7, Zenon
<1> HIDE DEF S
<1>3. Nat \subseteq S
  BY <1>1, <1>2, NatSetInduction
<1>4. \E f : f = [x \in Lower(r, MaxDepth + 1) |-> EnumeratePathsBody(x, f)]
  BY <1>3, DepthAssumption DEF S
<1> QED BY <1>4, LowerGrows

LEMMA EnumeratePathsUnfolds ==
  ASSUME NEW r, Shallow(r)
  PROVE  EnumeratePaths(r) = EnumeratePathsBody(r, [z \in Parts(r) |-> EnumeratePaths(z)])
<1> DEFINE F(x) == CHOOSE f : f = [z \in Parts(x) |-> EnumeratePathsBody(z, f)]
<1>1. ASSUME NEW x, Shallow(x)
      PROVE  /\ EnumeratePaths(x) = F(x)[x]
             /\ \A z \in Parts(x) : F(x)[z] = EnumeratePathsBody(z, F(x))
  <2>1. EnumeratePaths(x) = F(x)[x]
    BY Zenon DEF EnumeratePaths, EnumeratePathsBody, Along
  <2>2. \E f : f = [z \in Parts(x) |-> EnumeratePathsBody(z, f)]
    BY <1>1, EnumeratePathsExists
  <2>3. F(x) = [z \in Parts(x) |-> EnumeratePathsBody(z, F(x))]
    BY <2>2, Zenon
  <2> HIDE DEF F
  <2> QED BY <2>1, <2>3
<1> HIDE DEF F
<1>2. ASSUME NEW z \in Parts(r) PROVE F(r)[z] = EnumeratePaths(z)
  <2>1. Shallow(z) /\ Parts(z) \subseteq Parts(r)
    BY PartsAreClosed
  <2>2. ASSUME NEW y \in Parts(z), \A w \in Below(y) : F(r)[w] = F(z)[w]
        PROVE  F(r)[y] = F(z)[y]
    <3>1. F(r)[y] = EnumeratePathsBody(y, F(r)) /\ F(z)[y] = EnumeratePathsBody(y, F(z))
      BY <1>1, <2>1
    <3> QED BY <2>2, <3>1, EnumeratePathsLocal
  <2>3. z \in Parts(z)
    BY <2>1, PartsAreClosed
  <2>4. F(r)[z] = F(z)[z]
    BY <2>1, <2>2, <2>3, NestedAgree
  <2> QED BY <1>1, <2>1, <2>4
<1>3. r \in Parts(r) /\ Below(r) \subseteq Parts(r)
  BY PartsAreClosed
<1>4. \A z \in Below(r) : F(r)[z] = [y \in Parts(r) |-> EnumeratePaths(y)][z]
  BY <1>2, <1>3
<1>5. EnumeratePathsBody(r, F(r)) = EnumeratePathsBody(r, [z \in Parts(r) |-> EnumeratePaths(z)])
  BY <1>4, EnumeratePathsLocal
<1> QED BY <1>1, <1>3, <1>5



(* Where a way leads: facts that have what its pairs say go down the tree  *)
(* to its leaf, and its fields are among those tested.                     *)
Arrives(x, p) ==
  /\ DOMAIN p = {"pairs", "leaf"}
  /\ FieldsOf(p.pairs) \subseteq FieldsOf(CollectTree(x))
  /\ Once(CollectTree(x)) => Once(p.pairs)
  /\ \A facts : /\ Realised(facts, p.pairs)
                /\ \A c \in ToSet(CollectTree(x)) : Drivable(c)
                => Walk(x, facts).leaf = p.leaf

LEMMA TreeIsCollected ==
  ASSUME NEW r, TreeShape(r), NEW x \in Parts(r), IsNodeRecord(x)
  PROVE  LET c == x.condition
             p == CollectTree(x.true_branch)
             q == CollectTree(x.false_branch)
         IN  /\ c \in Asked(r) /\ p \in Seq(Asked(r)) /\ q \in Seq(Asked(r))
             /\ CollectTree(x) = (<<c>> \o p) \o q
<1> DEFINE c == x.condition
           p == CollectTree(x.true_branch)
           q == CollectTree(x.false_branch)
           f == [z \in Parts(x) |-> CollectTree(z)]
<1>1. Shallow(x) /\ ~ IsLeaf(x)
  BY PartsAreClosed DEF TreeShape, IsNodeRecord, IsLeaf
<1>2. CollectTree(x) = CollectTreeBody(x, f)
  BY <1>1, CollectTreeUnfolds
<1>3. /\ x.true_branch \in Parts(x) /\ x.false_branch \in Parts(x)
      /\ Parts(x) \subseteq Parts(r)
  BY <1>1, BranchesAreBelow, PartsAreClosed DEF TreeShape
<1>4. f[x.true_branch] = p /\ f[x.false_branch] = q
  BY <1>3
<1>5. p \in Seq(Asked(r)) /\ q \in Seq(Asked(r)) /\ c \in Asked(r)
  BY <1>1, <1>3, TreeConditions DEF Asked
<1> HIDE DEF f
<1>6. CollectTree(x) = <<c>> \o p \o q
  BY <1>1, <1>2, <1>4, Zenon DEF CollectTreeBody
<1> QED BY <1>5, <1>6

(* One step down: the fields of the branch are among those of the node and *)
(* not the node's own, when each is tested once.                           *)
LEMMA BranchIsCollected ==
  ASSUME NEW r, TreeShape(r), NEW x \in Parts(r), IsNodeRecord(x),
         NEW b \in {x.true_branch, x.false_branch}
  PROVE  /\ x.condition \in ToSet(CollectTree(x))
         /\ ToSet(CollectTree(b)) \subseteq ToSet(CollectTree(x))
         /\ FieldsOf(CollectTree(x)) = {x.condition.field} \cup FieldsOf(CollectTree(x.true_branch))
                                         \cup FieldsOf(CollectTree(x.false_branch))
         /\ Once(CollectTree(x)) =>
              Once(CollectTree(b)) /\ x.condition.field \notin FieldsOf(CollectTree(b))
<1> DEFINE c == x.condition
           p == CollectTree(x.true_branch)
           q == CollectTree(x.false_branch)
           A == Asked(r)
<1>1. c \in A /\ p \in Seq(A) /\ q \in Seq(A) /\ CollectTree(x) = (<<c>> \o p) \o q
  BY TreeIsCollected
<1>2. ToSet(CollectTree(x)) = {c} \cup ToSet(p) \cup ToSet(q)
  BY TreeConditions
<1>3. b \in {x.true_branch, x.false_branch} /\ CollectTree(b) \in {p, q}
  OBVIOUS
<1> HIDE DEF c, p, q, A
<1>4. <<c>> \in Seq(A) /\ <<c>> \o p \in Seq(A) /\ FieldsOf(<<c>>) = {c.field}
  BY <1>1 DEF FieldsOf
<1> DEFINE s == <<c>> \o p
<1>5. /\ FieldsOf(<<c>> \o p) = FieldsOf(<<c>>) \cup FieldsOf(p)
      /\ FieldsOf(s \o q) = FieldsOf(s) \cup FieldsOf(q)
      /\ Once(<<c>> \o p) => Once(p) /\ FieldsOf(<<c>>) \cap FieldsOf(p) = {}
      /\ Once(s \o q) => Once(s) /\ Once(q) /\ FieldsOf(s) \cap FieldsOf(q) = {}
  <2>1. ASSUME NEW u \in Seq(A), NEW t \in Seq(A)
        PROVE  /\ FieldsOf(u \o t) = FieldsOf(u) \cup FieldsOf(t)
               /\ Once(u \o t) => Once(u) /\ Once(t) /\ FieldsOf(u) \cap FieldsOf(t) = {}
    <3> HIDE DEF s
    <3> QED BY OnceInEach, ZenonT(30)
  <2> HIDE DEF s
  <2>2. s \in Seq(A)
    BY <1>4 DEF s
  <2> QED BY <1>1, <1>4, <2>1, <2>2, Zenon
<1>6. FieldsOf(CollectTree(x)) = {c.field} \cup FieldsOf(p) \cup FieldsOf(q)
  <2>1. CollectTree(x) = s \o q
    BY <1>1
  <2> HIDE DEF s
  <2>2. FieldsOf(s) = FieldsOf(<<c>>) \cup FieldsOf(p)
    BY <1>5 DEF s
  <2> QED BY <1>4, <1>5, <2>1, <2>2
<1>7. ASSUME Once(CollectTree(x))
      PROVE  /\ Once(p) /\ c.field \notin FieldsOf(p)
             /\ Once(q) /\ c.field \notin FieldsOf(q)
  <2>1. Once(s \o q)
    BY <1>1, <1>7
  <2>2. Once(s) /\ Once(q) /\ FieldsOf(s) \cap FieldsOf(q) = {}
    BY <1>5, <2>1, Zenon
  <2>3. Once(p) /\ FieldsOf(<<c>>) \cap FieldsOf(p) = {}
    BY <1>5, <2>2, Zenon
  <2>4. FieldsOf(s) = {c.field} \cup FieldsOf(p)
    BY <1>4, <1>5
  <2> HIDE DEF s
  <2> QED BY <1>4, <2>2, <2>3, <2>4
<1> QED BY <1>2, <1>3, <1>6, <1>7 DEF c, p, q

LEMMA ArrivesThrough ==
  ASSUME NEW r, TreeShape(r), NEW x \in Parts(r), IsNodeRecord(x),
         NEW taken \in BOOLEAN, NEW b, b = (IF taken THEN x.true_branch ELSE x.false_branch),
         NEW value, Drivable(x.condition) =>
           (Compare(Left(value), x.condition.operator, x.condition.value) <=> taken),
         \A facts : DOMAIN Walk(b, facts) = {"leaf", "path"},
         NEW E, NEW p, p.pairs \in Seq(E), Arrives(b, p),
         NEW q, q = [p EXCEPT !.pairs = <<Pair(x.condition.field, value)>> \o @]
  PROVE  Arrives(x, q)
<1> DEFINE c == x.condition
           step == Pair(c.field, value)
           G == E \cup {step}
<1>1. DOMAIN q = {"pairs", "leaf"} /\ q.pairs = <<step>> \o p.pairs /\ q.leaf = p.leaf
  BY DEF Arrives
<1>2. p.pairs \in Seq(G) /\ <<step>> \in Seq(G)
  OBVIOUS
<1>3. step.field = c.field /\ step.gen = value
  BY DEF Pair
<1> HIDE DEF step, G
<1>4. FieldsOf(<<step>>) = {c.field} /\ Once(<<step>>)
  BY <1>3 DEF FieldsOf, Once
<1>5. /\ FieldsOf(q.pairs) = {c.field} \cup FieldsOf(p.pairs)
      /\ Once(p.pairs) /\ {c.field} \cap FieldsOf(p.pairs) = {} => Once(q.pairs)
  <2>1. \A u, t \in Seq(G) :
          /\ FieldsOf(u \o t) = FieldsOf(u) \cup FieldsOf(t)
          /\ Once(u) /\ Once(t) /\ FieldsOf(u) \cap FieldsOf(t) = {} => Once(u \o t)
    BY OnceInEach, Zenon
  <2> QED BY <1>1, <1>2, <1>4, <2>1, Zenon
<1>6. b \in {x.true_branch, x.false_branch}
  OBVIOUS
<1>7. FieldsOf(p.pairs) \subseteq FieldsOf(CollectTree(b))
  BY DEF Arrives
<1>8. FieldsOf(q.pairs) \subseteq FieldsOf(CollectTree(x))
  <2>1. FieldsOf(CollectTree(x)) = {c.field} \cup FieldsOf(CollectTree(x.true_branch))
                                         \cup FieldsOf(CollectTree(x.false_branch))
    BY <1>6, BranchIsCollected
  <2> QED BY <1>5, <1>6, <1>7, <2>1
<1>9. ASSUME Once(CollectTree(x)) PROVE Once(q.pairs)
  <2>1. Once(CollectTree(b)) /\ c.field \notin FieldsOf(CollectTree(b))
    BY <1>6, <1>9, BranchIsCollected
  <2>2. Once(p.pairs) /\ {c.field} \cap FieldsOf(p.pairs) = {}
    BY <1>7, <2>1 DEF Arrives
  <2> QED BY <1>5, <2>2
<1>10. ASSUME NEW facts, Realised(facts, q.pairs), \A d \in ToSet(CollectTree(x)) : Drivable(d)
       PROVE  Walk(x, facts).leaf = q.leaf
  <2>1. Realised(facts, <<step>>) /\ Realised(facts, p.pairs)
    BY <1>1, <1>2, <1>10, RealisedInEach
  <2>2. Lookup(facts, c.field) = Left(value)
    BY <1>3, <2>1 DEF Realised
  <2>3. /\ c \in ToSet(CollectTree(x))
        /\ ToSet(CollectTree(b)) \subseteq ToSet(CollectTree(x))
    BY <1>6, BranchIsCollected
  <2>4. Holds(c, facts) <=> taken
    BY <1>10, <2>2, <2>3 DEF Holds
  <2>5. Chosen(x, facts) = b
    BY <2>4 DEF Chosen
  <2>6. Shallow(x)
    BY PartsAreClosed DEF TreeShape
  <2>7. Walk(x, facts) = [Walk(b, facts) EXCEPT !.path = <<NormStep(c, facts)>> \o @]
    BY <2>5, <2>6, WalkOfNodes
  <2>8. Walk(x, facts).leaf = Walk(b, facts).leaf
    BY <2>7
  <2>9. Walk(b, facts).leaf = p.leaf
    BY <1>10, <2>1, <2>3 DEF Arrives
  <2> QED BY <1>1, <2>8, <2>9
<1> QED BY <1>1, <1>8, <1>9, <1>10 DEF Arrives

(* Every way of the tree arrives.                                          *)
DrawnFor(r) == UNION { { Pair(c.field, value) : value \in {ValueTrue(c), ValueFalse(c)} } : c \in Asked(r) }

LEMMA PathsArrive ==
  ASSUME NEW r, TreeShape(r)
  PROVE  \A x \in Parts(r) :
           /\ \A facts : DOMAIN Walk(x, facts) = {"leaf", "path"}
           /\ \A p \in EnumeratePaths(x) : p.pairs \in Seq(DrawnFor(r)) /\ Arrives(x, p)
<1> DEFINE E == DrawnFor(r)
           Good(x) == /\ \A facts : DOMAIN Walk(x, facts) = {"leaf", "path"}
                      /\ \A p \in EnumeratePaths(x) : p.pairs \in Seq(E) /\ Arrives(x, p)
           S == {x \in Parts(r) : Good(x)}
<1>1. Shallow(r)
  BY DEF TreeShape
<1>2. ASSUME NEW x \in Parts(r), Below(x) \subseteq S PROVE x \in S
  <2>1. Shallow(x) /\ (IsLeafRecord(x) \/ IsNodeRecord(x))
    BY <1>1, PartsAreClosed DEF TreeShape
  <2> DEFINE f == [z \in Parts(x) |-> EnumeratePaths(z)]
  <2>2. EnumeratePaths(x) = EnumeratePathsBody(x, f)
    BY <2>1, EnumeratePathsUnfolds
  <2>3. CASE IsLeafRecord(x)
    <3>1. IsLeaf(x)
      BY <2>3, LeavesHoldNothing
    <3>2. EnumeratePaths(x) = {[pairs |-> <<>>, leaf |-> x]}
      BY <2>2, <3>1, Zenon DEF EnumeratePathsBody
    <3>3. ASSUME NEW facts PROVE Walk(x, facts) = [leaf |-> x, path |-> <<>>]
      <4>1. \A g : WalkBody(x, facts, g) = [leaf |-> x, path |-> <<>>]
        BY <3>1, Zenon DEF WalkBody
      <4> QED BY <2>1, <4>1, WalkUnfolds
    <3>4. ASSUME NEW p, p = [pairs |-> <<>>, leaf |-> x] PROVE p.pairs \in Seq(E) /\ Arrives(x, p)
      <4>1. DOMAIN p = {"pairs", "leaf"} /\ p.pairs = <<>> /\ p.leaf = x
        BY <3>4
      <4>2. FieldsOf(<<>>) = {} /\ Once(<<>>) /\ <<>> \in Seq(E)
        BY DEF FieldsOf, Once
      <4>3. \A facts : Walk(x, facts).leaf = p.leaf
        BY <3>3, <4>1
      <4> QED BY <4>1, <4>2, <4>3 DEF Arrives
    <3>5. \A facts : DOMAIN Walk(x, facts) = {"leaf", "path"}
      BY <3>3
    <3> QED BY <3>2, <3>4, <3>5
  <2>4. CASE IsNodeRecord(x)
    <3> DEFINE c == x.condition
               yes == x.true_branch
               no == x.false_branch
    <3>1. ~ IsLeaf(x)
      BY <2>4 DEF IsNodeRecord, IsLeaf
    <3>2. /\ yes \in Below(x) /\ no \in Below(x)
          /\ yes \in Parts(x) /\ no \in Parts(x)
      BY <2>1, <3>1, BranchesAreBelow, PartsAreClosed
    <3>3. f[yes] = EnumeratePaths(yes) /\ f[no] = EnumeratePaths(no)
      BY <3>2
    <3> HIDE DEF f
    <3>4. EnumeratePaths(x) = Along(x, ValueTrue(c), EnumeratePaths(yes)) \cup
                              Along(x, ValueFalse(c), EnumeratePaths(no))
      BY <2>2, <3>1, <3>3, Zenon DEF EnumeratePathsBody
    <3>5. Good(yes) /\ Good(no)
      BY <1>2, <3>2
    <3>6. ASSUME NEW facts PROVE DOMAIN Walk(x, facts) = {"leaf", "path"}
      <4>1. DOMAIN Walk(Chosen(x, facts), facts) = {"leaf", "path"}
        BY <3>5 DEF Chosen
      <4>2. Walk(x, facts) = [Walk(Chosen(x, facts), facts)
                                EXCEPT !.path = <<NormStep(x.condition, facts)>> \o @]
        BY <2>1, <2>4, WalkOfNodes
      <4> QED BY <4>1, <4>2
    <3>7. IsCond(c)
      BY <2>4 DEF IsNodeRecord
    <3>8. c \in Asked(r)
      BY <3>1 DEF Asked
    <3>9. ASSUME NEW taken \in BOOLEAN, NEW b, b = (IF taken THEN yes ELSE no),
                 NEW value, value = (IF taken THEN ValueTrue(c) ELSE ValueFalse(c)),
                 NEW p \in EnumeratePaths(b),
                 NEW q, q = [p EXCEPT !.pairs = <<Pair(c.field, value)>> \o @]
          PROVE  q.pairs \in Seq(E) /\ Arrives(x, q)
      <4>1. Good(b)
        BY <3>5, <3>9
      <4>2. p.pairs \in Seq(E) /\ Arrives(b, p)
        BY <4>1
      <4>3. Drivable(c) => (Compare(Left(value), c.operator, c.value) <=> taken)
        BY <3>7, <3>9, DrivenTrue, DrivenFalse
      <4>4. Arrives(x, q)
        <5> HIDE DEF E, c
        <5>1. b = IF taken THEN x.true_branch ELSE x.false_branch
          BY <3>9
        <5>2. \A facts : DOMAIN Walk(b, facts) = {"leaf", "path"}
          BY <4>1
        <5> HIDE DEF Good, yes, no
        <5> QED BY <2>4, <3>9, <4>2, <4>3, <5>1, <5>2, ArrivesThrough DEF c
      <4>5. q.pairs = <<Pair(c.field, value)>> \o p.pairs
        BY <3>9, <4>2 DEF Arrives
      <4>6. Pair(c.field, value) \in E
        BY <3>8, <3>9 DEF DrawnFor
      <4> HIDE DEF E, c, Good
      <4>7. <<Pair(c.field, value)>> \in Seq(E)
        BY <4>6
      <4> QED BY <4>2, <4>4, <4>5, <4>7
    <3>10. ASSUME NEW q \in EnumeratePaths(x) PROVE q.pairs \in Seq(E) /\ Arrives(x, q)
      <4>1. CASE q \in Along(x, ValueTrue(c), EnumeratePaths(yes))
        <5>1. PICK p \in EnumeratePaths(yes) : q = [p EXCEPT !.pairs = <<Pair(c.field, ValueTrue(c))>> \o @]
          BY <4>1 DEF Along
        <5> HIDE DEF E
        <5> QED BY <3>9, <5>1
      <4>2. CASE q \in Along(x, ValueFalse(c), EnumeratePaths(no))
        <5>1. PICK p \in EnumeratePaths(no) : q = [p EXCEPT !.pairs = <<Pair(c.field, ValueFalse(c))>> \o @]
          BY <4>2 DEF Along
        <5> HIDE DEF E
        <5> QED BY <3>9, <5>1
      <4> QED BY <3>4, <4>1, <4>2
    <3> QED BY <3>6, <3>10
  <2> QED BY <2>1, <2>3, <2>4
<1> HIDE DEF S
<1>3. Parts(r) \subseteq S
  BY <1>1, <1>2, NestingInduction
<1> QED BY <1>3 DEF S

-----------------------------------------------------------------------------
(* Where a rule's scenarios lead.                                          *)

(* The checks of the applicability: none, or the group's.                  *)
LEMMA ChecksOfRule ==
  ASSUME NEW rule, ShapedGroups(rule)
  PROVE  /\ \E E : AppliesChecks(rule) \in Seq(E)
         /\ \A c \in ToSet(AppliesChecks(rule)) : IsCond(c)
         /\ rule.applies_if = {} => AppliesChecks(rule) = <<>>
         /\ \A g \in rule.applies_if : AppliesChecks(rule) = Flatten(g)
<1>1. CASE rule.applies_if = {}
  <2>1. { Flatten(g) : g \in rule.applies_if } = {}
    BY <1>1
  <2>2. AppliesChecks(rule) = FlattenSeq(<<>>)
    BY <2>1, SeqOfNone DEF AppliesChecks
  <2>3. Len(<<>>) = 0 /\ ToSet(<<>>) = {}
    BY DEF ToSet
  <2>4. AppliesChecks(rule) = <<>>
    BY <2>2, <2>3, FlattenOfNone, Zenon
  <2>5. <<>> \in Seq({})
    OBVIOUS
  <2> QED BY <1>1, <2>3, <2>4, <2>5
<1>2. ASSUME NEW g \in rule.applies_if
      PROVE  /\ rule.applies_if = {g} /\ AppliesChecks(rule) = Flatten(g)
             /\ Flatten(g) \in Seq(ConditionsIn(g))
             /\ \A c \in ToSet(Flatten(g)) : IsCond(c)
  <2>1. rule.applies_if = {g} /\ GroupShape(g)
    BY DEF ShapedGroups
  <2>2. Flatten(g) \in Seq(ConditionsIn(g))
    BY <2>1, FlattenIsSeq, PartsAreClosed DEF GroupShape
  <2>3. FlattenSeq(SetToSeq({ Flatten(x) : x \in {g} })) = Flatten(g)
    BY <2>2, ChecksOfOne
  <2>4. AppliesChecks(rule) = Flatten(g)
    BY <2>1, <2>3, Zenon DEF AppliesChecks
  <2>5. \A c \in ConditionsIn(g) : IsCond(c)
    BY <2>1, CondOrGroup DEF ConditionsIn, GroupShape
  <2>6. \A c \in ToSet(Flatten(g)) : c \in ConditionsIn(g)
    BY <2>2 DEF ToSet
  <2> QED BY <2>1, <2>2, <2>4, <2>5, <2>6
<1> QED BY <1>1, <1>2

(* Pairs that draw on conditions, one each.                                *)
LEMMA PairsOfChecks ==
  ASSUME NEW E, NEW checks \in Seq(E), NEW s, s = [i \in DOMAIN checks |-> s[i]],
         \A i \in DOMAIN checks : s[i].field = checks[i].field
  PROVE  /\ \E G : s \in Seq(G)
         /\ FieldsOf(s) = FieldsOf(checks)
         /\ Once(checks) => Once(s)
<1>1. DOMAIN s = DOMAIN checks
  OBVIOUS
<1>2. s \in Seq({ s[i] : i \in DOMAIN checks })
  <2>1. DOMAIN checks = 1 .. Len(checks) /\ Len(checks) \in Nat
    OBVIOUS
  <2>2. s = [i \in 1 .. Len(checks) |-> s[i]]
    BY <2>1
  <2> QED BY <2>1, <2>2
<1>3. FieldsOf(s) = FieldsOf(checks) /\ (Once(checks) => Once(s))
  BY <1>1 DEF FieldsOf, Once
<1> QED BY <1>2, <1>3

LEMMA PairsOfRule ==
  ASSUME NEW rule
  PROVE  LET checks == AppliesChecks(rule)
             false  == [i \in DOMAIN checks |-> Pair(checks[i].field, ValueFalse(checks[i]))]
         IN  /\ ApplicabilityPairs(rule, TRUE) = TruePairs(checks)
             /\ checks # <<>> /\ (\A g \in rule.applies_if : GroupMode(g) = "all")
                  => ApplicabilityPairs(rule, FALSE) = <<false[1]>>
             /\ checks # <<>> /\ ~ (\A g \in rule.applies_if : GroupMode(g) = "all")
                  => ApplicabilityPairs(rule, FALSE) = false
<1> DEFINE checks == AppliesChecks(rule)
           all    == \A g \in rule.applies_if : GroupMode(g) = "all"
           false  == [i \in DOMAIN checks |-> Pair(checks[i].field, ValueFalse(checks[i]))]
           pairs(satisfy) ==
             CASE checks = <<>> -> <<>>
               [] satisfy /\ checks # <<>> -> TruePairs(checks)
               [] ~ satisfy /\ checks # <<>> -> IF all THEN <<false[1]>> ELSE false
<1>1. \A satisfy : ApplicabilityPairs(rule, satisfy) = pairs(satisfy)
  BY Zenon DEF ApplicabilityPairs
<1>2. checks = <<>> => TruePairs(checks) = <<>>
  <2> HIDE DEF checks
  <2> SUFFICES ASSUME checks = <<>> PROVE TruePairs(<<>>) = <<>>
    OBVIOUS
  <2> QED BY DEF TruePairs
<1> HIDE DEF checks, all, false
<1>3. CASE checks = <<>>
  <2>1. pairs(TRUE) = <<>>
    BY <1>3, Zenon
  <2> QED BY <1>1, <1>2, <1>3, <2>1 DEF checks
<1>4. CASE checks # <<>>
  <2>1. pairs(TRUE) = TruePairs(checks)
    BY <1>4, Zenon
  <2>2. pairs(FALSE) = IF all THEN <<false[1]>> ELSE false
    BY <1>4, Zenon
  <2> HIDE DEF pairs
  <2>3. ApplicabilityPairs(rule, TRUE) = TruePairs(checks)
    BY <1>1, <2>1
  <2>4. ApplicabilityPairs(rule, FALSE) = IF all THEN <<false[1]>> ELSE false
    BY <1>1, <2>2
  <2>5. /\ all => ApplicabilityPairs(rule, FALSE) = <<false[1]>>
        /\ ~ all => ApplicabilityPairs(rule, FALSE) = false
    BY <2>4
  <2> QED BY <2>3, <2>5 DEF checks, all, false
<1> QED BY <1>3, <1>4

(* The rule applies to facts that make every check true.                   *)
LEMMA DrivenRuleApplies ==
  ASSUME NEW rule, ShapedGroups(rule), NEW facts,
         \A c \in ToSet(AppliesChecks(rule)) : Drivable(c),
         Realised(facts, TruePairs(AppliesChecks(rule)))
  PROVE  Applicability(rule.applies_if, facts).holds
<1> DEFINE checks == AppliesChecks(rule)
<1>1. PICK E : checks \in Seq(E)
  BY ChecksOfRule
<1>2. \A c \in ToSet(checks) : IsCond(c)
  BY ChecksOfRule
<1>3. ASSUME NEW i \in DOMAIN checks PROVE Holds(checks[i], facts)
  <2>1. checks[i] \in ToSet(checks)
    BY DEF ToSet
  <2>2. IsCond(checks[i]) /\ Drivable(checks[i])
    BY <1>2, <2>1
  <2>3. Lookup(facts, checks[i].field) = Left(ValueTrue(checks[i]))
    BY DEF Realised, TruePairs, Pair
  <2> QED BY <2>2, <2>3, DrivenTrue DEF Holds
<1>4. CASE rule.applies_if = {}
  <2> DEFINE flat == FlattenSeq(SetToSeq({ Flatten(g) : g \in {} }))
             all  == \A g \in {} : GroupMode(g) = "all"
             settles == { i \in DOMAIN flat : Holds(flat[i], facts) # all }
             last == IF settles = {} THEN Len(flat) ELSE Min(settles)
             holds == flat = <<>> \/ (settles = {}) = all
  <2>1. Applicability({}, facts)
          = [holds |-> holds, steps |-> [i \in 1 .. last |-> NormStep(flat[i], facts)]]
    BY Zenon DEF Applicability
  <2>2. Applicability({}, facts).holds = holds
    <3> HIDE DEF holds, last
    <3> QED BY <2>1
  <2>3. flat = <<>>
    <3>1. checks = <<>>
      BY <1>4, ChecksOfRule
    <3>2. checks = flat
      BY <1>4, Zenon DEF AppliesChecks
    <3> QED BY <3>1, <3>2
  <2> HIDE DEF flat
  <2> QED BY <1>4, <2>2, <2>3
<1>5. ASSUME NEW g \in rule.applies_if PROVE Applicability(rule.applies_if, facts).holds
  <2>1. rule.applies_if = {g} /\ checks = Flatten(g)
    BY ChecksOfRule DEF ShapedGroups
  <2>2. Applicability({g}, facts).holds <=> Settled(g, facts)
    BY <1>1, <2>1, ApplicabilityOfOne
  <2>3. \A c \in ToSet(Flatten(g)) : Holds(c, facts) = TRUE
    <3> HIDE DEF checks
    <3>1. \A c \in ToSet(checks) : \E i \in DOMAIN checks : c = checks[i]
      BY <1>1, SeqsAndSets
    <3> QED BY <1>3, <2>1, <3>1, HoldsIsBoolean
  <2>4. Flatten(g) = <<>> \/ ToSet(Flatten(g)) # {}
    BY <1>1, <2>1, SeqsAndSets
  <2>5. Settled(g, facts)
    <3> DEFINE all == GroupMode(g) = "all"
    <3>1. all \in BOOLEAN
      OBVIOUS
    <3> HIDE DEF all
    <3>2. Flatten(g) = <<>> \/ (\A c \in ToSet(Flatten(g)) : Holds(c, facts) = all) = all
      BY <2>3, <2>4, <3>1
    <3> QED BY <3>2 DEF Settled, all
  <2> QED BY <2>1, <2>2, <2>5
<1> QED BY <1>4, <1>5

(* And not to facts that make the first one false, where all must hold, or *)
(* every one.                                                              *)
LEMMA DrivenRuleDoesNotApply ==
  ASSUME NEW rule, ShapedGroups(rule), NEW facts, AppliesChecks(rule) # <<>>,
         \A c \in ToSet(AppliesChecks(rule)) : Drivable(c),
         Realised(facts, ApplicabilityPairs(rule, FALSE))
  PROVE  ~ Applicability(rule.applies_if, facts).holds
<1> DEFINE checks == AppliesChecks(rule)
           false  == [i \in DOMAIN checks |-> Pair(checks[i].field, ValueFalse(checks[i]))]
<1>1. PICK E : checks \in Seq(E)
  BY ChecksOfRule
<1>2. \A c \in ToSet(checks) : IsCond(c)
  BY ChecksOfRule
<1>3. ASSUME NEW i \in DOMAIN checks, Lookup(facts, false[i].field) = Left(false[i].gen)
      PROVE  ~ Holds(checks[i], facts)
  <2>1. checks[i] \in ToSet(checks)
    BY DEF ToSet
  <2>2. IsCond(checks[i]) /\ Drivable(checks[i])
    BY <1>2, <2>1
  <2>3. Lookup(facts, checks[i].field) = Left(ValueFalse(checks[i]))
    BY <1>3 DEF Pair
  <2> QED BY <2>2, <2>3, DrivenFalse DEF Holds
<1>4. PICK g \in rule.applies_if : TRUE
  BY ChecksOfRule
<1>5. rule.applies_if = {g} /\ checks = Flatten(g)
  BY ChecksOfRule DEF ShapedGroups
<1>6. Applicability({g}, facts).holds <=> Settled(g, facts)
  BY <1>1, <1>5, ApplicabilityOfOne
<1>7. 1 \in DOMAIN checks
  <2> HIDE DEF checks
  <2>1. checks # <<>>
    BY DEF checks
  <2> QED BY <1>1, <2>1
<1>8. CASE GroupMode(g) = "all"
  <2>1. ApplicabilityPairs(rule, FALSE) = <<false[1]>>
    BY <1>5, <1>8, PairsOfRule
  <2> HIDE DEF checks
  <2>2. <<false[1]>>[1] = false[1] /\ 1 \in DOMAIN <<false[1]>>
    OBVIOUS
  <2>3. Lookup(facts, false[1].field) = Left(false[1].gen)
    <3> HIDE DEF false
    <3> QED BY <2>1, <2>2 DEF Realised
  <2>4. ~ Holds(checks[1], facts)
    BY <1>3, <1>7, <2>3
  <2>5. checks[1] \in ToSet(Flatten(g)) /\ Flatten(g) # <<>>
    BY <1>1, <1>5, <1>7, SeqsAndSets
  <2> QED BY <1>5, <1>6, <1>8, <2>4, <2>5 DEF Settled
<1>9. CASE GroupMode(g) # "all"
  <2>1. ApplicabilityPairs(rule, FALSE) = false
    BY <1>5, <1>9, PairsOfRule
  <2>2. DOMAIN false = DOMAIN checks
    OBVIOUS
  <2>3. \A i \in DOMAIN checks : Lookup(facts, false[i].field) = Left(false[i].gen)
    <3> HIDE DEF false
    <3> QED BY <2>1, <2>2 DEF Realised
  <2> HIDE DEF checks, false
  <2>4. \A c \in ToSet(checks) : ~ Holds(c, facts)
    <3>1. \A c \in ToSet(checks) : \E i \in DOMAIN checks : c = checks[i]
      BY <1>1, SeqsAndSets
    <3> QED BY <1>3, <2>3, <3>1
  <2>5. Flatten(g) # <<>>
    BY <1>1, <1>5, <1>7
  <2>6. \A c \in ToSet(Flatten(g)) : Holds(c, facts) = FALSE
    BY <1>5, <2>4, HoldsIsBoolean
  <2> QED BY <1>5, <1>6, <1>9, <2>5, <2>6 DEF Settled
<1> QED BY <1>8, <1>9

(* What a scenario is built from, by its label.                            *)
LEMMA ScenariosByLabel ==
  ASSUME NEW rule, NEW s \in GenerateForRule(rule)
  PROVE  /\ s.label = "path" =>
              \E p \in EnumeratePaths(rule.decision_tree) :
                s.facts = BuildFacts(ApplicabilityPairs(rule, TRUE) \o p.pairs)
         /\ s.label = "not_applicable" => s.facts = BuildFacts(ApplicabilityPairs(rule, FALSE))
<1> DEFINE applies == ApplicabilityPairs(rule, TRUE)
           anchor  == applies \o TruePairs(Catalog(rule))
           c == Catalog(rule)[1]
           paths == { Scenario("path", applies \o p.pairs) :
                        p \in EnumeratePaths(rule.decision_tree) }
           none == { Scenario("not_applicable", ApplicabilityPairs(rule, FALSE)) :
                       g \in rule.applies_if }
           boundary == BoundaryScenarios(rule, anchor)
           mistaken == IF Catalog(rule) = <<>> THEN {}
                       ELSE { Scenario("missing", Append(anchor, Pair(c.field, {}))),
                              Scenario("wrong_type",
                                Append(anchor, Pair(c.field, {WrongType(c.value)}))) }
           irrelevant == { Scenario("irrelevant_facts",
                             anchor \o << Pair(Word("__irrelevant_a"), {Bool(TRUE)}),
                                          Pair(Word("__irrelevant_b"), {Str(Word("noise"))}) >>) }
           fuzz == { Scenario("fuzz", [i \in DOMAIN Catalog(rule) |->
                       Pair(Catalog(rule)[i].field, FuzzValue(draws[i], Catalog(rule)[i]))]) :
                       draws \in [DOMAIN Catalog(rule) -> 1..4] }
<1>1. s \in paths \/ s \in none \/ s \in boundary \/ s \in mistaken \/ s \in irrelevant \/ s \in fuzz
  BY Zenon DEF GenerateForRule
<1>2. \A label, pairs : /\ Scenario(label, pairs).label = label
                        /\ Scenario(label, pairs).facts = BuildFacts(pairs)
  BY DEF Scenario
<1> HIDE DEF anchor
<1>3. s \in paths => /\ s.label = "path"
                     /\ \E p \in EnumeratePaths(rule.decision_tree) :
                          s.facts = BuildFacts(applies \o p.pairs)
  <2> SUFFICES ASSUME s \in paths
               PROVE  /\ s.label = "path"
                      /\ \E p \in EnumeratePaths(rule.decision_tree) :
                           s.facts = BuildFacts(applies \o p.pairs)
    OBVIOUS
  <2>1. PICK p \in EnumeratePaths(rule.decision_tree) : s = Scenario("path", applies \o p.pairs)
    OBVIOUS
  <2>2. s.label = "path" /\ s.facts = BuildFacts(applies \o p.pairs)
    BY <1>2, <2>1, Zenon
  <2> QED BY <2>2
<1>4. s \in none => s.label = "not_applicable" /\ s.facts = BuildFacts(ApplicabilityPairs(rule, FALSE))
  BY <1>2, Zenon
<1>5. s \in boundary => s.label = "boundary"
  <2> SUFFICES ASSUME s \in boundary PROVE s.label = "boundary"
    OBVIOUS
  <2>1. PICK d \in Thresholds(rule), delta \in {-1, 0, 1} :
          s = Scenario("boundary", Append(anchor, Pair(d.field, {Shift(d.value, delta)})))
    BY SMT DEF BoundaryScenarios
  <2> QED BY <1>2, <2>1, Zenon
<1>6. s \in mistaken => s.label \in {"missing", "wrong_type"}
  BY <1>2, Zenon
<1>7. s \in irrelevant => s.label = "irrelevant_facts"
  BY <1>2, Zenon
<1>8. s \in fuzz => s.label = "fuzz"
  BY <1>2, Zenon
<1> HIDE DEF paths, none, boundary, mistaken, irrelevant, fuzz
<1> QED BY <1>1, <1>3, <1>4, <1>5, <1>6, <1>7, <1>8

(* The pairs of a path's scenario, the applicability's and the way's: each *)
(* field once, when the rule tests each once.                              *)
LEMMA PathPairsAreOnce ==
  ASSUME NEW rule, ShapedGroups(rule), TreeShape(rule.decision_tree), DistinctFields(rule),
         NEW p \in EnumeratePaths(rule.decision_tree)
  PROVE  LET applies == TruePairs(AppliesChecks(rule))
         IN  \E E : applies \in Seq(E) /\ p.pairs \in Seq(E) /\ Once(applies \o p.pairs)
<1> DEFINE tree == rule.decision_tree
           checks == AppliesChecks(rule)
           tests == CollectTree(tree)
           applies == TruePairs(checks)
<1>1. PICK A : checks \in Seq(A)
  BY ChecksOfRule
<1>2. tree \in Parts(tree)
  BY PartsAreClosed DEF TreeShape
<1>3. tests \in Seq(Asked(tree))
  BY <1>2, TreeConditions
<1>4. p.pairs \in Seq(DrawnFor(tree)) /\ Arrives(tree, p)
  BY <1>2, PathsArrive
<1>5. /\ \E G : applies \in Seq(G)
      /\ FieldsOf(applies) = FieldsOf(checks)
      /\ Once(checks) => Once(applies)
  <2>1. /\ applies = [i \in DOMAIN checks |-> applies[i]]
        /\ \A i \in DOMAIN checks : applies[i].field = checks[i].field
    <3> HIDE DEF checks
    <3> QED BY DEF TruePairs, Pair
  <2> HIDE DEF checks, applies
  <2> QED BY <1>1, <2>1, PairsOfChecks
<1>6. Once(checks \o tests)
  BY DEF DistinctFields, Once, Catalog
<1> HIDE DEF checks, tests, applies
<1>7. Once(checks) /\ Once(tests) /\ FieldsOf(checks) \cap FieldsOf(tests) = {}
  <2> DEFINE B == A \cup Asked(tree)
  <2>1. checks \in Seq(B) /\ tests \in Seq(B)
    BY <1>1, <1>3
  <2> HIDE DEF B
  <2> QED BY <1>6, <2>1, OnceInEach
<1>8. Once(p.pairs) /\ FieldsOf(p.pairs) \subseteq FieldsOf(tests)
  BY <1>4, <1>7 DEF Arrives, tests
<1>9. PICK G : applies \in Seq(G)
  BY <1>5
<1> DEFINE E == G \cup DrawnFor(tree)
<1>10. applies \in Seq(E) /\ p.pairs \in Seq(E)
  BY <1>4, <1>9
<1> HIDE DEF E
<1>11. Once(applies) /\ Once(p.pairs) /\ FieldsOf(applies) \cap FieldsOf(p.pairs) = {}
  BY <1>5, <1>7, <1>8
<1>12. Once(applies \o p.pairs)
  BY <1>10, <1>11, OnceInEach
<1> QED BY <1>10, <1>12 DEF applies, checks

(* The pairs of the case meant not to apply likewise.                      *)
LEMMA OtherPairsAreOnce ==
  ASSUME NEW rule, ShapedGroups(rule), TreeShape(rule.decision_tree), DistinctFields(rule),
         AppliesChecks(rule) # <<>>
  PROVE  LET pairs == ApplicabilityPairs(rule, FALSE)
         IN  (\E E : pairs \in Seq(E)) /\ Once(pairs)
<1> DEFINE checks == AppliesChecks(rule)
           tests == CollectTree(rule.decision_tree)
           false == [i \in DOMAIN checks |-> Pair(checks[i].field, ValueFalse(checks[i]))]
           pairs == ApplicabilityPairs(rule, FALSE)
<1>1. PICK A : checks \in Seq(A)
  BY ChecksOfRule
<1>2. tests \in Seq(Asked(rule.decision_tree))
  BY PartsAreClosed, TreeConditions DEF TreeShape
<1>3. Once(checks \o tests)
  BY DEF DistinctFields, Once, Catalog
<1> HIDE DEF checks, tests
<1>4. Once(checks)
  <2> DEFINE B == A \cup Asked(rule.decision_tree)
  <2>1. checks \in Seq(B) /\ tests \in Seq(B)
    BY <1>1, <1>2
  <2> HIDE DEF B
  <2> QED BY <1>3, <2>1, OnceInEach
<1>5. (\E G : false \in Seq(G)) /\ Once(false)
  <2>1. /\ false = [i \in DOMAIN checks |-> false[i]]
        /\ \A i \in DOMAIN checks : false[i].field = checks[i].field
    BY DEF Pair
  <2> HIDE DEF false
  <2> QED BY <1>1, <1>4, <2>1, PairsOfChecks
<1>6. pairs \in {<<false[1]>>, false}
  <2>1. checks # <<>>
    BY DEF checks
  <2> QED BY <2>1, PairsOfRule DEF checks
<1> HIDE DEF pairs, false
<1>7. <<false[1]>> \in Seq({false[1]}) /\ Once(<<false[1]>>)
  BY DEF Once
<1> QED BY <1>5, <1>6, <1>7 DEF pairs

(* A rule that tests each field once, by conditions that can be driven:    *)
(* the facts of a path's scenario meet its applicability and go down to    *)
(* the leaf the path was drawn to, and those meant not to apply do not     *)
(* (scenario.rs generate_for_rule).                                        *)
THEOREM ScenariosArrive == Spec => []ScenariosReachTheirLeaf
<1>1. PipelineInv => ScenariosReachTheirLeaf
  <2> SUFFICES ASSUME PipelineInv, answer.what = "scenario", DistinctFields(answer.rule),
                      \A c \in ConditionsOf(answer.rule) : Drivable(c)
               PROVE  /\ answer.scenario.label = "path" =>
                           /\ answer.evaluation.applicable
                           /\ \E p \in EnumeratePaths(answer.rule.decision_tree) :
                                /\ answer.scenario.facts =
                                     BuildFacts(ApplicabilityPairs(answer.rule, TRUE) \o p.pairs)
                                /\ answer.evaluation.decision = {p.leaf.result}
                      /\ answer.scenario.label = "not_applicable" =>
                           (AppliesChecks(answer.rule) # <<>> => ~ answer.evaluation.applicable)
    BY DEF ScenariosReachTheirLeaf
  <2> DEFINE rule == answer.rule
             facts == answer.facts
             scenario == answer.scenario
             evaluation == answer.evaluation
             tree == rule.decision_tree
             checks == AppliesChecks(rule)
  <2>1. PICK rules \in Compiled : \E i \in DOMAIN rules :
          /\ rule = rules[i] /\ scenario \in GenerateForRule(rules[i])
          /\ facts \in FactsFromJson([object |-> scenario.facts])
          /\ evaluation = Evaluate(rules[i], facts)
    BY DEF PipelineInv, AnswerIsOurs
  <2>2. PICK i \in DOMAIN rules :
          /\ rule = rules[i] /\ scenario \in GenerateForRule(rule)
          /\ facts \in FactsFromJson([object |-> scenario.facts])
          /\ evaluation = Evaluate(rule, facts)
    BY <2>1
  <2>3. ShapedGroups(rule) /\ TreeShape(tree)
    BY <2>2, CompiledGroups, CompiledTrees DEF PipelineInv, ShapedGroups, Compiled
  <2>4. DistinctFields(rule) /\ \A c \in ConditionsOf(rule) : Drivable(c)
    OBVIOUS
  <2> HIDE DEF rule, facts, scenario, evaluation
  <2>5. tree \in Parts(tree)
    BY <2>3, PartsAreClosed DEF TreeShape
  <2>6. /\ \A c \in ToSet(checks) : Drivable(c)
        /\ \A c \in ToSet(CollectTree(tree)) : Drivable(c)
    <3>1. PICK A : checks \in Seq(A)
      BY <2>3, ChecksOfRule
    <3>2. CollectTree(tree) \in Seq(Asked(tree))
      BY <2>3, <2>5, TreeConditions
    <3> DEFINE B == A \cup Asked(tree)
               tests == CollectTree(tree)
    <3>3. checks \in Seq(B) /\ tests \in Seq(B)
      BY <3>1, <3>2
    <3> HIDE DEF B, checks, tests
    <3>4. ToSet(checks \o tests) = ToSet(checks) \cup ToSet(tests)
      BY <3>3, JoinKeepsAll
    <3>5. ConditionsOf(rule) = ToSet(checks \o tests)
      BY DEF ConditionsOf, Catalog, checks, tests
    <3> QED BY <2>4, <3>4, <3>5 DEF tests
  <2>7. ASSUME scenario.label = "path"
        PROVE  /\ evaluation.applicable
               /\ \E p \in EnumeratePaths(tree) :
                    /\ scenario.facts = BuildFacts(ApplicabilityPairs(rule, TRUE) \o p.pairs)
                    /\ evaluation.decision = {p.leaf.result}
    <3> DEFINE applies == TruePairs(checks)
    <3>1. PICK p \in EnumeratePaths(tree) :
            scenario.facts = BuildFacts(ApplicabilityPairs(rule, TRUE) \o p.pairs)
      BY <2>2, <2>7, ScenariosByLabel
    <3>2. ApplicabilityPairs(rule, TRUE) = applies
      BY PairsOfRule
    <3>3. PICK E : applies \in Seq(E) /\ p.pairs \in Seq(E) /\ Once(applies \o p.pairs)
      BY <2>3, <2>4, PathPairsAreOnce
    <3> HIDE DEF applies
    <3>4. applies \o p.pairs \in Seq(E)
      BY <3>3
    <3>5. Realised(facts, applies \o p.pairs)
      BY <2>2, <3>1, <3>2, <3>3, <3>4, BuiltFactsRealise
    <3>6. Realised(facts, applies) /\ Realised(facts, p.pairs)
      BY <3>3, <3>5, RealisedInEach
    <3>7. Applicability(rule.applies_if, facts).holds
      BY <2>3, <2>6, <3>6, DrivenRuleApplies DEF applies
    <3>8. evaluation.applicable
      BY <2>2, <3>7, EvaluateApplies
    <3>9. Arrives(tree, p)
      BY <2>3, <2>5, PathsArrive
    <3>10. Walk(tree, facts).leaf = p.leaf
      BY <2>6, <3>6, <3>9 DEF Arrives
    <3>11. evaluation.decision = {p.leaf.result}
      BY <2>2, <3>8, <3>10, EvaluateWalks
    <3> QED BY <3>1, <3>8, <3>11
  <2>8. ASSUME scenario.label = "not_applicable", checks # <<>>
        PROVE  ~ evaluation.applicable
    <3> DEFINE pairs == ApplicabilityPairs(rule, FALSE)
    <3>1. scenario.facts = BuildFacts(pairs)
      BY <2>2, <2>8, ScenariosByLabel
    <3>2. (\E E : pairs \in Seq(E)) /\ Once(pairs)
      BY <2>3, <2>4, <2>8, OtherPairsAreOnce
    <3> HIDE DEF pairs
    <3>3. Realised(facts, pairs)
      BY <2>2, <3>1, <3>2, BuiltFactsRealise
    <3>4. ~ Applicability(rule.applies_if, facts).holds
      BY <2>3, <2>6, <2>8, <3>3, DrivenRuleDoesNotApply DEF pairs
    <3> QED BY <2>2, <3>4, EvaluateApplies
  <2> QED BY <2>7, <2>8 DEF rule, facts, scenario, evaluation
<1>2. Spec => []PipelineInv
  BY PipelineInvariance
<1> QED BY <1>1, <1>2, PTL

=============================================================================
