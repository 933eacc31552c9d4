----------------------------- MODULE GraphProofs ------------------------------
(***************************************************************************)
(* The exported graph, for any number of artifacts with any number of      *)
(* rules, spans and attestations: what `ke graph export` writes is the     *)
(* union of the projections of what it admitted, no node or edge lost in   *)
(* the merging, and no edge without its ends. The folds that build it are  *)
(* followed step by step with the lemmas of module Induction.              *)
(***************************************************************************)
EXTENDS AcceptanceProofs, Induction

-----------------------------------------------------------------------------
(* Graphs.                                                                 *)

Ids(nodes) == { n.id : n \in nodes }

(* What the ids of the ends are made of says what they are: all but names  *)
(* tell the label of their node.                                           *)
WellLabelled(e) ==
  /\ e.label \in {"CONTAINS", "IN_REGIME"} => DOMAIN e.from = {"hex"}
  /\ e.label = "ATTESTED_BY" => DOMAIN e.to = {"hex", "att"}
  /\ e.label = "CONFLICTS_WITH" =>
       DOMAIN e.from = {"hex", "rule"} /\ DOMAIN e.to = {"hex", "rule"}

Fits(e, nodes) ==
  e.from \in Ids(nodes) /\ e.to \in Ids(nodes) /\ WellLabelled(e)

(* A list of edges between nodes.                                          *)
Joins(edges, nodes) == IsSeq(edges) /\ \A e \in ToSet(edges) : Fits(e, nodes)

LEMMA IdOfNode ==
  ASSUME NEW nodes, NEW label, NEW id, Node(label, id) \in nodes
  PROVE  id \in Ids(nodes)
<1>1. Node(label, id).id = id
  BY DEF Node
<1> QED BY <1>1 DEF Ids

LEMMA EndsOfEdge ==
  ASSUME NEW label, NEW from, NEW to, NEW article
  PROVE  /\ Edge(label, from, to, article).from = from
         /\ Edge(label, from, to, article).to = to
         /\ Edge(label, from, to, article).label = label
  BY DEF Edge

(* The edges that are written, by label.                                   *)
LEMMA EdgesFit ==
  ASSUME NEW nodes, NEW hex, NEW from \in Ids(nodes), NEW to \in Ids(nodes), NEW article,
         ArtifactId(hex) \in Ids(nodes)
  PROVE  /\ Fits(Edge("CONTAINS", ArtifactId(hex), to, article), nodes)
         /\ Fits(Edge("IN_REGIME", ArtifactId(hex), to, article), nodes)
         /\ Fits(Edge("CITES", from, to, article), nodes)
         /\ Fits(Edge("SPANS", from, to, article), nodes)
         /\ DOMAIN to = {"hex", "att"}
              => Fits(Edge("ATTESTED_BY", from, to, article), nodes)
         /\ DOMAIN from = {"hex", "rule"} /\ DOMAIN to = {"hex", "rule"}
              => Fits(Edge("CONFLICTS_WITH", from, to, article), nodes)
<1>1. DOMAIN ArtifactId(hex) = {"hex"}
  BY DEF ArtifactId
<1> QED BY <1>1, EndsOfEdge DEF Fits, WellLabelled

LEMMA JoinsGrows ==
  ASSUME NEW edges, NEW nodes, NEW more, nodes \subseteq more, Joins(edges, nodes)
  PROVE  Joins(edges, more)
  BY DEF Joins, Fits, Ids

LEMMA SeqIsSeq ==
  ASSUME NEW E, NEW s \in Seq(E)
  PROVE  IsSeq(s)
<1>1. Len(s) \in Nat /\ DOMAIN s = 1 .. Len(s) /\ s = [i \in 1 .. Len(s) |-> s[i]]
  OBVIOUS
<1>2. \A i \in 1 .. Len(s) : s[i] \in ToSet(s)
  BY <1>1 DEF ToSet
<1> QED BY <1>1, <1>2 DEF IsSeq

LEMMA ConcatOfSeqs ==
  ASSUME NEW s, NEW t, IsSeq(s), IsSeq(t)
  PROVE  IsSeq(s \o t) /\ ToSet(s \o t) = ToSet(s) \cup ToSet(t)
<1>1. PICK E : E = ToSet(s) \cup ToSet(t)
  OBVIOUS
<1>2. s \in Seq(E) /\ t \in Seq(E)
  BY <1>1 DEF IsSeq
<1> QED BY <1>1, <1>2, JoinKeepsAll DEF IsSeq

LEMMA JoinsConcat ==
  ASSUME NEW nodes, NEW s, NEW t, Joins(s, nodes), Joins(t, nodes)
  PROVE  Joins(s \o t, nodes)
<1>1. IsSeq(s) /\ IsSeq(t)
  BY DEF Joins
<1>2. IsSeq(s \o t) /\ ToSet(s \o t) = ToSet(s) \cup ToSet(t)
  BY <1>1, ConcatOfSeqs
<1> QED BY <1>2 DEF Joins

(* A list of as many edges as another list has entries.                    *)
LEMMA JoinsMapped ==
  ASSUME NEW nodes, NEW s, IsSeq(s), NEW t, t = [i \in DOMAIN s |-> t[i]],
         \A i \in DOMAIN s : Fits(t[i], nodes)
  PROVE  Joins(t, nodes)
<1>1. IsSeq(t)
  BY MappedIsSeq
<1>2. DOMAIN t = DOMAIN s
  BY Zenon
<1> QED BY <1>1, <1>2 DEF Joins, ToSet

LEMMA JoinsFlatten ==
  ASSUME NEW nodes, NEW seqs, IsSeq(seqs), \A i \in DOMAIN seqs : Joins(seqs[i], nodes)
  PROVE  Joins(FlattenSeq(seqs), nodes)
<1>1. PICK E : E = UNION { ToSet(seqs[i]) : i \in DOMAIN seqs }
  OBVIOUS
<1>2. \A i \in DOMAIN seqs : seqs[i] \in Seq(E)
  <2> TAKE i \in DOMAIN seqs
  <2>1. seqs[i] \in Seq(ToSet(seqs[i]))
    BY DEF Joins, IsSeq
  <2>2. ToSet(seqs[i]) \subseteq E
    BY <1>1
  <2> QED BY <2>1, <2>2
<1>3. seqs \in Seq(Seq(E))
  <2>1. seqs \in Seq(ToSet(seqs))
    BY DEF IsSeq
  <2>2. DOMAIN seqs = 1 .. Len(seqs) /\ Len(seqs) \in Nat /\ seqs = [i \in 1 .. Len(seqs) |-> seqs[i]]
    BY <2>1
  <2> QED BY <1>2, <2>2
<1>4. FlattenSeq(seqs) \in Seq(E) /\ ToSet(FlattenSeq(seqs)) = E
  BY <1>1, <1>3, FlattenKeepsAll
<1>5. \A e \in E : Fits(e, nodes)
  BY <1>1 DEF Joins
<1> QED BY <1>4, <1>5 DEF Joins, IsSeq

-----------------------------------------------------------------------------
(* The parts of a projection.                                              *)

(* An index entry as build_span_index leaves it.                           *)
IndexOf(index, rules) ==
  /\ IsFiniteSet(index)
  /\ \A entry \in index :
       /\ IsSeq(entry.spans)
       /\ \E i \in DOMAIN rules : entry.rule_id = rules[i].rule_id

(* What the projection of an envelope rests on.                            *)
Projectable(e) ==
  IF "rules" \in DOMAIN e.payload
  THEN IsSeq(e.payload.rules) /\ IndexOf(e.index, e.payload.rules)
  ELSE IsSeq(e.payload.intent.spans)

LEMMA AttestationsJoin ==
  ASSUME NEW artifact, NEW hex, IsSeq(artifact.attestations),
         NEW nodes, Node("Artifact", ArtifactId(hex)) \in nodes,
         AttestationPart(artifact, hex).nodes \subseteq nodes
  PROVE  Joins(AttestationPart(artifact, hex).edges, nodes)
<1> DEFINE atts == artifact.attestations
           id(i) == [hex |-> hex, att |-> i]
           part == AttestationPart(artifact, hex)
<1>1. /\ part.nodes = { Node("Attestation", id(i)) : i \in DOMAIN atts }
      /\ part.edges = [ i \in DOMAIN atts |->
                          Edge("ATTESTED_BY", ArtifactId(hex), id(i), {}) ]
  BY DEF AttestationPart
<1> HIDE DEF part, id
<1>2. ASSUME NEW i \in DOMAIN atts
      PROVE  Fits(part.edges[i], nodes)
  <2>1. part.edges[i] = Edge("ATTESTED_BY", ArtifactId(hex), id(i), {})
    BY <1>1
  <2>2. Node("Attestation", id(i)) \in nodes
    BY <1>1 DEF part
  <2>3. id(i) \in Ids(nodes) /\ ArtifactId(hex) \in Ids(nodes)
    BY <2>2, IdOfNode
  <2>4. DOMAIN id(i) = {"hex", "att"}
    BY DEF id
  <2> QED BY <2>1, <2>3, <2>4, EdgesFit
<1>3. part.edges = [ i \in DOMAIN atts |-> part.edges[i] ]
  BY <1>1, Zenon
<1>4. Joins(part.edges, nodes)
  BY <1>2, <1>3, JoinsMapped
<1> QED BY <1>4 DEF part

(* The two edges of a rule.                                                *)
LEMMA PairJoins ==
  ASSUME NEW nodes, NEW d, NEW e, Fits(d, nodes), Fits(e, nodes)
  PROVE  Joins(<<d, e>>, nodes)
<1>1. IsSeq(<<d, e>>) /\ ToSet(<<d, e>>) = {d, e}
  <2>1. ToSet(<<d, e>>) = {d, e}
    BY DEF ToSet
  <2> QED BY <2>1 DEF IsSeq
<1> QED BY <1>1 DEF Joins

LEMMA RulesJoin ==
  ASSUME NEW artifact, NEW hex, IsSeq(artifact.payload.rules),
         IndexOf(artifact.index, artifact.payload.rules),
         NEW nodes, Node("Artifact", ArtifactId(hex)) \in nodes,
         RulesPart(artifact, hex).nodes \subseteq nodes
  PROVE  Joins(RulesPart(artifact, hex).edges, nodes)
<1> DEFINE rules == artifact.payload.rules
           id(rule) == RuleNodeId(hex, rule.rule_id)
           cited(rule) == Text[rule.rule_id].source
           entries == SetToSeq(artifact.index)
           pairs == [ i \in DOMAIN rules |->
             << Edge("CONTAINS", ArtifactId(hex), id(rules[i]), {}),
                Edge("CITES", id(rules[i]), Name(cited(rules[i]).document),
                     cited(rules[i]).article) >> ]
           spans == [ j \in DOMAIN entries |->
             [ i \in DOMAIN entries[j].spans |->
                 SpanEdge(id(entries[j]), entries[j].spans[i]) ] ]
           part == RulesPart(artifact, hex)
<1>1. part = [ nodes |-> { Node("Rule", id(rules[i])) : i \in DOMAIN rules }
                 \cup { Node("CorpusDoc", Name(cited(rules[i]).document)) : i \in DOMAIN rules }
                 \cup UNION { { Node("CorpusDoc", Name(entry.spans[i].document)) :
                                  i \in DOMAIN entry.spans } : entry \in artifact.index },
               edges |-> FlattenSeq(pairs) \o FlattenSeq(spans) ]
  BY Zenon DEF RulesPart
<1>2. ASSUME NEW i \in DOMAIN rules
      PROVE  /\ id(rules[i]) \in Ids(nodes)
             /\ Name(cited(rules[i]).document) \in Ids(nodes)
  <2> HIDE DEF id, cited
  <2>1. /\ Node("Rule", id(rules[i])) \in nodes
        /\ Node("CorpusDoc", Name(cited(rules[i]).document)) \in nodes
    BY <1>1
  <2> QED BY <2>1, IdOfNode
<1>3. ASSUME NEW entry \in artifact.index, NEW i \in DOMAIN entry.spans
      PROVE  id(entry) \in Ids(nodes) /\ Name(entry.spans[i].document) \in Ids(nodes)
  <2>1. Node("CorpusDoc", Name(entry.spans[i].document)) \in nodes
    <3>1. PICK docs : docs = UNION { { Node("CorpusDoc", Name(x.spans[k].document)) :
                                         k \in DOMAIN x.spans } : x \in artifact.index }
      OBVIOUS
    <3>2. Node("CorpusDoc", Name(entry.spans[i].document)) \in docs
      BY <3>1
    <3>3. docs \subseteq part.nodes
      <4> HIDE DEF id, cited, pairs, spans
      <4> QED BY <1>1, <3>1
    <3> QED BY <3>2, <3>3
  <2>2. PICK k \in DOMAIN rules : entry.rule_id = rules[k].rule_id
    BY DEF IndexOf
  <2>3. id(entry) = id(rules[k])
    BY <2>2
  <2> QED BY <1>2, <2>1, <2>3, IdOfNode
<1>4. IsSeq(entries) /\ ToSet(entries) = artifact.index
  BY SetHasSeq DEF IndexOf, IsSeq
<1>5. ArtifactId(hex) \in Ids(nodes)
  BY IdOfNode
<1> HIDE DEF id, cited, entries, part
<1>6. Joins(FlattenSeq(pairs), nodes)
  <2>1. ASSUME NEW i \in DOMAIN rules PROVE Joins(pairs[i], nodes)
    <3>1. pairs[i] = << Edge("CONTAINS", ArtifactId(hex), id(rules[i]), {}),
                        Edge("CITES", id(rules[i]), Name(cited(rules[i]).document),
                             cited(rules[i]).article) >>
      OBVIOUS
    <3> QED
      <4>1. Fits(Edge("CONTAINS", ArtifactId(hex), id(rules[i]), {}), nodes)
        BY <1>2, <1>5, EdgesFit
      <4>2. Fits(Edge("CITES", id(rules[i]), Name(cited(rules[i]).document),
                      cited(rules[i]).article), nodes)
        BY <1>2, <1>5, EdgesFit
      <4> QED BY <3>1, <4>1, <4>2, PairJoins
  <2>2. IsSeq(pairs) /\ DOMAIN pairs = DOMAIN rules
    <3>1. DOMAIN pairs = DOMAIN rules /\ pairs = [i \in DOMAIN rules |-> pairs[i]]
      OBVIOUS
    <3> HIDE DEF pairs
    <3> QED BY <3>1, MappedIsSeq
  <2> HIDE DEF pairs
  <2> QED BY <2>1, <2>2, JoinsFlatten
<1>7. Joins(FlattenSeq(spans), nodes)
  <2>1. ASSUME NEW j \in DOMAIN entries PROVE Joins(spans[j], nodes)
    <3>1. PICK entry \in artifact.index : entry = entries[j]
      BY <1>4 DEF ToSet
    <3>2. spans[j] = [ i \in DOMAIN entry.spans |-> SpanEdge(id(entry), entry.spans[i]) ]
      BY <3>1
    <3> HIDE DEF spans
    <3>3. ASSUME NEW i \in DOMAIN entry.spans
          PROVE  Fits(spans[j][i], nodes)
      <4>1. spans[j][i] = SpanEdge(id(entry), entry.spans[i])
        BY <3>2
      <4> QED BY <1>3, <1>5, <4>1, EdgesFit DEF SpanEdge
    <3>4. IsSeq(entry.spans)
      BY DEF IndexOf
    <3>5. spans[j] = [ i \in DOMAIN entry.spans |-> spans[j][i] ]
      BY <3>2, Zenon
    <3> QED BY <3>3, <3>4, <3>5, JoinsMapped
  <2>2. IsSeq(spans) /\ DOMAIN spans = DOMAIN entries
    <3>1. DOMAIN spans = DOMAIN entries /\ spans = [j \in DOMAIN entries |-> spans[j]]
      OBVIOUS
    <3> HIDE DEF spans
    <3> QED BY <1>4, <3>1, MappedIsSeq
  <2> HIDE DEF spans
  <2> QED BY <2>1, <2>2, JoinsFlatten
<1>8. part.edges = FlattenSeq(pairs) \o FlattenSeq(spans)
  BY <1>1
<1> HIDE DEF pairs, spans
<1>9. Joins(part.edges, nodes)
  BY <1>6, <1>7, <1>8, JoinsConcat
<1> QED BY <1>9 DEF part

LEMMA IntentJoins ==
  ASSUME NEW spec, NEW hex, IsSeq(spec.spans),
         NEW nodes, Node("Artifact", ArtifactId(hex)) \in nodes,
         IntentPart(spec, hex).nodes \subseteq nodes
  PROVE  Joins(IntentPart(spec, hex).edges, nodes)
<1> DEFINE id == [hex |-> hex, intent |-> spec.action_class]
           spans == [ i \in DOMAIN spec.spans |-> SpanEdge(id, spec.spans[i]) ]
           part == IntentPart(spec, hex)
<1>1. /\ part.nodes = {Node("IntentSpec", id)} \cup
           { Node("CorpusDoc", Name(spec.spans[i].document)) : i \in DOMAIN spec.spans }
      /\ part.edges = <<Edge("CONTAINS", ArtifactId(hex), id, {})>> \o spans
  BY DEF IntentPart
<1> HIDE DEF part, id
<1>2. id \in Ids(nodes) /\ ArtifactId(hex) \in Ids(nodes)
  <2>1. Node("IntentSpec", id) \in nodes
    BY <1>1 DEF part
  <2> QED BY <2>1, IdOfNode
<1>3. ASSUME NEW i \in DOMAIN spec.spans
      PROVE  Name(spec.spans[i].document) \in Ids(nodes)
  <2>1. Node("CorpusDoc", Name(spec.spans[i].document)) \in nodes
    BY <1>1 DEF part
  <2> QED BY <2>1, IdOfNode
<1>4. Joins(spans, nodes)
  <2>1. ASSUME NEW i \in DOMAIN spec.spans
        PROVE  Fits(spans[i], nodes)
    <3>1. spans[i] = SpanEdge(id, spec.spans[i])
      OBVIOUS
    <3> HIDE DEF spans
    <3> QED BY <1>2, <1>3, <3>1, EdgesFit DEF SpanEdge
  <2>2. spans = [ i \in DOMAIN spec.spans |-> spans[i] ]
    OBVIOUS
  <2> HIDE DEF spans
  <2> QED BY <2>1, <2>2, JoinsMapped
<1>5. Joins(<<Edge("CONTAINS", ArtifactId(hex), id, {})>>, nodes)
  <2>1. PICK e : e = Edge("CONTAINS", ArtifactId(hex), id, {})
    OBVIOUS
  <2>2. Fits(e, nodes)
    BY <1>2, <2>1, EdgesFit
  <2>3. IsSeq(<<e>>) /\ ToSet(<<e>>) = {e}
    <3>1. ToSet(<<e>>) = {e}
      BY DEF ToSet
    <3> QED BY <3>1 DEF IsSeq
  <2> QED BY <2>1, <2>2, <2>3 DEF Joins
<1> HIDE DEF spans
<1>6. Joins(part.edges, nodes)
  BY <1>1, <1>4, <1>5, JoinsConcat
<1> QED BY <1>6 DEF part

(* A projection is a graph.                                                *)
LEMMA ProjectionJoins ==
  ASSUME NEW kew, IsSeq(kew.attestations), Projectable(kew.envelope)
  PROVE  Joins(ProjectionOf(kew).edges, ProjectionOf(kew).nodes)
<1> DEFINE artifact == Decoded(kew)
           hex == artifact.manifest.artifact_hash
           regime == Name(artifact.manifest.regime_id)
           atts == AttestationPart(artifact, hex)
           body == IF "rules" \in DOMAIN artifact.payload
                   THEN RulesPart(artifact, hex)
                   ELSE IntentPart(artifact.payload.intent, hex)
           graph == ExtractGraph(artifact)
           conflicts == IF "rules" \in DOMAIN artifact.payload
                        THEN ConflictEdges(hex, artifact.payload.rules) ELSE <<>>
           first == <<Edge("IN_REGIME", ArtifactId(hex), regime, {})>>
<1>1. /\ artifact.payload = kew.envelope.payload /\ artifact.index = kew.envelope.index
      /\ artifact.attestations = kew.attestations
  BY DEF Decoded
<1>2. graph = [ nodes |-> {Node("Artifact", ArtifactId(hex)), Node("Regime", regime)}
                          \cup atts.nodes \cup body.nodes,
                edges |-> first \o atts.edges \o body.edges ]
  BY Zenon DEF ExtractGraph
<1>3. ProjectionOf(kew) = [graph EXCEPT !.edges = @ \o conflicts]
  BY Zenon DEF ProjectionOf
<1> HIDE DEF artifact, graph, conflicts
<1>4. /\ ProjectionOf(kew).nodes = graph.nodes
      /\ ProjectionOf(kew).edges = graph.edges \o conflicts
  <2> HIDE DEF atts, body, first, regime, hex
  <2> QED BY <1>2, <1>3
<1>5. /\ Node("Artifact", ArtifactId(hex)) \in graph.nodes
      /\ Node("Regime", regime) \in graph.nodes
      /\ atts.nodes \subseteq graph.nodes /\ body.nodes \subseteq graph.nodes
  <2> HIDE DEF atts, body, first, regime, hex
  <2> QED BY <1>2
<1>6. Joins(first, graph.nodes)
  <2>1. PICK e : e = Edge("IN_REGIME", ArtifactId(hex), regime, {})
    OBVIOUS
  <2>2. Fits(e, graph.nodes)
    <3>1. ArtifactId(hex) \in Ids(graph.nodes) /\ regime \in Ids(graph.nodes)
      BY <1>5, IdOfNode
    <3> HIDE DEF hex, regime
    <3> QED BY <2>1, <3>1, EdgesFit
  <2>3. IsSeq(<<e>>) /\ ToSet(<<e>>) = {e}
    <3>1. ToSet(<<e>>) = {e}
      BY DEF ToSet
    <3> QED BY <3>1 DEF IsSeq
  <2> QED BY <2>1, <2>2, <2>3 DEF Joins
<1>7. Joins(atts.edges, graph.nodes)
  BY <1>1, <1>5, AttestationsJoin
<1>8. Joins(body.edges, graph.nodes)
  <2>1. CASE "rules" \in DOMAIN artifact.payload
    <3>1. body = RulesPart(artifact, hex)
      BY <2>1
    <3>2. IsSeq(artifact.payload.rules) /\ IndexOf(artifact.index, artifact.payload.rules)
      BY <1>1, <2>1 DEF Projectable
    <3> HIDE DEF hex, body
    <3> QED BY <1>5, <3>1, <3>2, RulesJoin
  <2>2. CASE "rules" \notin DOMAIN artifact.payload
    <3>1. body = IntentPart(artifact.payload.intent, hex)
      BY <2>2
    <3>2. IsSeq(artifact.payload.intent.spans)
      BY <1>1, <2>2 DEF Projectable
    <3> HIDE DEF hex, body
    <3> QED BY <1>5, <3>1, <3>2, IntentJoins
  <2> QED BY <2>1, <2>2
<1>9. Joins(conflicts, graph.nodes)
  <2>1. CASE "rules" \in DOMAIN artifact.payload
    <3> DEFINE rules == artifact.payload.rules
               ids == { rules[i].rule_id : i \in DOMAIN rules }
               found == { p \in T4Conflicts : p[1] \in ids /\ p[2] \in ids }
               pairs == SetToSeq(found)
    <3>1. conflicts = [ i \in DOMAIN pairs |->
                          Edge("CONFLICTS_WITH", RuleNodeId(hex, pairs[i][1]),
                               RuleNodeId(hex, pairs[i][2]), {}) ]
      BY <2>1, Zenon DEF conflicts, ConflictEdges
    <3>2. ASSUME NEW id \in ids PROVE RuleNodeId(hex, id) \in Ids(graph.nodes)
      <4>1. PICK i \in DOMAIN rules : id = rules[i].rule_id
        OBVIOUS
      <4>2. Node("Rule", RuleNodeId(hex, id)) \in RulesPart(artifact, hex).nodes
        <5>1. PICK more : RulesPart(artifact, hex).nodes =
                { Node("Rule", RuleNodeId(hex, rules[k].rule_id)) : k \in DOMAIN rules }
                \cup more
          <6>1. PICK p : p = RulesPart(artifact, hex)
            OBVIOUS
          <6>2. \E a, b, c : p = [nodes |->
                  { Node("Rule", RuleNodeId(hex, rules[k].rule_id)) : k \in DOMAIN rules }
                  \cup a \cup b, edges |-> c]
            BY <6>1, Zenon DEF RulesPart
          <6>3. PICK a, b, c : p = [nodes |->
                  { Node("Rule", RuleNodeId(hex, rules[k].rule_id)) : k \in DOMAIN rules }
                  \cup a \cup b, edges |-> c]
            BY <6>2
          <6>4. p.nodes =
                  { Node("Rule", RuleNodeId(hex, rules[k].rule_id)) : k \in DOMAIN rules }
                  \cup (a \cup b)
            BY <6>3
          <6> QED BY <6>1, <6>4
        <5> HIDE DEF rules
        <5> QED BY <4>1, <5>1
      <4> HIDE DEF rules
      <4> QED BY <1>5, <2>1, <4>2, IdOfNode
    <3>3. IsSeq(pairs) /\ ToSet(pairs) = found
      <4>1. IsFiniteSet(found)
        BY ConflictsAssumption, FS_Subset
      <4> HIDE DEF found
      <4> QED BY <4>1, SetHasSeq DEF IsSeq
    <3> HIDE DEF ids, pairs
    <3>4. ASSUME NEW i \in DOMAIN pairs
          PROVE  Fits(conflicts[i], graph.nodes)
      <4>1. pairs[i] \in found
        BY <3>3 DEF ToSet
      <4>2. conflicts[i] = Edge("CONFLICTS_WITH", RuleNodeId(hex, pairs[i][1]),
                                RuleNodeId(hex, pairs[i][2]), {})
        BY <3>1
      <4>3. \A id : DOMAIN RuleNodeId(hex, id) = {"hex", "rule"}
        BY DEF RuleNodeId
      <4>4. ArtifactId(hex) \in Ids(graph.nodes)
        BY <1>5, IdOfNode
      <4> HIDE DEF hex
      <4> QED BY <3>2, <4>1, <4>2, <4>3, <4>4, EdgesFit
    <3>5. conflicts = [i \in DOMAIN pairs |-> conflicts[i]]
      BY <3>1, Zenon
    <3> QED BY <3>3, <3>4, <3>5, JoinsMapped
  <2>2. CASE "rules" \notin DOMAIN artifact.payload
    <3>1. conflicts = <<>>
      BY <2>2 DEF conflicts
    <3>2. ToSet(<<>>) = {} /\ IsSeq(<<>>)
      BY DEF ToSet, IsSeq
    <3> QED BY <3>1, <3>2 DEF Joins
  <2> QED BY <2>1, <2>2
<1>10. graph.edges = (first \o atts.edges) \o body.edges
  BY <1>2
<1> HIDE DEF atts, body, first
<1>11. Joins(graph.edges, graph.nodes)
  BY <1>6, <1>7, <1>8, <1>10, JoinsConcat
<1> QED BY <1>4, <1>9, <1>11, JoinsConcat

(* And of nodes.                                                           *)
NamesItself(n) ==
  \/ n.label \in {"CorpusDoc", "Regime"} /\ n.id = Name(n.id.name)
  \/ n.label = "Artifact" /\ DOMAIN n.id = {"hex"}
  \/ n.label = "Rule" /\ DOMAIN n.id = {"hex", "rule"}
  \/ n.label = "Attestation" /\ DOMAIN n.id = {"hex", "att"}
  \/ n.label = "IntentSpec" /\ DOMAIN n.id = {"hex", "intent"}

IsNode(n) == n = Node(n.label, n.id) /\ NamesItself(n)

AreNodes(nodes) == IsFiniteSet(nodes) /\ \A n \in nodes : IsNode(n)

LEMMA NodesWritten ==
  ASSUME NEW hex, NEW x
  PROVE  /\ IsNode(Node("CorpusDoc", Name(x))) /\ IsNode(Node("Regime", Name(x)))
         /\ IsNode(Node("Artifact", ArtifactId(hex)))
         /\ IsNode(Node("Rule", RuleNodeId(hex, x)))
         /\ IsNode(Node("Attestation", [hex |-> hex, att |-> x]))
         /\ IsNode(Node("IntentSpec", [hex |-> hex, intent |-> x]))
<1>1. \A label, id : /\ Node(label, id).label = label /\ Node(label, id).id = id
                     /\ Node(label, id) = Node(Node(label, id).label, Node(label, id).id)
  BY DEF Node
<1>2. /\ Name(x) = Name(Name(x).name) /\ DOMAIN ArtifactId(hex) = {"hex"}
      /\ DOMAIN RuleNodeId(hex, x) = {"hex", "rule"}
      /\ DOMAIN [hex |-> hex, att |-> x] = {"hex", "att"}
      /\ DOMAIN [hex |-> hex, intent |-> x] = {"hex", "intent"}
  BY DEF Name, ArtifactId, RuleNodeId
<1> QED BY <1>1, <1>2 DEF IsNode, NamesItself

LEMMA NodesOfList ==
  ASSUME NEW s, IsSeq(s), NEW f, DOMAIN f = DOMAIN s, \A i \in DOMAIN s : IsNode(f[i])
  PROVE  AreNodes({ f[i] : i \in DOMAIN f })
<1>1. IsFiniteSet(DOMAIN f)
  <2>1. Len(s) \in Nat /\ DOMAIN s = 1 .. Len(s)
    BY DEF IsSeq
  <2> QED BY <2>1, FS_Interval
<1>2. IsFiniteSet({ f[i] : i \in DOMAIN f })
  BY <1>1, ImageIsFinite
<1> QED BY <1>2 DEF AreNodes

LEMMA NodesTogether ==
  ASSUME NEW s, NEW t, AreNodes(s), AreNodes(t)
  PROVE  AreNodes(s \cup t)
  BY FS_Union DEF AreNodes

(* The documents of a list of spans.                                       *)
LEMMA DocumentsAreNodes ==
  ASSUME NEW spans, IsSeq(spans)
  PROVE  AreNodes({ Node("CorpusDoc", Name(spans[i].document)) : i \in DOMAIN spans })
<1> DEFINE f == [i \in DOMAIN spans |-> Node("CorpusDoc", Name(spans[i].document))]
<1>1. /\ DOMAIN f = DOMAIN spans
      /\ { f[i] : i \in DOMAIN f }
           = { Node("CorpusDoc", Name(spans[i].document)) : i \in DOMAIN spans }
      /\ \A i \in DOMAIN spans : f[i] = Node("CorpusDoc", Name(spans[i].document))
  OBVIOUS
<1>2. \A i \in DOMAIN spans : IsNode(f[i])
  BY <1>1, NodesWritten
<1> HIDE DEF f
<1> QED BY <1>1, <1>2, NodesOfList

LEMMA AttestationNodes ==
  ASSUME NEW artifact, NEW hex, IsSeq(artifact.attestations)
  PROVE  AreNodes(AttestationPart(artifact, hex).nodes)
<1> DEFINE f == [i \in DOMAIN artifact.attestations |->
                   Node("Attestation", [hex |-> hex, att |-> i])]
<1>1. /\ DOMAIN f = DOMAIN artifact.attestations
      /\ AttestationPart(artifact, hex).nodes = { f[i] : i \in DOMAIN f }
      /\ \A i \in DOMAIN artifact.attestations :
           f[i] = Node("Attestation", [hex |-> hex, att |-> i])
  BY DEF AttestationPart
<1>2. \A i \in DOMAIN artifact.attestations : IsNode(f[i])
  BY <1>1, NodesWritten
<1> HIDE DEF f
<1> QED BY <1>1, <1>2, NodesOfList

LEMMA RuleNodes ==
  ASSUME NEW artifact, NEW hex, IsSeq(artifact.payload.rules),
         IndexOf(artifact.index, artifact.payload.rules)
  PROVE  AreNodes(RulesPart(artifact, hex).nodes)
<1> DEFINE rules == artifact.payload.rules
           f == [i \in DOMAIN rules |-> Node("Rule", RuleNodeId(hex, rules[i].rule_id))]
           g == [i \in DOMAIN rules |->
                   Node("CorpusDoc", Name(Text[rules[i].rule_id].source.document))]
           docs(entry) == { Node("CorpusDoc", Name(entry.spans[i].document)) :
                              i \in DOMAIN entry.spans }
           h == [entry \in artifact.index |-> docs(entry)]
           all == { h[entry] : entry \in DOMAIN h }
<1>1. PICK rest : RulesPart(artifact, hex) =
        [ nodes |-> { Node("Rule", RuleNodeId(hex, rules[i].rule_id)) : i \in DOMAIN rules }
            \cup { Node("CorpusDoc", Name(Text[rules[i].rule_id].source.document)) :
                     i \in DOMAIN rules }
            \cup UNION { docs(entry) : entry \in artifact.index },
          edges |-> rest ]
  BY Zenon DEF RulesPart
<1>2. /\ { Node("Rule", RuleNodeId(hex, rules[i].rule_id)) : i \in DOMAIN rules }
           = { f[i] : i \in DOMAIN f }
      /\ { Node("CorpusDoc", Name(Text[rules[i].rule_id].source.document)) :
             i \in DOMAIN rules } = { g[i] : i \in DOMAIN g }
      /\ DOMAIN f = DOMAIN rules /\ DOMAIN g = DOMAIN rules
      /\ \A i \in DOMAIN rules :
           /\ f[i] = Node("Rule", RuleNodeId(hex, rules[i].rule_id))
           /\ g[i] = Node("CorpusDoc", Name(Text[rules[i].rule_id].source.document))
  OBVIOUS
<1>3. \A i \in DOMAIN rules : IsNode(f[i]) /\ IsNode(g[i])
  BY <1>2, NodesWritten
<1>4. /\ { docs(entry) : entry \in artifact.index } = all
      /\ DOMAIN h = artifact.index /\ \A entry \in artifact.index : h[entry] = docs(entry)
  <2> HIDE DEF docs
  <2> QED OBVIOUS
<1>5. \A entry \in artifact.index : AreNodes(docs(entry))
  BY DocumentsAreNodes DEF IndexOf
<1> HIDE DEF f, g, docs, h
<1>6. AreNodes({ f[i] : i \in DOMAIN f }) /\ AreNodes({ g[i] : i \in DOMAIN g })
  BY <1>2, <1>3, NodesOfList
<1>7. AreNodes(UNION all)
  <2>1. IsFiniteSet(all)
    BY <1>4, ImageIsFinite DEF IndexOf
  <2>2. \A x \in all : AreNodes(x)
    BY <1>4, <1>5
  <2> HIDE DEF all
  <2>3. IsFiniteSet(UNION all)
    BY <2>1, <2>2, FS_UNION DEF AreNodes
  <2> QED BY <2>2, <2>3 DEF AreNodes
<1>8. RulesPart(artifact, hex).nodes
        = ({ f[i] : i \in DOMAIN f } \cup { g[i] : i \in DOMAIN g }) \cup (UNION all)
  <2> HIDE DEF all
  <2> QED BY <1>1, <1>2, <1>4
<1> HIDE DEF all
<1> QED BY <1>6, <1>7, <1>8, NodesTogether

LEMMA ProjectionNodes ==
  ASSUME NEW kew, IsSeq(kew.attestations), Projectable(kew.envelope)
  PROVE  AreNodes(ProjectionOf(kew).nodes)
<1> DEFINE artifact == Decoded(kew)
           hex == artifact.manifest.artifact_hash
           regime == artifact.manifest.regime_id
           atts == AttestationPart(artifact, hex)
           intent == artifact.payload.intent
           body == IF "rules" \in DOMAIN artifact.payload
                   THEN RulesPart(artifact, hex) ELSE IntentPart(intent, hex)
           two == {Node("Artifact", ArtifactId(hex)), Node("Regime", Name(regime))}
<1>1. /\ artifact.payload = kew.envelope.payload /\ artifact.index = kew.envelope.index
      /\ artifact.attestations = kew.attestations
  BY DEF Decoded
<1>2. ProjectionOf(kew).nodes = (two \cup atts.nodes) \cup body.nodes
  <2>1. PICK graph : graph = ExtractGraph(artifact)
    OBVIOUS
  <2>2. \E edges : graph = [nodes |-> two \cup atts.nodes \cup body.nodes, edges |-> edges]
    BY <2>1, Zenon DEF ExtractGraph
  <2>3. \E more : ProjectionOf(kew) = [graph EXCEPT !.edges = @ \o more]
    BY <2>1, Zenon DEF ProjectionOf
  <2> HIDE DEF two, atts, body
  <2> QED BY <2>2, <2>3
<1> HIDE DEF artifact
<1>3. AreNodes(two)
  <2>1. IsFiniteSet(two)
    <3>1. PICK a, b : a = Node("Artifact", ArtifactId(hex)) /\ b = Node("Regime", Name(regime))
      OBVIOUS
    <3>2. IsFiniteSet({a}) /\ IsFiniteSet({b}) /\ two = {a} \cup {b}
      BY <3>1, FS_Singleton
    <3> QED BY <3>2, FS_Union
  <2>2. \A n \in two : IsNode(n)
    BY NodesWritten
  <2> QED BY <2>1, <2>2 DEF AreNodes
<1>4. AreNodes(atts.nodes)
  BY <1>1, AttestationNodes
<1>5. AreNodes(body.nodes)
  <2>1. CASE "rules" \in DOMAIN artifact.payload
    <3>1. IsSeq(artifact.payload.rules) /\ IndexOf(artifact.index, artifact.payload.rules)
      BY <1>1, <2>1 DEF Projectable
    <3> QED BY <2>1, <3>1, RuleNodes
  <2>2. CASE "rules" \notin DOMAIN artifact.payload
    <3>1. IsSeq(intent.spans)
      BY <1>1, <2>2 DEF Projectable
    <3> DEFINE id == [hex |-> hex, intent |-> intent.action_class]
               docs == { Node("CorpusDoc", Name(intent.spans[i].document)) :
                           i \in DOMAIN intent.spans }
    <3>2. body.nodes = {Node("IntentSpec", id)} \cup docs
      BY <2>2 DEF IntentPart
    <3> HIDE DEF body
    <3>3. AreNodes(docs)
      BY <3>1, DocumentsAreNodes
    <3>4. AreNodes({Node("IntentSpec", id)})
      <4>1. IsNode(Node("IntentSpec", id))
        BY NodesWritten
      <4> QED BY <4>1, FS_Singleton DEF AreNodes
    <3> HIDE DEF docs, id
    <3> QED BY <3>2, <3>3, <3>4, NodesTogether
  <2> QED BY <2>1, <2>2
<1> HIDE DEF two, atts, body
<1> QED BY <1>2, <1>3, <1>4, <1>5, NodesTogether

-----------------------------------------------------------------------------
(* Merging.                                                                *)

(* Graph::merge loses nothing, invents nothing.                            *)
LEMMA MergeIsUnion ==
  ASSUME NEW g, NEW o, IsSeq(g.edges), IsSeq(o.edges)
  PROVE  /\ Merge(g, o).nodes = g.nodes \cup o.nodes
         /\ IsSeq(Merge(g, o).edges)
         /\ ToSet(Merge(g, o).edges) = ToSet(g.edges) \cup ToSet(o.edges)
<1> DEFINE E == ToSet(g.edges) \cup ToSet(o.edges)
           n == Len(o.edges)
           op(s, e) == IF e \in ToSet(s) THEN s ELSE Append(s, e)
           step == [p \in (1 .. n) \X Seq(E) |-> op(p[2], o.edges[p[1]])]
           body(h) == [s \in SUBSET (DOMAIN o.edges) |->
                         IF s = {} THEN g.edges
                         ELSE op(h[s \ {Max(s)}], o.edges[Max(s)])]
           F == CHOOSE h : h = body(h)
<1>1. g.edges \in Seq(E) /\ o.edges \in Seq(E)
  BY DEF IsSeq
<1>2. n \in Nat /\ DOMAIN o.edges = 1 .. n /\ \A i \in 1 .. n : o.edges[i] \in E
  BY <1>1
<1>3. ASSUME NEW s \in Seq(E), NEW e \in E
      PROVE  op(s, e) \in Seq(E) /\ ToSet(op(s, e)) = ToSet(s) \cup {e}
  <2>1. CASE e \in ToSet(s)
    BY <2>1
  <2>2. CASE e \notin ToSet(s)
    <3>1. Append(s, e) = s \o <<e>> /\ <<e>> \in Seq(E) /\ ToSet(<<e>>) = {e}
      BY DEF ToSet
    <3> HIDE DEF E
    <3>2. op(s, e) = s \o <<e>>
      BY <2>2, <3>1
    <3>3. s \o <<e>> \in Seq(E) /\ ToSet(s \o <<e>>) = ToSet(s) \cup ToSet(<<e>>)
      BY <3>1, JoinKeepsAll
    <3> HIDE DEF op
    <3> QED BY <3>1, <3>2, <3>3
  <2> QED BY <2>1, <2>2
<1> HIDE DEF E, n, op
<1>4. step \in [(1 .. n) \X Seq(E) -> Seq(E)]
  BY <1>2, <1>3
<1>5. \A i \in 1 .. n, s \in Seq(E) : step[<<i, s>>] = op(s, o.edges[i])
  OBVIOUS
<1> HIDE DEF step
<1>6. PICK iter \in [SUBSET (1 .. n) -> Seq(E)] : IsSetFold(iter, n, g.edges, step)
  BY <1>1, <1>2, <1>4, SetFoldExists
<1>7. \A s \in SUBSET (1 .. n) :
        s # {} => Max(s) \in 1 .. n /\ s \ {Max(s)} \in SUBSET (1 .. n)
  BY <1>2, MaxOfNats
<1>8. ASSUME NEW h, h \in [SUBSET (1 .. n) -> Seq(E)]
      PROVE  IsSetFold(h, n, g.edges, step) <=> h = body(h)
  <2>1. \A s \in SUBSET (1 .. n) : s # {} =>
          step[<<Max(s), h[s \ {Max(s)}]>>] = op(h[s \ {Max(s)}], o.edges[Max(s)])
    BY <1>5, <1>7, <1>8
  <2>2. [s \in SUBSET (1 .. n) |->
           IF s = {} THEN g.edges ELSE step[<<Max(s), h[s \ {Max(s)}]>>]]
        = [s \in SUBSET (1 .. n) |->
             IF s = {} THEN g.edges ELSE op(h[s \ {Max(s)}], o.edges[Max(s)])]
    BY <2>1
  <2> QED BY <1>2, <2>2, Zenon DEF IsSetFold
<1>9. F = body(F)
  <2>1. iter = body(iter)
    BY <1>6, <1>8
  <2> HIDE DEF body
  <2> QED BY <2>1, Zenon
<1>10. Merge(g, o) = [nodes |-> g.nodes \cup o.nodes, edges |-> F[DOMAIN o.edges]]
  BY Zenon DEF Merge, FoldLeft, MapThenFoldSet, op
<1>11. \A s \in SUBSET (1 .. n) :
         F[s] = IF s = {} THEN g.edges ELSE op(F[s \ {Max(s)}], o.edges[Max(s)])
  <2> HIDE DEF F
  <2> QED BY <1>2, <1>9
<1> HIDE DEF F, body
<1> DEFINE S == {i \in Nat : i <= n =>
                   /\ F[1 .. i] \in Seq(E)
                   /\ ToSet(F[1 .. i]) = ToSet(g.edges) \cup { o.edges[k] : k \in 1 .. i }}
<1>12. 0 \in S
  <2>1. 1 .. 0 = {}
    OBVIOUS
  <2>2. F[{}] = g.edges
    BY <1>11
  <2> QED BY <1>1, <2>1, <2>2
<1>13. ASSUME NEW i \in Nat, i \in S PROVE i + 1 \in S
  <2> SUFFICES ASSUME i + 1 <= n
               PROVE  /\ F[1 .. i + 1] \in Seq(E)
                      /\ ToSet(F[1 .. i + 1])
                           = ToSet(g.edges) \cup { o.edges[k] : k \in 1 .. i + 1 }
    OBVIOUS
  <2>1. i + 1 \in 1 .. n /\ (i + 1) - 1 = i /\ 1 .. i + 1 = (1 .. i) \cup {i + 1}
    BY <1>2
  <2>2. F[1 .. i + 1] = op(F[1 .. i], o.edges[i + 1])
    <3> DEFINE j == i + 1
    <3>1. /\ 1 .. j \in SUBSET (1 .. n) /\ 1 .. j # {} /\ Max(1 .. j) = j
          /\ (1 .. j) \ {j} = 1 .. j - 1
      BY <1>2, <2>1, Segment
    <3>2. F[1 .. j] = op(F[(1 .. j) \ {Max(1 .. j)}], o.edges[Max(1 .. j)])
      BY <1>11, <3>1
    <3> QED BY <2>1, <3>1, <3>2
  <2>3. /\ F[1 .. i] \in Seq(E)
        /\ ToSet(F[1 .. i]) = ToSet(g.edges) \cup { o.edges[k] : k \in 1 .. i }
    BY <1>2, <1>13, <2>1
  <2>4. /\ F[1 .. i + 1] \in Seq(E)
        /\ ToSet(F[1 .. i + 1]) = ToSet(F[1 .. i]) \cup {o.edges[i + 1]}
    BY <1>2, <1>3, <2>1, <2>2, <2>3
  <2> QED BY <2>1, <2>3, <2>4
<1> HIDE DEF S
<1>14. n \in S
  BY <1>2, <1>12, <1>13, NatSetInduction
<1>15. F[1 .. n] \in Seq(E) /\ ToSet(F[1 .. n]) = ToSet(g.edges) \cup ToSet(o.edges)
  <2>1. { o.edges[k] : k \in 1 .. n } = ToSet(o.edges)
    BY <1>2 DEF ToSet
  <2>2. n <= n
    BY <1>2
  <2> QED BY <1>14, <2>1, <2>2 DEF S
<1>16. Merge(g, o).nodes = g.nodes \cup o.nodes /\ Merge(g, o).edges = F[1 .. n]
  BY <1>2, <1>10
<1>17. IsSeq(F[1 .. n])
  BY <1>15, SeqIsSeq
<1> QED BY <1>15, <1>16, <1>17

(* What `ke graph export` folds, file after file.                          *)
NoGraph == [nodes |-> {}, edges |-> <<>>]

MergedGraph(order) ==
  FoldLeft(LAMBDA g, f : Merge(g, ProjectionOf(f.kew)), NoGraph, order)

LEMMA MergedIsUnion ==
  ASSUME NEW order, IsSeq(order),
         \A i \in DOMAIN order : IsSeq(ProjectionOf(order[i].kew).edges)
  PROVE  /\ MergedGraph(order).nodes =
              UNION { ProjectionOf(order[i].kew).nodes : i \in DOMAIN order }
         /\ IsSeq(MergedGraph(order).edges)
         /\ ToSet(MergedGraph(order).edges) =
              UNION { ToSet(ProjectionOf(order[i].kew).edges) : i \in DOMAIN order }
<1> DEFINE P == [i \in DOMAIN order |-> ProjectionOf(order[i].kew)]
           n == Len(order)
           N == UNION { P[i].nodes : i \in DOMAIN order }
           E == UNION { ToSet(P[i].edges) : i \in DOMAIN order }
           V == [nodes : SUBSET N, edges : Seq(E)]
           step == [p \in (1 .. n) \X V |-> Merge(p[2], P[p[1]])]
           op(g, f) == Merge(g, ProjectionOf(f.kew))
           body(h) == [s \in SUBSET (DOMAIN order) |->
                         IF s = {} THEN NoGraph ELSE op(h[s \ {Max(s)}], order[Max(s)])]
           F == CHOOSE h : h = body(h)
<1>1. n \in Nat /\ DOMAIN order = 1 .. n
  BY DEF IsSeq
<1>2. \A i \in 1 .. n : P[i] = ProjectionOf(order[i].kew) /\ IsSeq(P[i].edges)
  BY <1>1
<1>3. MergedGraph(order) = F[DOMAIN order]
  BY Zenon DEF MergedGraph, FoldLeft, MapThenFoldSet
<1>4. \A i \in 1 .. n : \A g : op(g, order[i]) = Merge(g, P[i])
  BY <1>2
<1> HIDE DEF P, n, op
<1>5. ASSUME NEW g \in V, NEW i \in 1 .. n
      PROVE  /\ Merge(g, P[i]) \in V
             /\ Merge(g, P[i]).nodes = g.nodes \cup P[i].nodes
             /\ ToSet(Merge(g, P[i]).edges) = ToSet(g.edges) \cup ToSet(P[i].edges)
  <2>1. IsSeq(g.edges)
    BY SeqIsSeq
  <2>2. PICK m : m = Merge(g, P[i])
    OBVIOUS
  <2>3. /\ m.nodes = g.nodes \cup P[i].nodes /\ IsSeq(m.edges)
        /\ ToSet(m.edges) = ToSet(g.edges) \cup ToSet(P[i].edges)
    BY <1>2, <2>1, <2>2, MergeIsUnion
  <2>4. m = [nodes |-> m.nodes, edges |-> m.edges]
    <3>1. \E a, b : m = [nodes |-> a, edges |-> b]
      BY <2>2, Zenon DEF Merge
    <3> QED BY <3>1
  <2>5. m.nodes \subseteq N /\ ToSet(m.edges) \subseteq E
    <3>1. P[i].nodes \subseteq N /\ ToSet(P[i].edges) \subseteq E
      BY <1>1
    <3>2. g.nodes \subseteq N /\ ToSet(g.edges) \subseteq E
      <4>1. g.edges \in Seq(E) /\ g.nodes \in SUBSET N
        OBVIOUS
      <4>2. \A j \in DOMAIN g.edges : g.edges[j] \in E
        BY <4>1
      <4> QED BY <4>1, <4>2 DEF ToSet
    <3> HIDE DEF N, E
    <3> QED BY <2>3, <3>1, <3>2
  <2>6. m.edges \in Seq(E)
    <3>1. m.edges \in Seq(ToSet(m.edges))
      BY <2>3 DEF IsSeq
    <3> HIDE DEF E
    <3> QED BY <2>5, <3>1
  <2>7. m \in V
    <3> HIDE DEF N, E
    <3> QED BY <2>4, <2>5, <2>6
  <2> QED BY <2>2, <2>3, <2>7
<1>6. NoGraph \in V
  BY DEF NoGraph
<1> HIDE DEF V
<1>7. step \in [(1 .. n) \X V -> V]
  BY <1>5
<1>8. \A i \in 1 .. n, g \in V : step[<<i, g>>] = Merge(g, P[i])
  OBVIOUS
<1> HIDE DEF step
<1>9. PICK iter \in [SUBSET (1 .. n) -> V] : IsSetFold(iter, n, NoGraph, step)
  BY <1>1, <1>6, <1>7, SetFoldExists
<1>10. iter = body(iter)
  <2>1. \A s \in SUBSET (1 .. n) :
          s # {} => Max(s) \in 1 .. n /\ s \ {Max(s)} \in SUBSET (1 .. n)
    BY <1>1, MaxOfNats
  <2>2. \A s \in SUBSET (1 .. n) : s # {} =>
          step[<<Max(s), iter[s \ {Max(s)}]>>] = op(iter[s \ {Max(s)}], order[Max(s)])
    <3> SUFFICES ASSUME NEW s \in SUBSET (1 .. n), s # {}
                 PROVE  step[<<Max(s), iter[s \ {Max(s)}]>>]
                          = op(iter[s \ {Max(s)}], order[Max(s)])
      OBVIOUS
    <3>1. Max(s) \in 1 .. n /\ iter[s \ {Max(s)}] \in V
      BY <2>1
    <3> QED BY <1>4, <1>8, <3>1
  <2>3. [s \in SUBSET (1 .. n) |->
           IF s = {} THEN NoGraph ELSE step[<<Max(s), iter[s \ {Max(s)}]>>]]
        = [s \in SUBSET (1 .. n) |->
             IF s = {} THEN NoGraph ELSE op(iter[s \ {Max(s)}], order[Max(s)])]
    BY <2>2
  <2> QED BY <1>1, <1>9, <2>3, Zenon DEF IsSetFold
<1>11. F = body(F)
  <2> HIDE DEF body
  <2> QED BY <1>10, Zenon
<1>12. \A s \in SUBSET (1 .. n) :
         F[s] = IF s = {} THEN NoGraph ELSE op(F[s \ {Max(s)}], order[Max(s)])
  <2> HIDE DEF F
  <2> QED BY <1>1, <1>11
<1> HIDE DEF F, body
<1> DEFINE S == {i \in Nat : i <= n =>
                   /\ F[1 .. i] \in V
                   /\ F[1 .. i].nodes = UNION { P[k].nodes : k \in 1 .. i }
                   /\ ToSet(F[1 .. i].edges) = UNION { ToSet(P[k].edges) : k \in 1 .. i }}
<1>13. 0 \in S
  <2>1. 1 .. 0 = {} /\ ToSet(<<>>) = {}
    BY DEF ToSet
  <2>2. F[{}] = NoGraph
    BY <1>12
  <2>3. NoGraph.nodes = {} /\ NoGraph.edges = <<>>
    BY DEF NoGraph
  <2> QED BY <1>6, <2>1, <2>2, <2>3
<1>14. ASSUME NEW i \in Nat, i \in S PROVE i + 1 \in S
  <2> DEFINE j == i + 1
  <2> SUFFICES ASSUME j <= n
               PROVE  /\ F[1 .. j] \in V
                      /\ F[1 .. j].nodes = UNION { P[k].nodes : k \in 1 .. j }
                      /\ ToSet(F[1 .. j].edges) = UNION { ToSet(P[k].edges) : k \in 1 .. j }
    OBVIOUS
  <2>1. j \in 1 .. n /\ j - 1 = i /\ 1 .. j = (1 .. i) \cup {j}
    BY <1>1
  <2>2. F[1 .. j] = op(F[1 .. i], order[j])
    <3>1. /\ 1 .. j \in SUBSET (1 .. n) /\ 1 .. j # {} /\ Max(1 .. j) = j
          /\ (1 .. j) \ {j} = 1 .. j - 1
      BY <1>1, <2>1, Segment
    <3>2. F[1 .. j] = op(F[(1 .. j) \ {Max(1 .. j)}], order[Max(1 .. j)])
      BY <1>12, <3>1
    <3> QED BY <2>1, <3>1, <3>2
  <2>3. /\ F[1 .. i] \in V
        /\ F[1 .. i].nodes = UNION { P[k].nodes : k \in 1 .. i }
        /\ ToSet(F[1 .. i].edges) = UNION { ToSet(P[k].edges) : k \in 1 .. i }
    BY <1>1, <1>14, <2>1
  <2>4. F[1 .. j] = Merge(F[1 .. i], P[j])
    BY <1>4, <2>1, <2>2
  <2>5. /\ F[1 .. j] \in V
        /\ F[1 .. j].nodes = F[1 .. i].nodes \cup P[j].nodes
        /\ ToSet(F[1 .. j].edges) = ToSet(F[1 .. i].edges) \cup ToSet(P[j].edges)
    <3>1. PICK g \in V : g = F[1 .. i]
      BY <2>3
    <3> HIDE DEF j
    <3> QED BY <1>5, <2>1, <2>4, <3>1
  <2> HIDE DEF j
  <2> QED BY <2>1, <2>3, <2>5
<1> HIDE DEF S
<1>15. n \in S
  BY <1>1, <1>13, <1>14, NatSetInduction
<1>16. /\ F[1 .. n] \in V
       /\ F[1 .. n].nodes = UNION { P[k].nodes : k \in 1 .. n }
       /\ ToSet(F[1 .. n].edges) = UNION { ToSet(P[k].edges) : k \in 1 .. n }
  <2>1. n <= n
    BY <1>1
  <2> QED BY <1>15, <2>1 DEF S
<1>17. IsSeq(F[1 .. n].edges)
  BY <1>16, SeqIsSeq DEF V
<1>18. /\ { P[k].nodes : k \in 1 .. n } = { ProjectionOf(order[i].kew).nodes : i \in 1 .. n }
       /\ { ToSet(P[k].edges) : k \in 1 .. n }
            = { ToSet(ProjectionOf(order[i].kew).edges) : i \in 1 .. n }
  BY <1>2
<1> QED BY <1>1, <1>3, <1>16, <1>17, <1>18

-----------------------------------------------------------------------------
(* What the compiler assembles can be projected.                           *)

LEMMA SpansAreSeq ==
  ASSUME NEW rule, rule.rule_id \in DOMAIN Text
  PROVE  IsSeq(CollectRuleSpans(rule))
<1> DEFINE text == Text[rule.rule_id]
           seqs == [ i \in DOMAIN text.tree |->
                       SetToSeq(text.tree[i].span) \o text.tree[i].obligations ]
<1>1. /\ IsSeq(text.tree) /\ IsSeq(text.obligations)
      /\ \A i \in DOMAIN text.tree :
           IsFiniteSet(text.tree[i].span) /\ IsSeq(text.tree[i].obligations)
  BY TextAssumption DEF IsSeq
<1>2. CollectRuleSpans(rule) = FlattenSeq(seqs) \o text.obligations
  BY Zenon DEF CollectRuleSpans
<1> HIDE DEF text
<1>3. ASSUME NEW i \in DOMAIN text.tree PROVE IsSeq(seqs[i])
  <2>1. IsSeq(SetToSeq(text.tree[i].span))
    BY <1>1, SetHasSeq, SeqIsSeq
  <2>2. seqs[i] = SetToSeq(text.tree[i].span) \o text.tree[i].obligations
    OBVIOUS
  <2> HIDE DEF seqs
  <2> QED BY <1>1, <2>1, <2>2, ConcatOfSeqs
<1>4. seqs = [i \in DOMAIN text.tree |-> seqs[i]] /\ DOMAIN seqs = DOMAIN text.tree
  OBVIOUS
<1> HIDE DEF seqs
<1>5. IsSeq(seqs)
  BY <1>1, <1>4, MappedIsSeq
<1>6. IsSeq(FlattenSeq(seqs))
  <2>1. PICK E : E = UNION { ToSet(seqs[i]) : i \in DOMAIN seqs }
    OBVIOUS
  <2>2. \A i \in DOMAIN seqs : seqs[i] \in Seq(E)
    <3> TAKE i \in DOMAIN seqs
    <3>1. seqs[i] \in Seq(ToSet(seqs[i])) /\ ToSet(seqs[i]) \subseteq E
      BY <1>3, <1>4, <2>1 DEF IsSeq
    <3> QED BY <3>1
  <2>3. seqs \in Seq(Seq(E))
    <3>1. seqs \in Seq(ToSet(seqs))
      BY <1>5 DEF IsSeq
    <3>2. /\ DOMAIN seqs = 1 .. Len(seqs) /\ Len(seqs) \in Nat
          /\ seqs = [i \in 1 .. Len(seqs) |-> seqs[i]]
      BY <3>1
    <3> QED BY <2>2, <3>2
  <2> QED BY <2>3, FlattenKeepsAll, SeqIsSeq
<1> QED BY <1>1, <1>2, <1>6, ConcatOfSeqs DEF text

LEMMA IndexIsOfRules ==
  ASSUME NEW rules, IsSeq(rules), \A i \in DOMAIN rules : rules[i].rule_id \in DOMAIN Text
  PROVE  IndexOf(BuildSpanIndex(rules), rules)
<1> DEFINE entry(i) == [ rule_id |-> rules[i].rule_id,
                         spans |-> CollectRuleSpans(rules[i]) ]
           index == { entry(i) : i \in DOMAIN rules }
<1>1. BuildSpanIndex(rules) = index
  BY DEF BuildSpanIndex
<1>2. \A i \in DOMAIN rules : IsSeq(CollectRuleSpans(rules[i]))
  BY SpansAreSeq
<1>3. IsFiniteSet(index)
  <2>1. IsFiniteSet(DOMAIN rules)
    <3>1. Len(rules) \in Nat /\ DOMAIN rules = 1 .. Len(rules)
      BY DEF IsSeq
    <3> QED BY <3>1, FS_Interval
  <2> DEFINE f == [i \in DOMAIN rules |-> entry(i)]
  <2>2. index = {f[i] : i \in DOMAIN f} /\ DOMAIN f = DOMAIN rules
    <3> HIDE DEF entry
    <3> QED OBVIOUS
  <2> HIDE DEF f, index
  <2> QED BY <2>1, <2>2, ImageIsFinite
<1>4. ASSUME NEW x \in index
      PROVE  IsSeq(x.spans) /\ \E i \in DOMAIN rules : x.rule_id = rules[i].rule_id
  <2>1. PICK i \in DOMAIN rules : x = entry(i)
    OBVIOUS
  <2>2. x.rule_id = rules[i].rule_id /\ x.spans = CollectRuleSpans(rules[i])
    BY <2>1
  <2> QED BY <1>2, <2>2
<1> HIDE DEF index
<1> QED BY <1>1, <1>3, <1>4 DEF IndexOf

LEMMA AssembledIsProjectable ==
  ASSUME NEW s \in Sources, NEW kew \in AssemblePayload(s.manifest, s.payload, "compiler")
  PROVE  Projectable(kew.envelope)
<1>1. PICK canonical \in CanonicalPayload(s.payload) :
        kew.envelope = WithHash(Zeroed(s.manifest, canonical),
                                Blake3(Zeroed(s.manifest, canonical)))
  BY AssembledFrom
<1>2. /\ kew.envelope.payload = canonical
      /\ "rules" \in DOMAIN canonical
           => kew.envelope.index = BuildSpanIndex(canonical.rules)
  <2>1. PICK zeroed, index, hash :
          /\ zeroed = [ manifest |-> [s.manifest EXCEPT !.artifact_hash = ZeroHash],
                        payload |-> canonical, index |-> index ]
          /\ "rules" \in DOMAIN canonical => index = BuildSpanIndex(canonical.rules)
          /\ kew.envelope = WithHash(zeroed, hash)
    BY <1>1 DEF Zeroed
  <2>2. PICK manifest : zeroed = [ manifest |-> manifest, payload |-> canonical,
                                   index |-> index ]
    BY <2>1
  <2>3. kew.envelope = [ manifest |-> [manifest EXCEPT !.artifact_hash = hash],
                         payload |-> canonical, index |-> index ]
    <3>1. kew.envelope = WithHash([ manifest |-> manifest, payload |-> canonical,
                                    index |-> index ], hash)
      BY <2>1, <2>2
    <3> QED BY <3>1 DEF WithHash
  <2> QED BY <2>1, <2>3
<1>3. CASE "intent" \in DOMAIN s.payload
  <2>1. canonical = s.payload /\ "rules" \notin DOMAIN s.payload
    BY <1>1, <1>3, SourcesAssumption DEF CanonicalPayload
  <2>2. IsSeq(s.payload.intent.spans)
    BY <1>3, PayloadsAssumption DEF IsSeq
  <2> QED BY <1>2, <2>1, <2>2 DEF Projectable
<1>4. CASE "intent" \notin DOMAIN s.payload
  <2> DEFINE given == s.payload.rules
             rules == [ i \in DOMAIN given |-> Canonicalized(given[i]) ]
  <2>1. canonical = [rules |-> rules]
    BY <1>1, <1>4 DEF CanonicalPayload
  <2>2. "rules" \in DOMAIN s.payload
    BY <1>4, SourcesAssumption
  <2>3. IsSeq(given) /\ \A i \in DOMAIN given : given[i].rule_id \in DOMAIN Text
    BY <2>2, PayloadsAssumption DEF IsSeq
  <2>4. \A i \in DOMAIN given : "form" \in DOMAIN given[i]
    BY <2>2, SourcesAssumption
  <2> HIDE DEF given
  <2>5. IsSeq(rules) /\ DOMAIN rules = DOMAIN given
    <3>1. rules = [i \in DOMAIN given |-> rules[i]] /\ DOMAIN rules = DOMAIN given
      OBVIOUS
    <3> HIDE DEF rules
    <3> QED BY <2>3, <3>1, MappedIsSeq
  <2>6. \A i \in DOMAIN given : rules[i].rule_id = given[i].rule_id
    <3> TAKE i \in DOMAIN given
    <3>1. PICK r : r = given[i]
      OBVIOUS
    <3>2. rules[i] = [r EXCEPT !.form = "canonical"]
      BY <3>1 DEF Canonicalized
    <3> HIDE DEF rules
    <3> QED BY <3>1, <3>2
  <2> HIDE DEF rules
  <2>7. IndexOf(BuildSpanIndex(rules), rules)
    BY <2>3, <2>5, <2>6, IndexIsOfRules
  <2>8. "rules" \in DOMAIN canonical /\ canonical.rules = rules
    BY <2>1
  <2> QED BY <1>2, <2>5, <2>7, <2>8 DEF Projectable
<1> QED BY <1>3, <1>4

LEMMA ProjectableStep ==
  ASSUME \A e \in made : Projectable(e), [Next]_vars
  PROVE  \A e \in made' : Projectable(e)
<1>1. ASSUME NEW p \in Place, Assemble(p)
      PROVE  \A e \in made' : Projectable(e)
  <2>1. PICK s \in Sources :
          \E kew \in AssemblePayload(s.manifest, s.payload, "compiler") :
            made' = made \cup {kew.envelope}
    BY <1>1, Zenon DEF Assemble
  <2> QED BY <2>1, AssembledIsProjectable
<1> QED BY <1>1, OnlyAssembleMakes

-----------------------------------------------------------------------------
(* Closures.                                                               *)

After(reached, related) ==
  reached \cup { p[2] : p \in { q \in related : q[1] \in reached } }

IsLayers(f, start, related) ==
  f[0] = start /\ \A k \in Nat : f[k + 1] = After(f[k], related)

(* Within a set, by layers.                                                *)
IsReach(f, U, start, related) ==
  /\ start \subseteq U /\ related \subseteq U \X U
  /\ f \in [Nat -> SUBSET U] /\ IsLayers(f, start, related)

LEMMA LayersExist ==
  ASSUME NEW U, NEW start, start \subseteq U, NEW related, related \subseteq U \X U
  PROVE  \E f : IsReach(f, U, start, related)
<1> DEFINE step == [p \in Nat \X SUBSET U |-> After(p[2], related)]
<1>1. \A s \in SUBSET U : After(s, related) \in SUBSET U
  BY DEF After
<1>2. step \in [Nat \X SUBSET U -> SUBSET U]
  BY <1>1
<1>3. \A k \in Nat, s \in SUBSET U : step[<<k, s>>] = After(s, related)
  OBVIOUS
<1> HIDE DEF step
<1>4. PICK f \in [Nat -> SUBSET U] : IsIteration(f, start, step)
  <2>1. start \in SUBSET U
    OBVIOUS
  <2> QED BY <1>2, <2>1, Iteration
<1>5. \A k \in Nat : f[k] \in SUBSET U
  OBVIOUS
<1>6. IsLayers(f, start, related)
  BY <1>3, <1>4, <1>5 DEF IsIteration, IsLayers
<1> QED BY <1>6 DEF IsReach

(* What the queries compute is a layer.                                    *)
LEMMA ClosureIsLayer ==
  ASSUME NEW U, NEW start, NEW related, NEW f, IsReach(f, U, start, related),
         NEW n \in Nat
  PROVE  Closure(start, related, n) = f[n]
<1>0. /\ start \subseteq U /\ related \subseteq U \X U
      /\ f \in [Nat -> SUBSET U] /\ IsLayers(f, start, related)
  BY DEF IsReach
<1> DEFINE V == SUBSET U
           layers == [layer \in 1 .. n |-> layer]
           step == [p \in (1 .. n) \X V |-> After(p[2], related)]
           op(reached, layer) ==
             reached \cup { p[2] : p \in { q \in related : q[1] \in reached } }
           body(h) == [s \in SUBSET (DOMAIN layers) |->
                         IF s = {} THEN start ELSE op(h[s \ {Max(s)}], layers[Max(s)])]
           F == CHOOSE h : h = body(h)
<1>1. Closure(start, related, n) = F[DOMAIN layers]
  BY Zenon DEF Closure, FoldLeft, MapThenFoldSet
<1>2. DOMAIN layers = 1 .. n
  OBVIOUS
<1>3. \A s, i : op(s, i) = After(s, related)
  BY DEF After
<1>4. \A s \in V : After(s, related) \in V
  BY <1>0 DEF After
<1> HIDE DEF op, V, layers
<1>5. step \in [(1 .. n) \X V -> V]
  BY <1>4
<1>6. \A i \in 1 .. n, s \in V : step[<<i, s>>] = After(s, related)
  OBVIOUS
<1> HIDE DEF step
<1>7. PICK iter \in [SUBSET (1 .. n) -> V] : IsSetFold(iter, n, start, step)
  <2>1. start \in V
    BY <1>0 DEF V
  <2> QED BY <1>5, <2>1, SetFoldExists
<1>8. iter = body(iter)
  <2>1. \A s \in SUBSET (1 .. n) :
          s # {} => Max(s) \in 1 .. n /\ s \ {Max(s)} \in SUBSET (1 .. n)
    BY MaxOfNats
  <2>2. \A s \in SUBSET (1 .. n) : s # {} =>
          step[<<Max(s), iter[s \ {Max(s)}]>>] = op(iter[s \ {Max(s)}], layers[Max(s)])
    <3> SUFFICES ASSUME NEW s \in SUBSET (1 .. n), s # {}
                 PROVE  step[<<Max(s), iter[s \ {Max(s)}]>>]
                          = op(iter[s \ {Max(s)}], layers[Max(s)])
      OBVIOUS
    <3>1. Max(s) \in 1 .. n /\ iter[s \ {Max(s)}] \in V
      BY <2>1
    <3> QED BY <1>3, <1>6, <3>1
  <2>3. [s \in SUBSET (1 .. n) |->
           IF s = {} THEN start ELSE step[<<Max(s), iter[s \ {Max(s)}]>>]]
        = [s \in SUBSET (1 .. n) |->
             IF s = {} THEN start ELSE op(iter[s \ {Max(s)}], layers[Max(s)])]
    BY <2>2
  <2> QED BY <1>2, <1>7, <2>3, Zenon DEF IsSetFold
<1>9. F = body(F)
  <2> HIDE DEF body
  <2> QED BY <1>8, Zenon
<1>10. \A s \in SUBSET (1 .. n) :
         F[s] = IF s = {} THEN start ELSE After(F[s \ {Max(s)}], related)
  <2> HIDE DEF F
  <2>1. \A s \in SUBSET (1 .. n) :
          F[s] = IF s = {} THEN start ELSE op(F[s \ {Max(s)}], layers[Max(s)])
    BY <1>2, <1>9
  <2> QED BY <1>3, <2>1
<1> HIDE DEF F, body
<1> DEFINE S == {i \in Nat : i <= n => F[1 .. i] = f[i]}
<1>11. 0 \in S
  <2>1. 1 .. 0 = {}
    OBVIOUS
  <2>2. F[{}] = start
    BY <1>10
  <2> QED BY <1>0, <2>1, <2>2 DEF IsLayers
<1>12. ASSUME NEW i \in Nat, i \in S PROVE i + 1 \in S
  <2> DEFINE j == i + 1
  <2> SUFFICES ASSUME j <= n PROVE F[1 .. j] = f[j]
    OBVIOUS
  <2>1. j \in 1 .. n /\ j - 1 = i
    OBVIOUS
  <2>2. /\ 1 .. j \in SUBSET (1 .. n) /\ 1 .. j # {} /\ Max(1 .. j) = j
        /\ (1 .. j) \ {j} = 1 .. j - 1
    BY <2>1, Segment
  <2>3. F[1 .. j] = After(F[1 .. i], related)
    BY <1>10, <2>1, <2>2
  <2>4. F[1 .. i] = f[i]
    BY <1>12
  <2> QED BY <1>0, <2>3, <2>4 DEF IsLayers
<1> HIDE DEF S
<1>13. n \in S
  BY <1>11, <1>12, NatSetInduction
<1>14. F[1 .. n] = f[n]
  BY <1>13 DEF S
<1> QED BY <1>1, <1>2, <1>14

(* As many layers as there is anything to reach are enough.                *)
LEMMA LayersSettle ==
  ASSUME NEW U, IsFiniteSet(U), NEW start, NEW related, NEW f,
         IsReach(f, U, start, related)
  PROVE  f[Cardinality(U) + 1] = f[Cardinality(U)]
<1>0. f \in [Nat -> SUBSET U] /\ IsLayers(f, start, related)
  BY DEF IsReach
<1>1. \A k \in Nat : f[k] \subseteq U /\ f[k] \subseteq f[k + 1] /\ IsFiniteSet(f[k])
  <2> TAKE k \in Nat
  <2>1. f[k] \subseteq U
    BY <1>0
  <2>2. f[k] \subseteq f[k + 1]
    BY <1>0 DEF IsLayers, After
  <2> QED BY <2>1, <2>2, FS_Subset
<1>2. \A k \in Nat : Cardinality(f[k]) \in Nat
  BY <1>1, FS_CardinalityType
<1> DEFINE S == {k \in Nat : f[k + 1] = f[k] \/ Cardinality(f[k]) >= k}
<1>3. 0 \in S
  BY <1>2
<1>4. ASSUME NEW k \in Nat, k \in S PROVE k + 1 \in S
  <2>1. CASE f[k + 1] = f[k]
    <3>1. f[(k + 1) + 1] = f[k + 1]
      BY <1>0, <2>1 DEF IsLayers
    <3> QED BY <3>1
  <2>2. CASE f[k + 1] # f[k]
    <3>1. Cardinality(f[k]) >= k
      BY <1>4, <2>2
    <3>2. Cardinality(f[k]) < Cardinality(f[k + 1])
      <4>1. f[k] \subseteq f[k + 1] /\ IsFiniteSet(f[k + 1])
        BY <1>1
      <4>2. Cardinality(f[k]) <= Cardinality(f[k + 1])
            /\ (Cardinality(f[k]) = Cardinality(f[k + 1]) => f[k] = f[k + 1])
        BY <4>1, FS_Subset
      <4>3. Cardinality(f[k]) \in Nat /\ Cardinality(f[k + 1]) \in Nat
        BY <1>2
      <4> QED BY <2>2, <4>2, <4>3
    <3>3. Cardinality(f[k]) \in Nat /\ Cardinality(f[k + 1]) \in Nat
      BY <1>2
    <3> QED BY <3>1, <3>2, <3>3
  <2> QED BY <2>1, <2>2
<1>5. PICK n \in Nat : n = Cardinality(U)
  BY FS_CardinalityType
<1> HIDE DEF S
<1>6. n \in S
  BY <1>3, <1>4, NatSetInduction
<1>7. CASE Cardinality(f[n]) >= n
  <2>1. f[n] \subseteq U /\ Cardinality(f[n]) <= n
    BY <1>1, <1>5, FS_Subset
  <2>2. Cardinality(f[n]) = n
    BY <1>2, <1>7, <2>1
  <2>3. f[n] = U
    BY <1>5, <2>1, <2>2, FS_Subset
  <2>4. f[n + 1] \subseteq U /\ f[n] \subseteq f[n + 1]
    <3>1. n + 1 \in Nat
      OBVIOUS
    <3> QED BY <1>1, <3>1
  <2> QED BY <1>5, <2>3, <2>4
<1> QED BY <1>5, <1>6, <1>7 DEF S

(* And from then on nothing more is reached.                               *)
LEMMA LayersStay ==
  ASSUME NEW f, NEW start, NEW related, IsLayers(f, start, related),
         NEW n \in Nat, f[n + 1] = f[n], NEW m \in Nat, n <= m
  PROVE  f[m] = f[n]
<1> DEFINE S == {k \in Nat : f[n + k] = f[n]}
<1>1. 0 \in S
  OBVIOUS
<1>2. ASSUME NEW k \in Nat, k \in S PROVE k + 1 \in S
  <2>1. n + k \in Nat /\ n + (k + 1) = (n + k) + 1
    OBVIOUS
  <2>2. f[(n + k) + 1] = After(f[n + k], related) /\ f[n + 1] = After(f[n], related)
    BY <2>1 DEF IsLayers
  <2> QED BY <1>2, <2>1, <2>2
<1>3. m - n \in Nat /\ n + (m - n) = m
  OBVIOUS
<1> HIDE DEF S
<1>4. m - n \in S
  BY <1>1, <1>2, <1>3, NatSetInduction
<1> QED BY <1>3, <1>4 DEF S

-----------------------------------------------------------------------------
(* The queries, on a graph whose edges have ends and whose ids tell labels.*)

IsGraph(graph) == AreNodes(graph.nodes) /\ Joins(graph.edges, graph.nodes)

(* What two nodes, and two ids, are linked by.                             *)
Related(rels, a, type, b) == \E r \in rels : r.type = type /\ r.from = a /\ r.to = b

Linked(graph, x, label, y) ==
  \E e \in ToSet(graph.edges) : e.label = label /\ e.from = x /\ e.to = y

(* The store relates all nodes whose ids the graph links.                  *)
LEMMA LoadRelatesLinked ==
  ASSUME NEW graph
  PROVE  LET rels == Load(graph) IN
         /\ \A r \in rels : /\ r.from \in graph.nodes /\ r.to \in graph.nodes
                            /\ Linked(graph, r.from.id, r.type, r.to.id)
         /\ \A type : \A a, b \in graph.nodes :
              Linked(graph, a.id, type, b.id) => Related(rels, a, type, b)
<1> DEFINE rels == Load(graph)
           ends(e) == { p \in graph.nodes \X graph.nodes :
                          p[1].id = e.from /\ p[2].id = e.to }
           written(e) == { i \in DOMAIN graph.edges :
                             LET d == graph.edges[i] IN
                             /\ d.label = e.label /\ d.from = e.from /\ d.to = e.to
                             /\ d.article # {} }
           article(e) == IF written(e) = {} THEN {}
                         ELSE graph.edges[Max(written(e))].article
           rel(e, p) == [ type |-> e.label, from |-> p[1], to |-> p[2],
                          article |-> article(e) ]
<1>1. rels = UNION { { rel(e, p) : p \in ends(e) } : e \in ToSet(graph.edges) }
  BY Zenon DEF Load
<1>2. \A e, p : /\ rel(e, p).type = e.label /\ rel(e, p).from = p[1]
                /\ rel(e, p).to = p[2]
  <2> HIDE DEF article
  <2> QED OBVIOUS
<1> HIDE DEF rel, rels
<1>3. ASSUME NEW r \in rels
      PROVE  /\ r.from \in graph.nodes /\ r.to \in graph.nodes
             /\ Linked(graph, r.from.id, r.type, r.to.id)
  <2>1. PICK e \in ToSet(graph.edges) : \E p \in ends(e) : r = rel(e, p)
    BY <1>1
  <2>2. PICK p \in ends(e) : r = rel(e, p)
    BY <2>1
  <2>3. r.type = e.label /\ r.from = p[1] /\ r.to = p[2]
    BY <1>2, <2>2
  <2>4. /\ p[1] \in graph.nodes /\ p[2] \in graph.nodes
        /\ p[1].id = e.from /\ p[2].id = e.to
    OBVIOUS
  <2> QED BY <2>3, <2>4 DEF Linked
<1>4. ASSUME NEW a \in graph.nodes, NEW b \in graph.nodes, NEW type,
             Linked(graph, a.id, type, b.id)
      PROVE  Related(rels, a, type, b)
  <2>1. PICK e \in ToSet(graph.edges) : e.label = type /\ e.from = a.id /\ e.to = b.id
    BY <1>4 DEF Linked
  <2>2. <<a, b>> \in ends(e)
    BY <2>1
  <2>3. rel(e, <<a, b>>) \in rels
    <3> HIDE DEF ends
    <3> QED BY <1>1, <2>2
  <2>4. /\ rel(e, <<a, b>>).type = type /\ rel(e, <<a, b>>).from = a
        /\ rel(e, <<a, b>>).to = b
    BY <1>2, <2>1
  <2> QED BY <2>3, <2>4 DEF Related
<1> QED BY <1>3, <1>4 DEF rels

(* So two nodes are related if and only if their ids are linked.           *)
LEMMA RelatedIsLinked ==
  ASSUME NEW graph, NEW a, NEW b, NEW type
  PROVE  Related(Load(graph), a, type, b)
           <=> /\ a \in graph.nodes /\ b \in graph.nodes
               /\ Linked(graph, a.id, type, b.id)
<1>1. PICK rels : rels = Load(graph)
  OBVIOUS
<1>2. /\ \A r \in rels : /\ r.from \in graph.nodes /\ r.to \in graph.nodes
                         /\ Linked(graph, r.from.id, r.type, r.to.id)
      /\ \A t : \A c, d \in graph.nodes :
           Linked(graph, c.id, t, d.id) => Related(rels, c, t, d)
  BY <1>1, LoadRelatesLinked, Zenon
<1>3. Related(rels, a, type, b)
        => /\ a \in graph.nodes /\ b \in graph.nodes /\ Linked(graph, a.id, type, b.id)
  BY <1>2 DEF Related
<1> QED BY <1>1, <1>2, <1>3

(* Linked ids are nodes', and the label says of which.                     *)
LEMMA LinkedNodes ==
  ASSUME NEW graph, IsGraph(graph), NEW x, NEW label, NEW y, Linked(graph, x, label, y)
  PROVE  /\ \E a \in graph.nodes : a.id = x
         /\ \E b \in graph.nodes : b.id = y
         /\ label \in {"CONTAINS", "IN_REGIME"} => DOMAIN x = {"hex"}
         /\ label = "ATTESTED_BY" => DOMAIN y = {"hex", "att"}
         /\ label = "CONFLICTS_WITH" =>
              DOMAIN x = {"hex", "rule"} /\ DOMAIN y = {"hex", "rule"}
<1>1. PICK e \in ToSet(graph.edges) : e.label = label /\ e.from = x /\ e.to = y
  BY DEF Linked
<1>2. Fits(e, graph.nodes)
  BY DEF IsGraph, Joins
<1> QED BY <1>1, <1>2 DEF Fits, Ids, WellLabelled

LEMMA LabelsById ==
  ASSUME NEW n, IsNode(n)
  PROVE  /\ n.label = "Artifact" <=> DOMAIN n.id = {"hex"}
         /\ n.label = "Rule" <=> DOMAIN n.id = {"hex", "rule"}
         /\ n.label = "Attestation" <=> DOMAIN n.id = {"hex", "att"}
         /\ n.label \in {"CorpusDoc", "Regime"} => n = Node(n.label, Name(n.id.name))
<1>1. \A x : DOMAIN Name(x) = {"name"}
  BY DEF Name
<1>2. n.label \in {"CorpusDoc", "Regime"} => DOMAIN n.id = {"name"}
  BY <1>1 DEF IsNode, NamesItself
<1>3. /\ {"name"} # {"hex"} /\ {"name"} # {"hex", "rule"} /\ {"name"} # {"hex", "att"}
      /\ {"hex"} # {"hex", "rule"} /\ {"hex"} # {"hex", "att"} /\ {"hex"} # {"hex", "intent"}
      /\ {"hex", "rule"} # {"hex", "att"} /\ {"hex", "rule"} # {"hex", "intent"}
      /\ {"hex", "att"} # {"hex", "intent"}
  <2>1. /\ "name" \notin {"hex", "rule", "att"}
        /\ "rule" \in {"hex", "rule"} /\ "rule" \notin {"hex", "att", "intent"}
        /\ "att" \in {"hex", "att"} /\ "att" \notin {"hex", "rule", "intent"}
        /\ "intent" \in {"hex", "intent"} /\ "intent" \notin {"hex", "rule", "att"}
    OBVIOUS
  <2> QED BY <2>1
<1> QED BY <1>2, <1>3 DEF IsNode, NamesItself

(* blast_radius of a document.                                             *)
LEMMA BlastAgrees ==
  ASSUME NEW graph, IsGraph(graph), NEW d, Node("CorpusDoc", Name(d)) \in graph.nodes
  PROVE  CypherBlast(Load(graph), d, {}) = BlastRadius(graph, d, {})
<1> DEFINE edges == ToSet(graph.edges)
           citing == { e.from : e \in { c \in edges :
                         /\ IsCitation(c.label) /\ c.to = Name(d)
                         /\ {} \subseteq c.article } }
           artifacts == { e.from : e \in { c \in edges :
                            c.label = "CONTAINS" /\ c.to \in citing } }
           atts == { e.to : e \in { c \in edges :
                       c.label = "ATTESTED_BY" /\ c.from \in artifacts } }
           rels == Load(graph)
           doc == Node("CorpusDoc", Name(d))
           Citing == { r.from : r \in { q \in rels :
                         /\ q.type \in {"CITES", "SPANS"}
                         /\ q.to = Node("CorpusDoc", Name(d))
                         /\ {} \subseteq q.article } }
           Artifacts == { r.from : r \in { q \in rels :
                            /\ q.type = "CONTAINS" /\ q.to \in Citing
                            /\ q.from.label = "Artifact" } }
           Atts == { r.to : r \in { q \in rels : /\ q.type = "ATTESTED_BY"
                                                 /\ q.from \in Artifacts
                                                 /\ q.to.label = "Attestation" } }
           N == graph.nodes
<1>1. BlastRadius(graph, d, {}) = citing \cup artifacts \cup atts
  BY Zenon DEF BlastRadius
<1>2. CypherBlast(rels, d, {}) = { n.id : n \in Citing \cup Artifacts \cup Atts }
  BY Zenon DEF CypherBlast
<1>3. \A x : x \in citing <=> \E l \in {"CITES", "SPANS"} : Linked(graph, x, l, Name(d))
  BY DEF Linked, IsCitation
<1> HIDE DEF citing
<1>4. \A x : x \in artifacts <=> \E y \in citing : Linked(graph, x, "CONTAINS", y)
  BY DEF Linked
<1> HIDE DEF artifacts
<1>5. \A x : x \in atts <=> \E y \in artifacts : Linked(graph, y, "ATTESTED_BY", x)
  BY DEF Linked
<1> HIDE DEF atts, edges
<1>6. \A n : n \in Citing <=> \E l \in {"CITES", "SPANS"} : Related(rels, n, l, doc)
  BY DEF Related
<1> HIDE DEF Citing
<1>7. \A n : n \in Artifacts <=> /\ n.label = "Artifact"
                                 /\ \E m \in Citing : Related(rels, n, "CONTAINS", m)
  BY DEF Related
<1> HIDE DEF Artifacts
<1>8. \A n : n \in Atts <=> /\ n.label = "Attestation"
                            /\ \E m \in Artifacts : Related(rels, m, "ATTESTED_BY", n)
  BY DEF Related
<1> HIDE DEF Atts
<1>9. \A a, b, l : Related(rels, a, l, b) <=> a \in N /\ b \in N /\ Linked(graph, a.id, l, b.id)
  BY RelatedIsLinked
<1>10. doc.id = Name(d) /\ doc \in N
  BY DEF Node
<1> HIDE DEF rels, doc, N
<1>11. \A n : n \in Citing <=> n \in N /\ n.id \in citing
  BY <1>3, <1>6, <1>9, <1>10
<1>12. \A n \in N : IsNode(n)
  BY DEF IsGraph, AreNodes, N
<1>13. \A x \in citing : \E n \in N : n.id = x
  BY <1>3, LinkedNodes DEF N
<1>14. \A n : n \in Artifacts <=> n \in N /\ n.id \in artifacts
  <2>1. ASSUME NEW n \in N, n.id \in artifacts PROVE n \in Artifacts
    <3>1. PICK y \in citing : Linked(graph, n.id, "CONTAINS", y)
      BY <1>4, <2>1
    <3>2. PICK m \in N : m.id = y
      BY <1>13
    <3>3. m \in Citing /\ Related(rels, n, "CONTAINS", m)
      BY <1>9, <1>11, <3>1, <3>2
    <3>4. n.label = "Artifact"
      BY <1>12, <3>1, LabelsById, LinkedNodes
    <3> QED BY <1>7, <3>3, <3>4
  <2>2. ASSUME NEW n, n \in Artifacts PROVE n \in N /\ n.id \in artifacts
    BY <1>4, <1>7, <1>9, <1>11, <2>2
  <2> QED BY <2>1, <2>2
<1>15. \A x \in artifacts : \E n \in N : n.id = x
  BY <1>4, LinkedNodes DEF N
<1>16. \A n : n \in Atts <=> n \in N /\ n.id \in atts
  <2>1. ASSUME NEW n \in N, n.id \in atts PROVE n \in Atts
    <3>1. PICK y \in artifacts : Linked(graph, y, "ATTESTED_BY", n.id)
      BY <1>5, <2>1
    <3>2. PICK m \in N : m.id = y
      BY <1>15
    <3>3. m \in Artifacts /\ Related(rels, m, "ATTESTED_BY", n)
      BY <1>9, <1>14, <3>1, <3>2
    <3>4. n.label = "Attestation"
      BY <1>12, <3>1, LabelsById, LinkedNodes
    <3> QED BY <1>8, <3>3, <3>4
  <2>2. ASSUME NEW n, n \in Atts PROVE n \in N /\ n.id \in atts
    BY <1>5, <1>8, <1>9, <1>14, <2>2
  <2> QED BY <2>1, <2>2
<1>17. \A x \in atts : \E n \in N : n.id = x
  BY <1>5, LinkedNodes DEF N
<1>18. { n.id : n \in Citing \cup Artifacts \cup Atts } = citing \cup artifacts \cup atts
  BY <1>11, <1>13, <1>14, <1>15, <1>16, <1>17
<1> QED BY <1>1, <1>2, <1>18 DEF rels

(* What the reaching of ids and the reaching of nodes have in common: ids  *)
(* are linked when all nodes of theirs are.                                *)
Cited(graph, x, y) ==
  \E l \in {"CITES", "SPANS"} : Linked(graph, x, l, y) \/ Linked(graph, y, l, x)

Matched(graph, ends, from, near, start, close) ==
  /\ ends \subseteq graph.nodes
  /\ \A a, b \in graph.nodes : Cited(graph, a.id, b.id) => b \in ends
  /\ \A x, y : <<x, y>> \in near <=> Cited(graph, x, y)
  /\ \A a, b \in graph.nodes : <<a, b>> \in close <=> Cited(graph, a.id, b.id)
  /\ \A n \in ends : n \in start <=> n.id \in from
  /\ \A x \in from : \E n \in ends : n.id = x

LEMMA LayersAgree ==
  ASSUME NEW graph, IsGraph(graph), NEW ends, NEW from, NEW near, NEW start, NEW close,
         Matched(graph, ends, from, near, start, close), NEW g, NEW f,
         IsReach(g, Ids(graph.nodes), from, near), IsReach(f, ends, start, close)
  PROVE  \A k \in Nat : /\ \A n \in ends : n \in f[k] <=> n.id \in g[k]
                        /\ \A x \in g[k] : \E n \in ends : n.id = x
<1> DEFINE N == graph.nodes
           S == {k \in Nat : /\ \A n \in ends : n \in f[k] <=> n.id \in g[k]
                             /\ \A x \in g[k] : \E n \in ends : n.id = x}
<1>0. /\ near \subseteq Ids(N) \X Ids(N) /\ close \subseteq ends \X ends
      /\ f \in [Nat -> SUBSET ends]
      /\ IsLayers(g, from, near) /\ IsLayers(f, start, close)
  BY DEF IsReach
<1> USE DEF Matched
<1>1. 0 \in S
  BY <1>0 DEF IsLayers
<1>2. \A x, y : Cited(graph, x, y) => (\E a \in N : a.id = x) /\ (\E b \in N : b.id = y)
  BY LinkedNodes DEF Cited
<1>3. ASSUME NEW k \in Nat, k \in S PROVE k + 1 \in S
  <2>1. /\ g[k + 1] = After(g[k], near) /\ f[k + 1] = After(f[k], close)
        /\ f[k] \subseteq ends
    BY <1>0 DEF IsLayers
  <2>2. \A y : y \in g[k + 1] <=> y \in g[k] \/ \E x \in g[k] : Cited(graph, x, y)
    <3>1. \A p \in near : p = <<p[1], p[2]>>
      BY <1>0
    <3>2. \A y : y \in g[k + 1] <=> y \in g[k] \/ \E p \in near : p[1] \in g[k] /\ p[2] = y
      BY <2>1 DEF After
    <3>3. ASSUME NEW y, NEW q \in near, q[1] \in g[k], q[2] = y
          PROVE  \E x \in g[k] : Cited(graph, x, y)
      <4>1. <<q[1], y>> \in near
        BY <3>1, <3>3
      <4> QED BY <3>3, <4>1
    <3>4. ASSUME NEW y, NEW x \in g[k], Cited(graph, x, y)
          PROVE  \E q \in near : q[1] \in g[k] /\ q[2] = y
      <4>1. <<x, y>> \in near
        BY <3>4
      <4>2. <<x, y>>[1] = x /\ <<x, y>>[2] = y
        OBVIOUS
      <4> QED BY <4>1, <4>2
    <3> QED BY <3>2, <3>3, <3>4
  <2>3. \A n \in ends : n \in f[k + 1] <=>
          n \in f[k] \/ \E m \in f[k] : Cited(graph, m.id, n.id)
    <3>1. \A p \in close : p = <<p[1], p[2]>> /\ p[1] \in N /\ p[2] \in N
      BY <1>0
    <3>2. \A n : n \in f[k + 1] <=> n \in f[k] \/ \E p \in close : p[1] \in f[k] /\ p[2] = n
      BY <2>1 DEF After
    <3>3. \A m \in f[k] : m \in N
      BY <2>1
    <3>4. ASSUME NEW n \in ends, NEW q \in close, q[1] \in f[k], q[2] = n
          PROVE  \E m \in f[k] : Cited(graph, m.id, n.id)
      <4>1. <<q[1], n>> \in close /\ q[1] \in N /\ n \in N
        BY <3>1, <3>4
      <4>2. Cited(graph, q[1].id, n.id)
        BY <4>1
      <4> QED BY <3>4, <4>2
    <3>5. ASSUME NEW n \in ends, NEW m \in f[k], Cited(graph, m.id, n.id)
          PROVE  \E q \in close : q[1] \in f[k] /\ q[2] = n
      <4>1. <<m, n>> \in close
        BY <3>3, <3>5
      <4>2. <<m, n>>[1] = m /\ <<m, n>>[2] = n
        OBVIOUS
      <4> QED BY <4>1, <4>2
    <3> QED BY <3>2, <3>4, <3>5
  <2>4. ASSUME NEW n \in ends PROVE n \in f[k + 1] <=> n.id \in g[k + 1]
    <3>1. n \in f[k] <=> n.id \in g[k]
      BY <1>3
    <3>2. ASSUME NEW m \in f[k], Cited(graph, m.id, n.id) PROVE n.id \in g[k + 1]
      <4>1. m.id \in g[k]
        BY <1>3, <2>1
      <4> QED BY <2>2, <3>2, <4>1
    <3>3. ASSUME NEW x \in g[k], Cited(graph, x, n.id) PROVE n \in f[k + 1]
      <4>1. PICK m \in ends : m.id = x
        BY <1>3
      <4>2. m \in f[k]
        BY <1>3, <4>1
      <4> QED BY <2>3, <3>3, <4>1, <4>2
    <3> QED BY <2>2, <2>3, <3>1, <3>2, <3>3
  <2>5. ASSUME NEW y \in g[k + 1] PROVE \E n \in ends : n.id = y
    <3>1. CASE y \in g[k]
      BY <1>3, <3>1
    <3>2. ASSUME NEW x \in g[k], Cited(graph, x, y) PROVE \E n \in ends : n.id = y
      <4>1. PICK a \in N, b \in N : a.id = x /\ b.id = y
        BY <1>2, <3>2
      <4> QED BY <3>2, <4>1
    <3> QED BY <2>2, <3>1, <3>2
  <2> QED BY <2>4, <2>5
<1> HIDE DEF S
<1>4. Nat \subseteq S
  BY <1>1, <1>3, NatSetInduction
<1> QED BY <1>4 DEF S

(* And so, when the nodes have settled, the ids have.                      *)
LEMMA SameReach ==
  ASSUME NEW graph, NEW ends, IsFiniteSet(ends), ends \subseteq graph.nodes,
         IsFiniteSet(graph.nodes), NEW from, NEW near, NEW start, NEW close, NEW g, NEW f,
         IsLayers(g, from, near), IsReach(f, ends, start, close),
         \A k \in Nat : /\ \A n \in ends : n \in f[k] <=> n.id \in g[k]
                        /\ \A x \in g[k] : \E n \in ends : n.id = x
  PROVE  /\ \A n \in ends : n \in f[Cardinality(ends)]
                              <=> n.id \in g[Cardinality(graph.nodes)]
         /\ \A x \in g[Cardinality(graph.nodes)] : \E n \in ends : n.id = x
<1>1. PICK c, m : c = Cardinality(ends) /\ m = Cardinality(graph.nodes)
  OBVIOUS
<1>2. c \in Nat /\ m \in Nat /\ c <= m
  BY <1>1, FS_CardinalityType, FS_Subset
<1>3. f[c + 1] = f[c]
  BY <1>1, LayersSettle
<1>4. g[c + 1] = g[c]
  <2>1. g[c] \subseteq g[c + 1]
    BY <1>2 DEF IsLayers, After
  <2>2. ASSUME NEW x \in g[c + 1] PROVE x \in g[c]
    <3>1. c + 1 \in Nat
      BY <1>2
    <3>2. PICK n \in ends : n.id = x
      BY <3>1
    <3>3. n \in f[c + 1]
      BY <3>1, <3>2
    <3> QED BY <1>2, <1>3, <3>2, <3>3
  <2> QED BY <2>1, <2>2
<1>5. g[m] = g[c]
  BY <1>2, <1>4, LayersStay
<1> QED BY <1>1, <1>2, <1>5

(* What belongs to a regime.                                               *)
InRegime(graph, x, regime) ==
  \E a : Linked(graph, a, "CONTAINS", x) /\ Linked(graph, a, "IN_REGIME", Name(regime))

StoredInRegime(rels, n, regime) ==
  \E c \in rels, r \in rels :
    /\ c.type = "CONTAINS" /\ c.to = n /\ c.from.label = "Artifact"
    /\ r.type = "IN_REGIME" /\ r.from = c.from
    /\ r.to = Node("Regime", Name(regime))

LEMMA RegimesAgree ==
  ASSUME NEW graph, IsGraph(graph), NEW regime,
         Node("Regime", Name(regime)) \in graph.nodes, NEW n \in graph.nodes
  PROVE  StoredInRegime(Load(graph), n, regime) <=> InRegime(graph, n.id, regime)
<1> DEFINE rels == Load(graph)
           node == Node("Regime", Name(regime))
<1>1. StoredInRegime(rels, n, regime) <=>
        \E a : /\ a.label = "Artifact" /\ Related(rels, a, "CONTAINS", n)
               /\ Related(rels, a, "IN_REGIME", node)
  BY DEF StoredInRegime, Related
<1>2. \A a, b, l : Related(rels, a, l, b)
        <=> a \in graph.nodes /\ b \in graph.nodes /\ Linked(graph, a.id, l, b.id)
  BY RelatedIsLinked
<1>3. node.id = Name(regime) /\ node \in graph.nodes
  BY DEF Node
<1> HIDE DEF rels, node
<1>4. ASSUME InRegime(graph, n.id, regime)
      PROVE  \E a : /\ a.label = "Artifact" /\ Related(rels, a, "CONTAINS", n)
                    /\ Related(rels, a, "IN_REGIME", node)
  <2>1. PICK x : /\ Linked(graph, x, "CONTAINS", n.id)
                 /\ Linked(graph, x, "IN_REGIME", Name(regime))
    BY <1>4 DEF InRegime
  <2>2. PICK a \in graph.nodes : a.id = x
    BY <2>1, LinkedNodes
  <2>3. DOMAIN x = {"hex"}
    BY <2>1, LinkedNodes
  <2>4. a.label = "Artifact"
    BY <2>2, <2>3, LabelsById DEF IsGraph, AreNodes
  <2> QED BY <1>2, <1>3, <2>1, <2>2, <2>4
<1>5. ASSUME NEW a, Related(rels, a, "CONTAINS", n), Related(rels, a, "IN_REGIME", node)
      PROVE  InRegime(graph, n.id, regime)
  BY <1>2, <1>3, <1>5 DEF InRegime
<1> QED BY <1>1, <1>4, <1>5 DEF rels

(* conflict_exposure of one regime to another.                             *)
LEMMA ExposureAgrees ==
  ASSUME NEW graph, IsGraph(graph), NEW source, NEW target,
         Node("Regime", Name(source)) \in graph.nodes,
         Node("Regime", Name(target)) \in graph.nodes
  PROVE  CypherExposure(Load(graph), source, target)
           = ConflictExposure(graph, source, target)
<1> DEFINE N == graph.nodes
           edges == ToSet(graph.edges)
           inRegime(node, regime) ==
             \E c \in edges, r \in edges :
               /\ c.label = "CONTAINS" /\ c.to = node
               /\ r.label = "IN_REGIME" /\ r.from = c.from /\ r.to = Name(regime)
           cited == { e \in edges : IsCitation(e.label) }
           near == { <<e.from, e.to>> : e \in cited } \cup
                   { <<e.to, e.from>> : e \in cited }
           from == { n.id : n \in { m \in graph.nodes :
                       m.label = "Rule" /\ inRegime(m.id, source) } }
           reached == Closure(from, near, Cardinality(graph.nodes))
           hops == UNION { {<<e.from, e.to>>, <<e.to, e.from>>} :
                             e \in { d \in edges : d.label = "CONFLICTS_WITH" } }
           exposed == { h[2] : h \in { k \in hops :
                          k[1] \in reached /\ inRegime(k[2], target) } }
           rels == Load(graph)
           ends == { r.from : r \in rels } \cup { r.to : r \in rels }
           rules == { n \in ends : n.label = "Rule" }
           Citing == { r \in rels : r.type \in {"CITES", "SPANS"} }
           close == { <<r.from, r.to>> : r \in Citing } \cup
                    { <<r.to, r.from>> : r \in Citing }
           start == { n \in rules : StoredInRegime(rels, n, source) }
           Reached == Closure(start, close, Cardinality(ends)) \cap rules
           Exposed == { c.id : c \in { n \in rules :
                          /\ StoredInRegime(rels, n, target)
                          /\ \E r \in rels : /\ r.type = "CONFLICTS_WITH"
                                             /\ \/ r.from \in Reached /\ r.to = n
                                                \/ r.to \in Reached /\ r.from = n } }
           Conflict(x, y) == \/ Linked(graph, x, "CONFLICTS_WITH", y)
                             \/ Linked(graph, y, "CONFLICTS_WITH", x)
<1>1. ConflictExposure(graph, source, target) = exposed
  BY Zenon DEF ConflictExposure
<1>2. CypherExposure(rels, source, target) = Exposed
  BY Zenon DEF CypherExposure, StoredInRegime
<1>3. \A x, regime : inRegime(x, regime) <=> InRegime(graph, x, regime)
  BY DEF InRegime, Linked
<1> HIDE DEF inRegime
<1>4. \A a, b, l : Related(rels, a, l, b)
        <=> a \in N /\ b \in N /\ Linked(graph, a.id, l, b.id)
  BY RelatedIsLinked
<1>5. \A r \in rels : r.from \in N /\ r.to \in N
  <2>1. \A r \in rels : Related(rels, r.from, r.type, r.to)
    BY DEF Related
  <2> QED BY <1>4, <2>1
<1> HIDE DEF rels
<1>6. \A x, l, y : Linked(graph, x, l, y) => x \in Ids(N) /\ y \in Ids(N)
  BY LinkedNodes DEF Ids
<1>7. near \subseteq Ids(N) \X Ids(N) /\ \A x, y : <<x, y>> \in near <=> Cited(graph, x, y)
  <2>1. \A x, y : <<x, y>> \in near <=> Cited(graph, x, y)
    BY DEF Cited, Linked, IsCitation
  <2>2. \A p \in near : p = <<p[1], p[2]>>
    OBVIOUS
  <2> HIDE DEF near
  <2>3. ASSUME NEW p \in near PROVE p \in Ids(N) \X Ids(N)
    <3>1. Cited(graph, p[1], p[2])
      BY <2>1, <2>2
    <3>2. p[1] \in Ids(N) /\ p[2] \in Ids(N)
      BY <1>6, <3>1 DEF Cited
    <3> QED BY <2>2, <3>2
  <2> QED BY <2>1, <2>3
<1>8. /\ \A x, y : <<x, y>> \in hops <=> Conflict(x, y)
      /\ \A p \in hops : p = <<p[1], p[2]>>
  <2>1. \A x, y : <<x, y>> \in hops <=> Conflict(x, y)
    BY DEF Linked
  <2>2. \A p \in hops : p = <<p[1], p[2]>>
    OBVIOUS
  <2> QED BY <2>1, <2>2
<1> HIDE DEF near, hops, edges
<1>9. ends \subseteq N /\ \A a, b, l : Related(rels, a, l, b) => a \in ends /\ b \in ends
  BY <1>5 DEF Related
<1>10. IsFiniteSet(N) /\ IsFiniteSet(ends) /\ \A n \in N : IsNode(n)
  BY <1>9, FS_Subset DEF IsGraph, AreNodes
<1>11. /\ close \subseteq ends \X ends
       /\ \A a, b \in N : <<a, b>> \in close <=> Cited(graph, a.id, b.id)
  <2>1. \A a, b : <<a, b>> \in close <=>
          \E l \in {"CITES", "SPANS"} : Related(rels, a, l, b) \/ Related(rels, b, l, a)
    BY DEF Related
  <2>2. close \subseteq ends \X ends
    OBVIOUS
  <2> HIDE DEF close
  <2> QED BY <1>4, <2>1, <2>2 DEF Cited
<1> HIDE DEF close, ends
<1>12. \A l : \A a, b \in N : Linked(graph, a.id, l, b.id) => a \in ends /\ b \in ends
  BY <1>4, <1>9
<1>13. ASSUME NEW regime, NEW n \in N, InRegime(graph, n.id, regime)
       PROVE  n \in ends
  <2>1. PICK x : Linked(graph, x, "CONTAINS", n.id)
    BY <1>13 DEF InRegime
  <2>2. PICK a \in N : a.id = x
    BY <2>1, LinkedNodes
  <2> QED BY <1>12, <2>1, <2>2
<1>14. ASSUME NEW n \in N, NEW m \in N, n.id = m.id, m.label = "Rule"
       PROVE  n.label = "Rule"
  BY <1>10, <1>14, LabelsById
<1>15. /\ \A n \in N : StoredInRegime(rels, n, source) <=> InRegime(graph, n.id, source)
       /\ \A n \in N : StoredInRegime(rels, n, target) <=> InRegime(graph, n.id, target)
  BY RegimesAgree DEF rels
<1>16. \A n \in ends : n \in start <=> n.id \in from
  BY <1>3, <1>9, <1>14, <1>15
<1>17. \A x \in from : \E n \in ends : n.id = x
  BY <1>3, <1>13
<1>18. from \subseteq Ids(N) /\ start \subseteq ends
  BY DEF Ids
<1> HIDE DEF from, start
<1>19. PICK g : IsReach(g, Ids(N), from, near)
  BY <1>7, <1>18, LayersExist
<1>20. PICK f : IsReach(f, ends, start, close)
  BY <1>11, <1>18, LayersExist
<1>21. PICK c \in Nat, m \in Nat : c = Cardinality(ends) /\ m = Cardinality(N)
  BY <1>10, FS_CardinalityType
<1>22. reached = g[m]
  <2> HIDE DEF N
  <2>1. Closure(from, near, m) = g[m]
    BY <1>19, ClosureIsLayer
  <2> QED BY <1>21, <2>1 DEF reached, N
<1>23. Reached = f[c] \cap rules
  <2>1. Closure(start, close, c) = f[c]
    BY <1>20, ClosureIsLayer
  <2> QED BY <1>21, <2>1
<1>24. \A a, b \in N : Cited(graph, a.id, b.id) => b \in ends
  BY <1>12 DEF Cited
<1>25. \A k \in Nat : /\ \A n \in ends : n \in f[k] <=> n.id \in g[k]
                      /\ \A x \in g[k] : \E n \in ends : n.id = x
  <2>1. Matched(graph, ends, from, near, start, close)
    BY <1>7, <1>9, <1>11, <1>16, <1>17, <1>24 DEF Matched
  <2> QED BY <1>19, <1>20, <2>1, LayersAgree
<1>26. /\ \A n \in ends : n \in f[c] <=> n.id \in g[m]
       /\ \A x \in g[m] : \E n \in ends : n.id = x
  BY <1>9, <1>10, <1>19, <1>20, <1>21, <1>25, SameReach DEF IsReach
<1>27. \A y : y \in exposed <=>
         \E x \in g[m] : Conflict(x, y) /\ InRegime(graph, y, target)
  <2> HIDE DEF Conflict, reached
  <2>1. \A y : y \in exposed <=>
          \E h \in hops : h[1] \in g[m] /\ InRegime(graph, h[2], target) /\ h[2] = y
    BY <1>3, <1>22
  <2>2. ASSUME NEW y, NEW x \in g[m], Conflict(x, y), InRegime(graph, y, target)
        PROVE  \E h \in hops : h[1] \in g[m] /\ InRegime(graph, h[2], target) /\ h[2] = y
    <3>1. <<x, y>> \in hops /\ <<x, y>>[1] = x /\ <<x, y>>[2] = y
      BY <1>8, <2>2
    <3> QED BY <2>2, <3>1
  <2>3. ASSUME NEW h \in hops, h[1] \in g[m]
        PROVE  Conflict(h[1], h[2])
    BY <1>8
  <2> HIDE DEF exposed
  <2> QED BY <2>1, <2>2, <2>3
<1>28. \A n : n \in rules <=> n \in ends /\ n.label = "Rule"
  OBVIOUS
<1> HIDE DEF exposed, reached, Reached, rules
<1>29. \A y : y \in Exposed <=>
         \E n \in rules : /\ n.id = y /\ InRegime(graph, y, target)
                          /\ \E a \in f[c] \cap rules : Conflict(a.id, y)
  <2>1. \A y : y \in Exposed <=>
          \E n \in rules : /\ n.id = y /\ StoredInRegime(rels, n, target)
                           /\ \E a \in f[c] \cap rules :
                                \/ Related(rels, a, "CONFLICTS_WITH", n)
                                \/ Related(rels, n, "CONFLICTS_WITH", a)
    BY <1>23 DEF Related
  <2> HIDE DEF Exposed
  <2>2. \A n \in rules, a \in rules :
          Related(rels, a, "CONFLICTS_WITH", n) \/ Related(rels, n, "CONFLICTS_WITH", a)
            <=> Conflict(a.id, n.id)
    BY <1>4, <1>9, <1>28
  <2>3. \A n \in rules : StoredInRegime(rels, n, target) <=> InRegime(graph, n.id, target)
    BY <1>9, <1>15, <1>28
  <2> HIDE DEF Conflict
  <2> QED BY <2>1, <2>2, <2>3
<1> HIDE DEF Exposed
<1>30. ASSUME NEW y, NEW x \in g[m], Conflict(x, y), InRegime(graph, y, target)
       PROVE  \E n \in rules : n.id = y /\ \E a \in f[c] \cap rules : Conflict(a.id, y)
  <2>1. DOMAIN x = {"hex", "rule"} /\ DOMAIN y = {"hex", "rule"}
    BY <1>30, LinkedNodes
  <2>2. PICK a \in ends : a.id = x
    BY <1>26
  <2>3. PICK n \in N : n.id = y
    BY <1>30, LinkedNodes
  <2>4. n \in ends
    BY <1>13, <1>30, <2>3
  <2>5. a.label = "Rule" /\ n.label = "Rule"
    BY <1>9, <1>10, <2>1, <2>2, <2>3, LabelsById
  <2>6. a \in f[c] /\ a \in rules /\ n \in rules
    BY <1>26, <1>28, <2>2, <2>4, <2>5
  <2> HIDE DEF Conflict
  <2> QED BY <1>30, <2>2, <2>3, <2>6
<1>31. ASSUME NEW a \in f[c] \cap rules PROVE a.id \in g[m]
  BY <1>26, <1>28
<1> HIDE DEF Conflict
<1>32. exposed = Exposed
  <2>1. \A y \in exposed : y \in Exposed
    BY <1>27, <1>29, <1>30
  <2>2. \A y \in Exposed : y \in exposed
    BY <1>27, <1>29, <1>31
  <2> QED BY <2>1, <2>2
<1> QED BY <1>1, <1>2, <1>32 DEF rels

-----------------------------------------------------------------------------
(* Every step.                                                             *)

GraphInv ==
  /\ AcceptanceInv
  /\ \A e \in made : Projectable(e)
  /\ GraphIsTheUnion
  /\ answer.what = "graph" => IsGraph(answer.graph)

(* The files that are stored are as many as places, at most.               *)
LEMMA StoredAreFinite ==
  ASSUME FilesInv
  PROVE  IsFiniteSet(UNION { file[p] : p \in Place })
<1>1. PICK stored : stored = UNION { file[p] : p \in Place }
  OBVIOUS
<1> DEFINE used == { p \in Place : file[p] # {} }
           one == [p \in used |-> CHOOSE f \in file[p] : TRUE]
<1>2. IsFiniteSet(used)
  BY PlaceAssumption, FS_Subset
<1>3. \A p \in used : one[p] \in file[p]
  OBVIOUS
<1>4. DOMAIN one = used /\ IsFiniteSet({one[p] : p \in DOMAIN one})
  <2>1. DOMAIN one = used
    OBVIOUS
  <2> HIDE DEF one
  <2> QED BY <1>2, <2>1, ImageIsFinite
<1>5. \A p \in Place : \A f \in file[p] : p \in used /\ f = one[p]
  BY <1>3 DEF FilesInv, OneFileEach
<1> HIDE DEF one, used
<1>6. stored \subseteq {one[p] : p \in DOMAIN one}
  BY <1>1, <1>4, <1>5
<1> QED BY <1>1, <1>4, <1>6, FS_Subset

LEMMA ExportWritesTheUnion ==
  ASSUME GraphInv, NEW env \in Env, GraphExport(env)
  PROVE  GraphIsTheUnion' /\ IsGraph(answer'.graph)
<1> DEFINE stored == UNION { file[p] : p \in Place }
           chosen == { f \in stored : Admitted(f, env) }
<1>1. answer' = [ what |-> "graph", env |-> env, exported |-> chosen,
                  graph |-> MergedGraph(SetToSeq(chosen)) ]
  BY Zenon DEF GraphExport, MergedGraph, NoGraph
<1>2. PICK order, graph : order = SetToSeq(chosen) /\ graph = MergedGraph(order)
  OBVIOUS
<1>3. IsSeq(order) /\ ToSet(order) = chosen /\ IsFiniteSet(chosen)
  <2>1. IsFiniteSet(stored)
    BY StoredAreFinite DEF GraphInv, AcceptanceInv
  <2>2. IsFiniteSet(chosen)
    BY <2>1, FS_Subset
  <2> HIDE DEF chosen
  <2> QED BY <1>2, <2>2, SetHasSeq, SeqIsSeq
<1>4. ASSUME NEW f \in chosen
      PROVE  /\ Joins(ProjectionOf(f.kew).edges, ProjectionOf(f.kew).nodes)
             /\ AreNodes(ProjectionOf(f.kew).nodes)
  <2>1. PICK p \in Place : f \in file[p]
    OBVIOUS
  <2>2. FilesInv
    BY DEF GraphInv, AcceptanceInv
  <2>3. f.kew.envelope \in made
    <3>1. OnlineOutcome(f, env, StrictPolicy(PolicyForKind(
            f.kew.envelope.manifest.artifact_kind))).verdict.verified
      BY Zenon DEF Admitted
    <3> QED BY <2>1, <2>2, <3>1, OnlineIsAsMade DEF AsMade
  <2>4. IsSeq(f.kew.attestations)
    BY <2>1, <2>2 DEF FilesInv, Bytes, IsKew
  <2>5. Projectable(f.kew.envelope)
    BY <2>3 DEF GraphInv
  <2> QED BY <2>4, <2>5, ProjectionJoins, ProjectionNodes
<1> HIDE DEF chosen
<1>5. \A i \in DOMAIN order : order[i] \in chosen
  BY <1>3 DEF ToSet
<1>6. /\ graph.nodes = UNION { ProjectionOf(order[i].kew).nodes : i \in DOMAIN order }
      /\ ToSet(graph.edges) =
           UNION { ToSet(ProjectionOf(order[i].kew).edges) : i \in DOMAIN order }
  <2>1. \A i \in DOMAIN order : IsSeq(ProjectionOf(order[i].kew).edges)
    BY <1>4, <1>5 DEF Joins
  <2> QED BY <1>2, <1>3, <2>1, MergedIsUnion
<1>7. /\ { ProjectionOf(order[i].kew).nodes : i \in DOMAIN order }
           = { ProjectionOf(f.kew).nodes : f \in chosen }
      /\ { ToSet(ProjectionOf(order[i].kew).edges) : i \in DOMAIN order }
           = { ToSet(ProjectionOf(f.kew).edges) : f \in chosen }
  <2>1. \A f \in chosen : \E i \in DOMAIN order : f = order[i]
    BY <1>3 DEF ToSet
  <2>2. { ProjectionOf(order[i].kew).nodes : i \in DOMAIN order }
          = { ProjectionOf(f.kew).nodes : f \in chosen }
    BY <1>5, <2>1
  <2>3. { ToSet(ProjectionOf(order[i].kew).edges) : i \in DOMAIN order }
          = { ToSet(ProjectionOf(f.kew).edges) : f \in chosen }
    BY <1>5, <2>1
  <2> QED BY <2>2, <2>3
<1>8. ASSUME NEW e \in ToSet(graph.edges)
      PROVE  Fits(e, graph.nodes)
  <2>1. PICK f \in chosen : e \in ToSet(ProjectionOf(f.kew).edges)
    BY <1>6, <1>7
  <2>2. PICK nodes : nodes = ProjectionOf(f.kew).nodes
    OBVIOUS
  <2>3. Fits(e, nodes)
    BY <1>4, <2>1, <2>2 DEF Joins
  <2>4. nodes \subseteq graph.nodes
    BY <1>6, <1>7, <2>2
  <2> QED BY <2>3, <2>4 DEF Fits, Ids
<1>9. answer'.exported = chosen /\ answer'.graph = graph
  BY <1>1, <1>2
<1>10. Joins(graph.edges, graph.nodes)
  <2>1. IsSeq(graph.edges)
    <3>1. \A i \in DOMAIN order : IsSeq(ProjectionOf(order[i].kew).edges)
      BY <1>4, <1>5 DEF Joins
    <3> QED BY <1>2, <1>3, <3>1, MergedIsUnion
  <2> QED BY <1>8, <2>1 DEF Joins
<1>11. AreNodes(graph.nodes)
  <2> DEFINE h == [f \in chosen |-> ProjectionOf(f.kew).nodes]
             all == { h[f] : f \in DOMAIN h }
  <2>1. /\ all = { ProjectionOf(f.kew).nodes : f \in chosen }
        /\ DOMAIN h = chosen /\ \A f \in chosen : h[f] = ProjectionOf(f.kew).nodes
    OBVIOUS
  <2> HIDE DEF h
  <2>2. IsFiniteSet(all)
    BY <1>3, <2>1, ImageIsFinite
  <2>3. \A nodes \in all : AreNodes(nodes)
    BY <1>4, <2>1
  <2>4. graph.nodes = UNION all
    BY <1>6, <1>7, <2>1
  <2> HIDE DEF all
  <2>5. IsFiniteSet(graph.nodes)
    BY <2>2, <2>3, <2>4, FS_UNION DEF AreNodes
  <2> QED BY <2>3, <2>4, <2>5 DEF AreNodes
<1>12. \A e \in ToSet(graph.edges) :
         \E a, b \in graph.nodes : a.id = e.from /\ b.id = e.to
  BY <1>8 DEF Fits, Ids
<1>13. GraphIsTheUnion'
  BY <1>6, <1>7, <1>9, <1>12 DEF GraphIsTheUnion
<1> QED BY <1>9, <1>10, <1>11, <1>13 DEF IsGraph

LEMMA GraphInvInit == Init => GraphInv
<1>1. Init => answer.what = "idle" /\ made = {}
  BY DEF Init, Idle
<1> QED BY <1>1, AcceptanceInvInit DEF GraphInv, GraphIsTheUnion

LEMMA GraphInvStep == GraphInv /\ [Next]_vars => GraphInv'
<1> SUFFICES ASSUME GraphInv, [Next]_vars PROVE GraphInv'
  OBVIOUS
<1>1. AcceptanceInv'
  BY AcceptanceInvStep DEF GraphInv
<1>2. (\A e \in made : Projectable(e))'
  BY ProjectableStep DEF GraphInv
<1>3. GraphIsTheUnion' /\ (answer'.what = "graph" => IsGraph(answer'.graph))
  <2>1. CASE vars' = vars
    <3>1. answer' = answer
      BY <2>1 DEF vars
    <3> QED BY <3>1 DEF GraphInv, GraphIsTheUnion
  <2>2. CASE answer' = Idle
    <3>1. answer'.what = "idle"
      BY <2>2 DEF Idle
    <3> QED BY <3>1 DEF GraphIsTheUnion
  <2>3. ASSUME NEW p \in Place, Import(p) \/ Serve(p)
        PROVE  GraphIsTheUnion' /\ (answer'.what = "graph" => IsGraph(answer'.graph))
    <3>1. answer'.what # "graph"
      <4>1. CASE Import(p)
        <5>1. \E what \in {"imported", "refused"} : \E outcome :
                answer' = [what |-> what, at |-> p, outcome |-> outcome]
          BY <4>1, Zenon DEF Import
        <5> QED BY <5>1
      <4>2. CASE Serve(p)
        <5>1. \/ answer' = [what |-> "error", at |-> p]
              \/ \E env, policy, outcome :
                   answer' = [ what |-> "served", at |-> p, env |-> env,
                               policy |-> policy, outcome |-> outcome ]
          BY <4>2, Zenon DEF Serve
        <5> QED BY <5>1
      <4> QED BY <2>3, <4>1, <4>2
    <3> QED BY <3>1 DEF GraphIsTheUnion
  <2>4. ASSUME NEW env \in Env, GraphExport(env)
        PROVE  GraphIsTheUnion' /\ (answer'.what = "graph" => IsGraph(answer'.graph))
    BY <2>4, ExportWritesTheUnion
  <2> QED BY <2>1, <2>2, <2>3, <2>4, OtherwiseIdle
<1> QED BY <1>1, <1>2, <1>3 DEF GraphInv

(* Graph::merge and extract_graph: the exported graph is the union of the  *)
(* projections of the admitted artifacts, whatever order they were read    *)
(* in, and every edge of it ends in its nodes.                             *)
THEOREM TheGraphIsTheUnion == Spec => []GraphIsTheUnion
<1>1. GraphInv => GraphIsTheUnion
  BY DEF GraphInv
<1> QED BY <1>1, GraphInvInit, GraphInvStep, PTL DEF Spec

(* graph-differential.sh, for every graph that is exported: the queries    *)
(* give on the loaded store what their oracles give on the graph.          *)
THEOREM TheStoreAgreesWithTheOracles == Spec => []StoreAgreesWithOracles
<1>1. GraphInv => StoreAgreesWithOracles
  <2> SUFFICES ASSUME GraphInv, answer.what = "graph" PROVE StoreAgreesWithOracles
    BY DEF StoreAgreesWithOracles
  <2>1. PICK graph : graph = answer.graph
    OBVIOUS
  <2>2. IsGraph(graph)
    BY <2>1 DEF GraphInv
  <2>3. ASSUME NEW n \in graph.nodes, n.label \in {"CorpusDoc", "Regime"}
        PROVE  Node(n.label, Name(n.id.name)) \in graph.nodes
    <3>1. n = Node(n.label, Name(n.id.name))
      BY <2>2, <2>3, LabelsById DEF IsGraph, AreNodes
    <3> QED BY <3>1
  <2>4. \A d \in Documents : Node("CorpusDoc", Name(d)) \in graph.nodes
    BY <2>1, <2>3 DEF Documents
  <2>5. \A r \in Regimes : Node("Regime", Name(r)) \in graph.nodes
    BY <2>1, <2>3 DEF Regimes
  <2>6. \A d \in Documents : CypherBlast(Load(graph), d, {}) = BlastRadius(graph, d, {})
    BY <2>2, <2>4, BlastAgrees
  <2>7. \A r, t \in Regimes :
          CypherExposure(Load(graph), r, t) = ConflictExposure(graph, r, t)
    BY <2>2, <2>5, ExposureAgrees
  <2> QED BY <2>1, <2>6, <2>7 DEF StoreAgreesWithOracles
<1> QED BY <1>1, GraphInvInit, GraphInvStep, PTL DEF Spec

=============================================================================
