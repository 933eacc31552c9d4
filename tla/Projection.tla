----------------------------- MODULE Projection -----------------------------
(***************************************************************************)
(* The graph of verified artifacts (ke-cli graph/mod.rs): the projection   *)
(* of one artifact, the merge of several, the Cypher script with what a    *)
(* graph store holds after running it, and the two queries that are asked  *)
(* of both. Node ids are strings in the code: a document and a regime are  *)
(* named by one each, everything else by the artifact's hash and more.     *)
(***************************************************************************)
EXTENDS Envelope

CONSTANT T4Conflicts    \* pairs of rule ids that T4 finds in conflict

(* A report is finite.                                                     *)
ASSUME ConflictsAssumption == IsFiniteSet(T4Conflicts)

Name(s)         == [name |-> s]
ArtifactId(hex) == [hex |-> hex]
RuleNodeId(hex, ruleId) == [hex |-> hex, rule |-> ruleId]

Node(label, id) == [label |-> label, id |-> id]

(* Of the properties of an edge, `article` stands for all.                 *)
Edge(label, from, to, article) ==
  [label |-> label, from |-> from, to |-> to, article |-> article]

SpanEdge(from, span) == Edge("SPANS", from, Name(span.document), span.article)

(* extract_graph, part by part: artifact and regime, attestations, rules   *)
(* with what they cite and span, the intent specification.                 *)
AttestationPart(artifact, hex) ==
  LET id(i) == [hex |-> hex, att |-> i] IN
  [ nodes |-> { Node("Attestation", id(i)) : i \in DOMAIN artifact.attestations },
    edges |-> [ i \in DOMAIN artifact.attestations |->
                  Edge("ATTESTED_BY", ArtifactId(hex), id(i), {}) ] ]

RulesPart(artifact, hex) ==
  LET rules == artifact.payload.rules
      id(rule) == RuleNodeId(hex, rule.rule_id)
      cited(rule) == Text[rule.rule_id].source
      entries == SetToSeq(artifact.index)
  IN
  [ nodes |-> { Node("Rule", id(rules[i])) : i \in DOMAIN rules }
       \cup { Node("CorpusDoc", Name(cited(rules[i]).document)) : i \in DOMAIN rules }
       \cup UNION { { Node("CorpusDoc", Name(entry.spans[i].document)) :
                        i \in DOMAIN entry.spans } : entry \in artifact.index },
    edges |->
      FlattenSeq([ i \in DOMAIN rules |->
        << Edge("CONTAINS", ArtifactId(hex), id(rules[i]), {}),
           Edge("CITES", id(rules[i]), Name(cited(rules[i]).document),
                cited(rules[i]).article) >> ])
      \o FlattenSeq([ j \in DOMAIN entries |->
           [ i \in DOMAIN entries[j].spans |->
               SpanEdge(id(entries[j]), entries[j].spans[i]) ] ]) ]

IntentPart(spec, hex) ==
  LET id == [hex |-> hex, intent |-> spec.action_class] IN
  [ nodes |-> {Node("IntentSpec", id)} \cup
       { Node("CorpusDoc", Name(spec.spans[i].document)) : i \in DOMAIN spec.spans },
    edges |-> <<Edge("CONTAINS", ArtifactId(hex), id, {})>> \o
       [ i \in DOMAIN spec.spans |-> SpanEdge(id, spec.spans[i]) ] ]

ExtractGraph(artifact) ==
  LET hex == artifact.manifest.artifact_hash
      regime == Name(artifact.manifest.regime_id)
      atts == AttestationPart(artifact, hex)
      body == IF "rules" \in DOMAIN artifact.payload
              THEN RulesPart(artifact, hex)
              ELSE IntentPart(artifact.payload.intent, hex)
  IN
  [ nodes |-> {Node("Artifact", ArtifactId(hex)), Node("Regime", regime)}
              \cup atts.nodes \cup body.nodes,
    edges |-> <<Edge("IN_REGIME", ArtifactId(hex), regime, {})>>
              \o atts.edges \o body.edges ]

(* conflict_edges: the conflicts of one payload, once each.                *)
ConflictEdges(hex, rules) ==
  LET ids == { rules[i].rule_id : i \in DOMAIN rules }
      pairs == SetToSeq({ p \in T4Conflicts : p[1] \in ids /\ p[2] \in ids })
  IN  [ i \in DOMAIN pairs |-> Edge("CONFLICTS_WITH", RuleNodeId(hex, pairs[i][1]),
                                    RuleNodeId(hex, pairs[i][2]), {}) ]

(* A mutant: an edge is recognised by its ends alone.                      *)
MergeByEnds(graph, other) ==
  [ nodes |-> graph.nodes \cup other.nodes,
    edges |-> FoldLeft(LAMBDA seen, e :
                IF \E d \in ToSet(seen) : d.from = e.from /\ d.to = e.to
                THEN seen ELSE Append(seen, e), graph.edges, other.edges) ]

(* Graph::merge: nodes by label and id, edges exactly.                     *)
Merge(graph, other) ==
  [ nodes |-> graph.nodes \cup other.nodes,
    edges |-> FoldLeft(LAMBDA seen, e :
                IF e \in ToSet(seen) THEN seen ELSE Append(seen, e),
                graph.edges, other.edges) ]

-----------------------------------------------------------------------------
(* The queries, on the exported graph.                                     *)

(* A mutant: documents are reached by citation only.                       *)
IsCitationCitesOnly(label) == label = "CITES"

IsCitation(label) == label \in {"CITES", "SPANS"}

(* blast_radius of a document, or of an article of it.                     *)
BlastRadius(graph, document, article) ==
  LET edges == ToSet(graph.edges)
      citing == { e.from : e \in { d \in edges :
                    /\ IsCitation(d.label) /\ d.to = Name(document)
                    /\ article \subseteq d.article } }
      artifacts == { e.from : e \in { d \in edges :
                       d.label = "CONTAINS" /\ d.to \in citing } }
  IN  citing \cup artifacts \cup
      { e.to : e \in { d \in edges :
          d.label = "ATTESTED_BY" /\ d.from \in artifacts } }

(* Breadth first, a layer at a time, over a symmetric relation.            *)
Closure(start, related, size) ==
  FoldLeft(LAMBDA reached, layer :
             reached \cup { p[2] : p \in { q \in related : q[1] \in reached } },
           start, [layer \in 1..size |-> layer])

(* conflict_exposure: rules of the target regime one conflict away from    *)
(* what the source regime's rules reach through shared documents.          *)
ConflictExposure(graph, source, target) ==
  LET edges == ToSet(graph.edges)
      inRegime(node, regime) ==
        \E c \in edges, r \in edges :
          /\ c.label = "CONTAINS" /\ c.to = node
          /\ r.label = "IN_REGIME" /\ r.from = c.from /\ r.to = Name(regime)
      cited == { e \in edges : IsCitation(e.label) }
      related == { <<e.from, e.to>> : e \in cited } \cup
                 { <<e.to, e.from>> : e \in cited }
      start == { n.id : n \in { m \in graph.nodes :
                   m.label = "Rule" /\ inRegime(m.id, source) } }
      reached == Closure(start, related, Cardinality(graph.nodes))
      hops == UNION { {<<e.from, e.to>>, <<e.to, e.from>>} :
                        e \in { d \in edges : d.label = "CONFLICTS_WITH" } }
  IN  { h[2] : h \in { k \in hops : k[1] \in reached /\ inRegime(k[2], target) } }

-----------------------------------------------------------------------------
(* The graph store after the rendered script (external: Neo4j). An edge is *)
(* matched to its ends by id, whatever their labels; MERGE keeps one       *)
(* relationship per type and pair of nodes, and SET overwrites.            *)

Load(graph) ==
  LET ends(e) == { p \in graph.nodes \X graph.nodes :
                     p[1].id = e.from /\ p[2].id = e.to }
      written(e) == { i \in DOMAIN graph.edges :
                        LET d == graph.edges[i] IN
                        /\ d.label = e.label /\ d.from = e.from /\ d.to = e.to
                        /\ d.article # {} }
      article(e) == IF written(e) = {} THEN {}
                    ELSE graph.edges[Max(written(e))].article
  IN  UNION { { [type |-> e.label, from |-> p[1], to |-> p[2],
                 article |-> article(e)] : p \in ends(e) } :
                e \in ToSet(graph.edges) }

CypherBlast(rels, document, article) ==
  LET citing == { r.from : r \in { q \in rels :
                    /\ q.type \in {"CITES", "SPANS"}
                    /\ q.to = Node("CorpusDoc", Name(document))
                    /\ article \subseteq q.article } }
      artifacts == { r.from : r \in { q \in rels :
                       /\ q.type = "CONTAINS" /\ q.to \in citing
                       /\ q.from.label = "Artifact" } }
  IN  { n.id : n \in citing \cup artifacts \cup
          { r.to : r \in { q \in rels : /\ q.type = "ATTESTED_BY"
                                        /\ q.from \in artifacts
                                        /\ q.to.label = "Attestation" } } }

CypherExposure(rels, source, target) ==
  LET inRegime(n, regime) ==
        \E c \in rels, r \in rels :
          /\ c.type = "CONTAINS" /\ c.to = n /\ c.from.label = "Artifact"
          /\ r.type = "IN_REGIME" /\ r.from = c.from
          /\ r.to = Node("Regime", Name(regime))
      ends == { r.from : r \in rels } \cup { r.to : r \in rels }
      rules == { n \in ends : n.label = "Rule" }
      cited == { r \in rels : r.type \in {"CITES", "SPANS"} }
      related == { <<r.from, r.to>> : r \in cited } \cup
                 { <<r.to, r.from>> : r \in cited }
      reached == Closure({ n \in rules : inRegime(n, source) }, related,
                         Cardinality(ends)) \cap rules
  IN  { c.id : c \in { n \in rules :
          /\ inRegime(n, target)
          /\ \E r \in rels : /\ r.type = "CONFLICTS_WITH"
                             /\ \/ r.from \in reached /\ r.to = n
                                \/ r.to \in reached /\ r.from = n } }

=============================================================================
