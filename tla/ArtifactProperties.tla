------------------------- MODULE ArtifactProperties -------------------------
(***************************************************************************)
(* What acceptance of a file is worth, and what its refusal: after         *)
(* damage, splicing, export and the passing of days.                       *)
(***************************************************************************)
EXTENDS Artifacts

(* The files that the last answer accepted.                                *)
Accepted ==
  CASE \/ answer.what = "imported"
       \/ answer.what = "served" /\ answer.outcome.verdict.verified ->
         { f.kew : f \in file[answer.at] }
    [] answer.what = "graph" -> { f.kew : f \in answer.exported }
    [] OTHER -> {}

(* verify_artifact in every program that calls it: whatever became of the  *)
(* bytes on the way, the envelope that is accepted is one the compiler     *)
(* assembled, whole, and every attestation on it is one that its signer    *)
(* signed, with all its fields, for that very envelope.                    *)
AcceptedIsAsMade ==
  \A kew \in Accepted :
    /\ kew.envelope \in made
    /\ \A i \in DOMAIN kew.attestations :
         /\ kew.attestations[i] \in stated
         /\ kew.attestations[i].artifact_hash = ContentHash(kew.envelope)

(* The graph's artifacts are filed where their hash says: a valid file     *)
(* under another's address is not projected, and no artifact twice.        *)
ExportedUnderTheirAddress ==
  answer.what = "graph" =>
    \A f, g \in answer.exported :
      /\ f.address = ContentHash(f.kew.envelope)
      /\ f.kew.envelope = g.kew.envelope => f = g

(* assemble, with_attestations and export keep the hash and the signature  *)
(* valid: a file whose envelope and signature are the compiler's is never  *)
(* refused as undecodable, mis-hashed or mis-signed.                       *)
Genuine(kew) ==
  kew.whole /\ ~ kew.trailing /\ kew.envelope \in made
  /\ kew.signature = SignEnvelope(kew.envelope, "compiler")

GenuineIsNotCalledDamaged ==
  answer.what = "refused" =>
    \A f \in file[answer.at] :
      Genuine(f.kew) =>
        answer.outcome.verdict.why \cap
          {"Decode", "HashMismatch", "CompilerSignatureInvalid"} = {}

(* policy.rs, R6 and R7 agree on every kind, and the directories and       *)
(* contexts that graph export and server build are no narrower than that   *)
(* of `ke publish`: what it let through by its own policy and nobody       *)
(* touched since is exported, and verified by POST /verify, while its      *)
(* attestations last. (The strict policy of /verify is that of rule packs  *)
(* for every kind, so it refuses intent specs.)                            *)
LetThrough(f) ==
  /\ f.stage = "Published" /\ ~ f.bundled /\ damage = 0
  /\ \A i \in DOMAIN f.kew.attestations : ~ Expired(f.kew.attestations[i], clock)

PublishedIsAccepted ==
  /\ answer.what = "graph" /\ answer.env = "local" =>
       \A p \in Place : \A f \in file[p] : LetThrough(f) => f \in answer.exported
  /\ answer.what = "served" /\ answer.env = "local" =>
       \A f \in file[answer.at] :
         LetThrough(f) /\ f.kew.envelope.manifest.artifact_kind # "IntentSpec"
           => answer.outcome.verdict.verified

(* R8: a mock timestamp never carries an attestation outside "local",      *)
(* whatever class its token is labelled with.                              *)
MockStampsStayLocal ==
  \A kew \in Accepted :
    answer.what # "imported" /\ answer.env # "local" => kew.attestations = <<>>

(* The clock of R4 and the calendar: an attestation is refused as expired  *)
(* from the first moment of its expiration date, by the calendar, and not  *)
(* before; unix_start_of gets leap years, centuries and year ends right.   *)
ExpiryFollowsTheCalendar ==
  \A a \in stated : \A date \in a.expiration :
    IsDate(date) /\ a.expiration = {date}
      => (Expired(a, clock) <=> ~ Earlier(today, date))

-----------------------------------------------------------------------------
(* The graph.                                                              *)

(* Every edge ends in nodes, and merging lost none: the graph is the union *)
(* of the projections of what was exported.                                *)
GraphIsTheUnion ==
  answer.what = "graph" =>
    /\ answer.graph.nodes = UNION { ProjectionOf(f.kew).nodes : f \in answer.exported }
    /\ ToSet(answer.graph.edges) =
         UNION { ToSet(ProjectionOf(f.kew).edges) : f \in answer.exported }
    /\ \A e \in ToSet(answer.graph.edges) :
         \E a, b \in answer.graph.nodes : a.id = e.from /\ b.id = e.to

Documents == { n.id.name : n \in { m \in answer.graph.nodes : m.label = "CorpusDoc" } }
Regimes   == { n.id.name : n \in { m \in answer.graph.nodes : m.label = "Regime" } }
Articles  == UNION { e.article : e \in ToSet(answer.graph.edges) }

(* graph-differential.sh on every export: the queries give on the loaded   *)
(* store what their oracles give on the exported graph.                    *)
StoreAgreesWithOracles ==
  answer.what = "graph" =>
    LET rels == Load(answer.graph) IN
    /\ \A d \in Documents : CypherBlast(rels, d, {}) = BlastRadius(answer.graph, d, {})
    /\ \A r, t \in Regimes :
         CypherExposure(rels, r, t) = ConflictExposure(answer.graph, r, t)

-----------------------------------------------------------------------------
(* Properties that documents of the repository state and that the code     *)
(* does not keep.                                                          *)

(* ADR 0023, decision 6, of the blast radius: "if this document --         *)
(* optionally one article -- is amended", one query with a Rust-side       *)
(* oracle, exactly decidable on both sides.                                *)
StoreAgreesByArticle ==
  answer.what = "graph" =>
    LET rels == Load(answer.graph) IN
    \A d \in Documents, a \in Articles :
      CypherBlast(rels, d, {a}) = BlastRadius(answer.graph, d, {a})

=============================================================================
