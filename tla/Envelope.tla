------------------------------ MODULE Envelope ------------------------------
(***************************************************************************)
(* The .kew file (ke-artifact artifact.rs, hash.rs, sign.rs, verify.rs):   *)
(* an envelope, which is hashed and signed, and after it the compiler's    *)
(* signature and the attestations, which are not. A file is                *)
(*   [envelope, signature, attestations, whole, trailing]                  *)
(* where `whole` says that its bytes reach the end of every section and    *)
(* `trailing` that some are left over. The canonical profile, which module *)
(* RuleForm treats in full, is here the `form` of a manifest or a payload: *)
(* "canonical", "raw" (the same content, not yet in that form) or          *)
(* "invalid".                                                              *)
(***************************************************************************)
EXTENDS Attestation, SequencesExt

(* What a rule says, which nothing here changes: by rule id, the passage   *)
(* it cites, its decision tree and its obligations' passages.              *)
CONSTANT Text

(* Lists are lists, and a tree's span is one or none.                      *)
ASSUME TextAssumption ==
  \A id \in DOMAIN Text :
    LET text == Text[id] IN
    /\ text.tree \in Seq(ToSet(text.tree))
    /\ text.obligations \in Seq(ToSet(text.obligations))
    /\ \A i \in DOMAIN text.tree :
         /\ IsFiniteSet(text.tree[i].span)
         /\ text.tree[i].obligations \in Seq(ToSet(text.tree[i].obligations))

(* The 32-byte slot while it is zeroed, and BLAKE3 of an envelope.         *)
ZeroHash == [zero |-> TRUE]
Blake3(envelope) == [blake3 |-> envelope]

WithHash(envelope, hash) == [envelope EXCEPT !.manifest.artifact_hash = hash]

(* A mutant: the trap hash.rs warns of, hashing the patched prefix.        *)
ContentHashPatched(envelope) == Blake3(envelope)

(* content_hash: the slot is zeroed again first.                           *)
ContentHash(envelope) == Blake3(WithHash(envelope, ZeroHash))

SignEnvelope(envelope, key) ==
  [key_id |-> key, signature |-> Sign(key, envelope)]

-----------------------------------------------------------------------------
(* The source spans of the rules. A decision tree is the sequence of its   *)
(* entries in the order postcard writes them, node before true branch      *)
(* before false branch, each with its span and its obligations' spans.     *)

CollectRuleSpans(rule) ==
  LET text == Text[rule.rule_id] IN
  FlattenSeq([ i \in DOMAIN text.tree |->
                 SetToSeq(text.tree[i].span) \o text.tree[i].obligations ])
  \o text.obligations

(* Sorted by rule id, so a set of entries.                                 *)
BuildSpanIndex(rules) ==
  { [rule_id |-> rules[i].rule_id, spans |-> CollectRuleSpans(rules[i])] :
      i \in DOMAIN rules }

-----------------------------------------------------------------------------
(* Assembly. A rule is brought into canonical form; one that has none, and *)
(* a manifest that is not in it already, are refused.                      *)

Canonicalized(rule) == [rule EXCEPT !.form = "canonical"]

(* The arm for rules canonicalizes each of them; the arm for an intent     *)
(* specification does nothing to it.                                       *)
CanonicalPayload(payload) ==
  IF "intent" \in DOMAIN payload THEN {payload}
  ELSE IF \E i \in DOMAIN payload.rules : payload.rules[i].form = "invalid"
       THEN {}
       ELSE {[rules |-> [ i \in DOMAIN payload.rules |->
                            Canonicalized(payload.rules[i]) ]]}

AssemblePayload(manifest, payload, key) ==
  { LET zeroed == [ manifest |-> [manifest EXCEPT !.artifact_hash = ZeroHash],
                    payload |-> canonical,
                    index |-> IF "rules" \in DOMAIN canonical
                              THEN BuildSpanIndex(canonical.rules) ELSE {} ]
        patched == WithHash(zeroed, Blake3(zeroed))
    IN  [ envelope |-> patched, signature |-> SignEnvelope(patched, key),
          attestations |-> <<>>, whole |-> TRUE, trailing |-> FALSE ]
    : canonical \in IF manifest.form # "canonical" THEN {}
                    ELSE CanonicalPayload(payload) }

(* with_attestations: the tail is replaced, the envelope encodes as before *)
WithAttestations(kew, attestations) ==
  [kew EXCEPT !.attestations = attestations]

-----------------------------------------------------------------------------
(* decode_artifact. The kind of the manifest must be that of the payload;  *)
(* rules are validated, an intent specification is not.                    *)

DecodeErrors(kew) ==
  LET manifest == kew.envelope.manifest
      payload == kew.envelope.payload
      intent == "intent" \in DOMAIN payload
  IN  IF ~ kew.whole THEN {"Truncated"}
      ELSE IF kew.trailing THEN {"TrailingBytes"}
      ELSE IF manifest.form # "canonical" THEN {"NonCanonical"}
      ELSE IF intent # (manifest.artifact_kind = "IntentSpec")
           THEN {"KindPayloadMismatch"}
      ELSE IF ~ intent /\ \E i \in DOMAIN payload.rules :
                payload.rules[i].form # "canonical" THEN {"NonCanonical"}
      ELSE {}

(* What decodes, as its consumers hold it.                                 *)
Decoded(kew) ==
  [manifest |-> kew.envelope.manifest, payload |-> kew.envelope.payload,
   index |-> kew.envelope.index, attestations |-> kew.attestations]

VerifyHash(kew) ==
  ContentHash(kew.envelope) = kew.envelope.manifest.artifact_hash

VerifySignature(envelope, signature, key) ==
  signature.signature = Sign(key, envelope)

-----------------------------------------------------------------------------
(* verify_artifact. Evidence is [status, head, live] of the registry.      *)

RegistryStatus == {"Published", "Deprecated", "Revoked", "Unknown"}

Verdict(why) == [verified |-> why = {}, why |-> why]

VerdictFor(kew, directory, ctx, policy, evidence) ==
  IF ~ VerifyHash(kew) THEN Verdict({"HashMismatch"})
  ELSE IF ~ \E key \in Lookup(directory, kew.signature.key_id) :
             VerifySignature(kew.envelope, kew.signature, key.public_key)
       THEN Verdict({"CompilerSignatureInvalid"})
  ELSE IF VerifyAttestationSet(Decoded(kew), policy, directory, ctx) # {}
       THEN Verdict({"Attestations"})
  ELSE IF evidence.status # "Published" THEN Verdict({"NotPublished"})
  ELSE IF \E live \in evidence.live : live # evidence.head
       THEN Verdict({"StaleEventHead"})
  ELSE Verdict({})

IsTestKey(keyId) == keyId \in {"compiler", "expert"}

Summary(a) ==
  [ attestation_type |-> a.attestation_type, signer |-> a.key_id,
    is_test_key |-> IsTestKey(a.key_id), tsa_class |-> a.timestamp.class,
    claimed_time |-> a.timestamp.claimed_time ]

(* The provenance is built whatever the verdict; of a file that does not   *)
(* decode it holds the evidence and nothing else.                          *)
ArtifactProvenance(kew, evidence) ==
  [ kind |-> {kew.envelope.manifest.artifact_kind},
    regime_id |-> {kew.envelope.manifest.regime_id},
    artifact_hash |-> kew.envelope.manifest.artifact_hash,
    signer |-> {kew.signature.key_id},
    attestations |-> [ i \in DOMAIN kew.attestations |->
                         Summary(kew.attestations[i]) ],
    status |-> evidence.status, head |-> evidence.head ]

DecodeFailedProvenance(evidence) ==
  [ kind |-> {}, regime_id |-> {}, artifact_hash |-> ZeroHash, signer |-> {},
    attestations |-> <<>>, status |-> evidence.status, head |-> evidence.head ]

VerifyArtifact(kew, directory, ctx, policy, evidence) ==
  IF DecodeErrors(kew) # {}
  THEN [ verdict |-> Verdict({"Decode"}),
         provenance |-> DecodeFailedProvenance(evidence) ]
  ELSE [ verdict |-> VerdictFor(kew, directory, ctx, policy, evidence),
         provenance |-> ArtifactProvenance(kew, evidence) ]

=============================================================================
