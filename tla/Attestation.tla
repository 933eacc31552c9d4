---------------------------- MODULE Attestation -----------------------------
(***************************************************************************)
(* Expert attestations (ke-artifact attestation.rs, tsa.rs, keydir.rs):    *)
(* how one is signed, stamped and checked, and when a set of them is       *)
(* enough. Cryptography is symbolic: a signature is the pair of a key and  *)
(* what it signed, and no two inputs share a hash.                         *)
(*                                                                         *)
(* An optional field is a set of at most one element. A check that may     *)
(* refuse returns the set of its reasons, empty when it accepts.           *)
(***************************************************************************)
EXTENDS Lifecycle, Calendar, Sequences, FiniteSets

(* ed25519: the one signature of a key over a message.                     *)
Sign(key, msg) == [by |-> key, over |-> msg]

SignerRole == {"DomainExpert", "PublicationApprover", "Registry"}

KeyStatus == {"Active", "Expired", "Revoked"}

(* Nobody's window ends at u64::MAX within the days modelled.              *)
CONSTANT EndOfTime

(* A directory entry whose window is open, as every directory in the       *)
(* repository has it.                                                      *)
KeyEntry(keyId, roles, types) ==
  [ key_id |-> keyId, public_key |-> keyId, signer_roles |-> roles,
    types |-> types, from |-> 0, to |-> EndOfTime, status |-> "Active" ]

(* KeyDirectory::lookup: the first entry of that id.                       *)
Lookup(directory, keyId) ==
  { directory[i] : i \in { j \in DOMAIN directory :
      /\ directory[j].key_id = keyId
      /\ \A k \in 1..(j - 1) : directory[k].key_id # keyId } }

-----------------------------------------------------------------------------
(* Timestamps. The discriminant of the class is in the signed message.     *)

MockMessage(hash, time) == <<"Mock", hash, time>>

MockTsaStamp(hash, time) ==
  [ class |-> "Mock", token |-> Sign("mock-tsa", MockMessage(hash, time)),
    claimed_time |-> time ]

VerifiesAsMock(stamp, hash) ==
  stamp.token = Sign("mock-tsa", MockMessage(hash, stamp.claimed_time))

(* A mutant: the token's claim is believed.                                *)
DeriveClassAsClaimed(stamp, hash) == stamp.class

(* derive_class: the class the token itself proves, or why none.           *)
DeriveClass(stamp, hash) ==
  IF VerifiesAsMock(stamp, hash) THEN "Mock"
  ELSE IF stamp.class = "Mock" THEN "ClassMismatch" ELSE "Unsupported"

-----------------------------------------------------------------------------
(* One attestation. The fields that verification does not read (scope,     *)
(* identity, effective period, comments...) are one field, `claim`.        *)

Unsigned(hash, type, manifest, version, stamp, expiration) ==
  [ artifact_hash |-> hash, attestation_type |-> type, claim |-> "stated",
    key_id |-> "expert",
    signer_role |-> IF type = "PublicationApproval"
                    THEN "PublicationApprover" ELSE "DomainExpert",
    regime_id |-> manifest.regime_id,
    legal_source_hash |-> manifest.source_corpus_hash,
    ir_schema_version |-> manifest.ir_schema_version,
    compiler_version |-> manifest.compiler_version,
    policy_version |-> version, timestamp |-> stamp,
    expiration |-> expiration, signature |-> Sign("nobody", <<>>) ]

(* A mutant: the horizon is added after signing.                           *)
PayloadPrefixWithoutHorizon(a) ==
  [ a EXCEPT !.signature = Sign("nobody", <<>>), !.expiration = {} ]

(* payload_prefix: everything before the signature.                        *)
PayloadPrefix(a) == [ a EXCEPT !.signature = Sign("nobody", <<>>) ]

SignAttestation(a, key) ==
  [ a EXCEPT !.signature = Sign(key, PayloadPrefix(a)) ]

(* R4: refused from midnight of the expiration date on.                    *)
Expired(a, now) == \E date \in a.expiration : now >= UnixStartOf(date)

(* verify_attestation, after the lookup of the key: every check in the     *)
(* order of the contract, as its name and whether it fails.                *)
Checks(a, hash, manifest, key, ctx) ==
  LET derived == DeriveClass(a.timestamp, a.artifact_hash) IN
  << <<"SignatureInvalid", a.signature # Sign(key.public_key, PayloadPrefix(a))>>,
     <<"TsaUnsupported", derived = "Unsupported">>,
     <<"TimestampClassMismatch", derived # a.timestamp.class>>,
     <<"MockTsaNonLocal", derived = "Mock" /\ ctx.environment # "local">>,
     <<"KeyExpired", key.status = "Expired">>,
     <<"KeyRevoked", key.status = "Revoked">>,
     <<"KeyExpired", ctx.now < key.from \/ ctx.now >= key.to>>,
     <<"KeyUnauthorizedForType", \/ a.signer_role \notin key.signer_roles
                                 \/ a.attestation_type \notin key.types>>,
     <<"NotBoundToArtifact", \/ a.artifact_hash # hash
                             \/ a.regime_id # manifest.regime_id
                             \/ a.compiler_version # manifest.compiler_version>>,
     <<"PolicyVersionUnsupported",
         \/ a.policy_version \notin ctx.supported
         \/ a.ir_schema_version # manifest.ir_schema_version>>,
     <<"Expired", Expired(a, ctx.now)>>,
     <<"LegalSourceHashChanged",
         \E current \in ctx.current : current # a.legal_source_hash>> >>

FirstFailing(checks) ==
  { checks[i][1] : i \in { j \in DOMAIN checks :
      checks[j][2] /\ \A k \in 1..(j - 1) : ~ checks[k][2] } }

VerifyAttestation(a, hash, manifest, directory, ctx) ==
  IF Lookup(directory, a.key_id) = {} THEN {"KeyUnknown"}
  ELSE UNION { FirstFailing(Checks(a, hash, manifest, key, ctx)) :
                 key \in Lookup(directory, a.key_id) }

-----------------------------------------------------------------------------
(* The set. A policy is [required, minimum]: types, and counts of some of  *)
(* them.                                                                   *)

StrictPolicy(types) == [required |-> types, minimum |-> [t \in types |-> 1]]

Permissive == StrictPolicy(PermissivePolicy)

RequiredCount(policy, type) ==
  IF type \in DOMAIN policy.minimum /\ policy.minimum[type] > 1
  THEN policy.minimum[type] ELSE 1

(* verify_attestation_set: all rejections. R6 and R7 look at the valid     *)
(* attestations only, by position: the same one twice counts twice.        *)
VerifyAttestationSet(artifact, policy, directory, ctx) ==
  LET manifest == artifact.manifest
      verdict == [ i \in DOMAIN artifact.attestations |->
                     VerifyAttestation(artifact.attestations[i],
                                       manifest.artifact_hash, manifest,
                                       directory, ctx) ]
      valid(type) == { i \in DOMAIN artifact.attestations :
                         /\ verdict[i] = {}
                         /\ artifact.attestations[i].attestation_type = type }
  IN  (UNION { verdict[i] : i \in DOMAIN verdict })
      \cup { "RequiredTypeMissing" : type \in { t \in policy.required :
               Cardinality(valid(t)) < RequiredCount(policy, t) } }
      \cup { "CoAttestationAbsent" : type \in
               { t \in CoAttestationTypes(manifest.artifact_kind) :
                   valid("PublicationApproval") # {} /\ valid(t) = {} } }

=============================================================================
