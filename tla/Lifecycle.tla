------------------------------ MODULE Lifecycle ------------------------------
(***************************************************************************)
(* The decision tables of the registry: which lifecycle edges exist and    *)
(* what evidence each needs (`can_transition`), when a stored attestation  *)
(* set satisfies a policy (the set-level rules R6 and R7), and which       *)
(* revocation policy is recorded (the stricter of the reason's floor and   *)
(* the configured policy). Constant-level operators only.                  *)
(***************************************************************************)
EXTENDS Naturals

LifecycleState ==
  { "Draft", "StructurallyVerified", "MlChecked", "ExpertAttested",
    "Published", "Deprecated", "Revoked" }

(* The kind of the event that produces a state; a tag move keeps the state *)
(* and has a kind of its own.                                              *)
EventKind ==
  [ Draft |-> "draft", StructurallyVerified |-> "structurally_verified",
    MlChecked |-> "ml_checked", ExpertAttested |-> "expert_attested",
    Published |-> "published", Deprecated |-> "deprecated",
    Revoked |-> "revoked" ]

TagMoved == "tag_moved"

Kind ==
  { "draft", "structurally_verified", "ml_checked", "expert_attested",
    "published", "deprecated", "revoked", TagMoved }

(* Mutant: a deprecated target is eligible.                                *)
IsRollbackEligibleLax(state) == state \in {"Published", "Deprecated"}

IsRollbackEligible(state) == state = "Published"

(* The preconditions a caller may have established, as the set of those    *)
(* that hold: an absent one makes its edge fail closed.                    *)
Precondition ==
  { "structural_clean", "compiler_signature_valid",
    "consistency_block_present", "attestation_set_valid",
    "prior_is_expert_attested" }

CanTransition(from, to, pre) ==
  \/ /\ from = "Draft" /\ to = "StructurallyVerified"
     /\ {"structural_clean", "compiler_signature_valid"} \subseteq pre
  \/ /\ from = "StructurallyVerified" /\ to = "MlChecked"
     /\ "consistency_block_present" \in pre
  \/ /\ from = "MlChecked" /\ to = "ExpertAttested"
     /\ "attestation_set_valid" \in pre
  \/ /\ from = "ExpertAttested" /\ to = "Published"
     /\ "prior_is_expert_attested" \in pre
  \/ from = "Published" /\ to = "Deprecated"
  \/ from \in {"Published", "Deprecated"} /\ to = "Revoked"

(* An edge the table permits once all its evidence is there.               *)
TableEdge(from, to) == CanTransition(from, to, Precondition)

-----------------------------------------------------------------------------
(* Attestation types and artifact kinds.                                   *)

AttestationType ==
  { "SourceFidelity", "Interpretation", "ScenarioCoverage",
    "EquivalenceClaim", "PublicationApproval" }

ArtifactKind ==
  { "RegimePack", "EquivalenceMatrix", "TestCorpus", "PolicyBundle",
    "IntentSpec" }

(* The types a publication of this kind requires, each at count one.       *)
PolicyForKind(kind) ==
  IF kind = "IntentSpec"
  THEN {"SourceFidelity", "PublicationApproval"}
  ELSE {"SourceFidelity", "ScenarioCoverage", "PublicationApproval"}

(* What R7 demands beside a publication approval.                          *)
CoAttestationTypes(kind) ==
  IF kind = "IntentSpec" THEN {"SourceFidelity"}
                         ELSE {"ScenarioCoverage", "SourceFidelity"}

(* R6 and R7 over a set of individually valid attestations, by their types *)
SetVerifies(types, required, kind) ==
  /\ required \subseteq types
  /\ "PublicationApproval" \in types => CoAttestationTypes(kind) \subseteq types

(* What `ke attest` verifies with: nothing required.                       *)
PermissivePolicy == {}

-----------------------------------------------------------------------------
(* Revocation: reason classes, their floors, and the recorded policy.      *)

RevocationPolicy == { "HardStop", "FinishPinned", "AuditOnly" }

ReasonClass ==
  { "KeyCompromise", "LegalInvalidity", "RoutineSupersession", "Advisory" }

RevocationFloor ==
  [ KeyCompromise |-> "HardStop", LegalInvalidity |-> "HardStop",
    RoutineSupersession |-> "FinishPinned", Advisory |-> "AuditOnly" ]

StrictnessRank == [ HardStop |-> 2, FinishPinned |-> 1, AuditOnly |-> 0 ]

(* `configured` is a set: empty when no policy is configured, a singleton  *)
(* otherwise; `reason` likewise.                                           *)
RevocationDecision(class, configured) ==
  LET floor == RevocationFloor[class]
      raised == { c \in configured :
                    StrictnessRank[c] > StrictnessRank[floor] }
  IN  IF raised # {} THEN CHOOSE c \in raised : TRUE ELSE floor

(* Whether `ke revoke` accepts its two optional inputs, and the policy it  *)
(* then records.                                                           *)
RevokeInputsAccepted(configured, reason) ==
  /\ configured # {} \/ reason # {}
  /\ \A class \in reason, c \in configured :
        StrictnessRank[c] >= StrictnessRank[RevocationFloor[class]]

RecordedPolicy(configured, reason) ==
  IF reason = {} THEN CHOOSE c \in configured : TRUE
  ELSE RevocationDecision(CHOOSE class \in reason : TRUE, configured)

=============================================================================
