----------------------------- MODULE MCRegistry -----------------------------
(***************************************************************************)
(* Small instances of the registry for TLC.                                *)
(***************************************************************************)
EXTENDS RegistryProperties, TLC

CONSTANTS h1, h2, staging, prod, p1, p2

(* A regime pack needs three attestation types to be published, an intent  *)
(* spec two.                                                               *)
MCKindOf ==
  [ h \in Hash |-> IF h = h1 THEN "RegimePack" ELSE "IntentSpec" ]

(* Sets that a pack's policy accepts, that only an intent spec's accepts,  *)
(* that no policy accepts, and that rule R7 refuses even when nothing is   *)
(* required.                                                               *)
MCAttestSets ==
  { {"SourceFidelity", "ScenarioCoverage", "PublicationApproval"},
    {"SourceFidelity", "PublicationApproval"},
    {"SourceFidelity"},
    {"PublicationApproval"} }

(* A lax bundle that requires nothing, as `--policy` may name.             *)
MCBundles == { {} }

MCRevokeArgs ==
  { <<{}, {"KeyCompromise"}>>,               \* the reason's floor
    <<{"AuditOnly"}, {}>>,                   \* a policy alone
    <<{"AuditOnly"}, {"LegalInvalidity"}>> } \* below the floor: refused

(* One recordable policy, and two different ones.                          *)
OneRevokeArg  == { <<{}, {"KeyCompromise"}>> }
FullSetOnly   ==
  { {"SourceFidelity", "ScenarioCoverage", "PublicationApproval"} }
NoBundles     == {}

(* Every write of a command; those that reach the log and the sidecars.    *)
AllWrites ==
  { "put_kew", "write_sidecar", "write", "point", "write_revocation" }
RecordWrites == { "write_sidecar", "write", "write_revocation" }
NoWrites     == {}

ProcSymmetry == Permutations(Proc)

=============================================================================
