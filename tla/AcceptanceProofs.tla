--------------------------- MODULE AcceptanceProofs ---------------------------
(***************************************************************************)
(* What acceptance of a file is worth, for any number of files, sources,   *)
(* signers, days and damages, any policy and any sets of attestations. The *)
(* argument follows the signatures: whatever is done to the bytes, the     *)
(* compiler's signature on a file is one it gave to an envelope it made,   *)
(* or nobody's, and the signature on an attestation is one that its signer *)
(* gave to a whole attestation. So a file whose checks pass carries what   *)
(* was signed, and nothing else.                                           *)
(***************************************************************************)
EXTENDS ArtifactProperties, TLAPS

-----------------------------------------------------------------------------
(* The inductive invariant.                                                *)

IsSeq(s) == s \in Seq(ToSet(s))

(* An attestation is its payload prefix with its signature put in.         *)
Sealed(a) ==
  /\ "signature" \in DOMAIN a
  /\ a = [PayloadPrefix(a) EXCEPT !.signature = a.signature]

(* What the expert signed, stamped by the mock authority for its hash.     *)
AsSigned(a) ==
  /\ Sealed(a)
  /\ a.signature = Sign("expert", PayloadPrefix(a))
  /\ VerifiesAsMock(a.timestamp, a.artifact_hash)

(* What lies in a file as an attestation: its signature, at least, is one  *)
(* that was given.                                                         *)
Carried(a) == Sealed(a) /\ \E c \in stated : a.signature = c.signature

IsKew(kew) ==
  /\ DOMAIN kew = {"envelope", "signature", "attestations", "whole", "trailing"}
  /\ DOMAIN kew.signature = {"key_id", "signature"}
  /\ IsSeq(kew.attestations)

(* The bytes of a file, wherever they come from.                           *)
Bytes(kew) ==
  /\ IsKew(kew)
  /\ \/ kew.signature.signature = Sign("nobody", <<>>)
     \/ \E e \in made : kew.signature.signature = Sign("compiler", e)
  /\ \A i \in DOMAIN kew.attestations : Carried(kew.attestations[i])

IsFile(f) == DOMAIN f = {"address", "kew", "stage", "bundled"}

(* One file to a place, and one place to an address.                       *)
OneFileEach ==
  /\ \A p \in Place : \A f, g \in file[p] : f = g
  /\ \A p, q \in Place : \A f \in file[p], g \in file[q] :
       f.address = g.address => p = q

FilesInv ==
  /\ file = [p \in Place |-> file[p]]
  /\ \A a \in stated : AsSigned(a)
  /\ \A p \in Place : \A f \in file[p] : IsFile(f) /\ Bytes(f.kew)
  /\ OneFileEach

AcceptanceInv ==
  /\ FilesInv
  /\ AcceptedIsAsMade /\ ExportedUnderTheirAddress /\ MockStampsStayLocal

-----------------------------------------------------------------------------
(* What the checks establish.                                              *)

(* A verification that names no failing check has passed all of them.      *)
LEMMA NoneFails ==
  ASSUME NEW s, DOMAIN s = 1..12, FirstFailing(s) = {}
  PROVE  \A i \in 1..12 : ~ s[i][2]
<1>1. \A j \in 1..12 : (\A k \in 1..(j - 1) : ~ s[k][2]) => ~ s[j][2]
  BY DEF FirstFailing
<1>2. \A k \in 1..4 : ~ s[k][2]
  BY <1>1
<1>3. \A k \in 1..8 : ~ s[k][2]
  BY <1>1, <1>2
<1> QED  BY <1>1, <1>3

(* verify_attestation as one condition.                                    *)
Passes(a, hash, manifest, key, ctx) ==
  LET derived == DeriveClass(a.timestamp, a.artifact_hash) IN
  /\ a.signature = Sign(key.public_key, PayloadPrefix(a))
  /\ derived # "Unsupported" /\ derived = a.timestamp.class
  /\ derived = "Mock" => ctx.environment = "local"
  /\ key.status # "Expired" /\ key.status # "Revoked"
  /\ ~ (ctx.now < key.from \/ ctx.now >= key.to)
  /\ a.signer_role \in key.signer_roles /\ a.attestation_type \in key.types
  /\ a.artifact_hash = hash /\ a.regime_id = manifest.regime_id
  /\ a.compiler_version = manifest.compiler_version
  /\ a.policy_version \in ctx.supported
  /\ a.ir_schema_version = manifest.ir_schema_version
  /\ ~ Expired(a, ctx.now)
  /\ \A current \in ctx.current : current = a.legal_source_hash

LEMMA ChecksPass ==
  ASSUME NEW a, NEW hash, NEW manifest, NEW key, NEW ctx
  PROVE  FirstFailing(Checks(a, hash, manifest, key, ctx)) = {}
           <=> Passes(a, hash, manifest, key, ctx)
<1> DEFINE checks == Checks(a, hash, manifest, key, ctx)
<1>1. DOMAIN checks = 1..12
  BY DEF Checks
<1>2. FirstFailing(checks) = {} <=> \A i \in 1..12 : ~ checks[i][2]
  <2> HIDE DEF checks
  <2>1. ASSUME \A i \in 1..12 : ~ checks[i][2] PROVE FirstFailing(checks) = {}
    BY <1>1, <2>1 DEF FirstFailing
  <2> QED  BY <1>1, <2>1, NoneFails
<1>3. (\A i \in 1..12 : ~ checks[i][2])
        <=> /\ ~ checks[1][2] /\ ~ checks[2][2] /\ ~ checks[3][2] /\ ~ checks[4][2]
            /\ ~ checks[5][2] /\ ~ checks[6][2] /\ ~ checks[7][2] /\ ~ checks[8][2]
            /\ ~ checks[9][2] /\ ~ checks[10][2] /\ ~ checks[11][2] /\ ~ checks[12][2]
  <2> HIDE DEF checks
  <2> QED  OBVIOUS
<1>4. (/\ ~ checks[1][2] /\ ~ checks[2][2] /\ ~ checks[3][2] /\ ~ checks[4][2]
       /\ ~ checks[5][2] /\ ~ checks[6][2] /\ ~ checks[7][2] /\ ~ checks[8][2]
       /\ ~ checks[9][2] /\ ~ checks[10][2] /\ ~ checks[11][2] /\ ~ checks[12][2])
        <=> Passes(a, hash, manifest, key, ctx)
  BY DEF Checks, Passes
<1> QED  BY <1>2, <1>3, <1>4

(* An attestation of an accepted set is verified by a key of the directory.*)
LEMMA SetPasses ==
  ASSUME NEW artifact, NEW policy, NEW directory, NEW ctx,
         VerifyAttestationSet(artifact, policy, directory, ctx) = {},
         NEW i \in DOMAIN artifact.attestations
  PROVE  LET a == artifact.attestations[i] IN
         \E key \in Lookup(directory, a.key_id) :
           /\ a.signature = Sign(key.public_key, PayloadPrefix(a))
           /\ a.artifact_hash = artifact.manifest.artifact_hash
           /\ DeriveClass(a.timestamp, a.artifact_hash) = "Mock"
                => ctx.environment = "local"
<1> DEFINE a == artifact.attestations[i]
           hash == artifact.manifest.artifact_hash
<1>1. VerifyAttestation(a, hash, artifact.manifest, directory, ctx) = {}
  BY DEF VerifyAttestationSet
<1>2. PICK key \in Lookup(directory, a.key_id) :
        FirstFailing(Checks(a, hash, artifact.manifest, key, ctx)) = {}
  <2> HIDE DEF a, hash
  <2>1. Lookup(directory, a.key_id) # {}
    BY <1>1 DEF VerifyAttestation
  <2> QED  BY <1>1, <2>1 DEF VerifyAttestation
<1> HIDE DEF a, hash
<1>3. /\ a.signature = Sign(key.public_key, PayloadPrefix(a))
      /\ a.artifact_hash = hash
      /\ DeriveClass(a.timestamp, a.artifact_hash) = "Mock"
           => ctx.environment = "local"
  BY <1>2, ChecksPass DEF Passes
<1> QED  BY <1>2, <1>3 DEF a, hash

(* verify_artifact, as far as `ke import` needs it.                        *)
NothingWorse(outcome) == outcome.verdict.why \subseteq {"NotPublished", "StaleEventHead"}

LEMMA ArtifactPasses ==
  ASSUME NEW kew, NEW directory, NEW ctx, NEW policy, NEW evidence,
         NothingWorse(VerifyArtifact(kew, directory, ctx, policy, evidence))
  PROVE  /\ ContentHash(kew.envelope) = kew.envelope.manifest.artifact_hash
         /\ \E key \in Lookup(directory, kew.signature.key_id) :
              kew.signature.signature = Sign(key.public_key, kew.envelope)
         /\ VerifyAttestationSet(Decoded(kew), policy, directory, ctx) = {}
<1>1. NothingWorse([verdict |-> VerdictFor(kew, directory, ctx, policy, evidence),
                    provenance |-> ArtifactProvenance(kew, evidence)])
  BY DEF NothingWorse, VerifyArtifact, Verdict
<1>2. VerdictFor(kew, directory, ctx, policy, evidence).why
        \subseteq {"NotPublished", "StaleEventHead"}
  BY <1>1 DEF NothingWorse
<1>3. VerifyHash(kew)
  BY <1>2 DEF VerdictFor, Verdict
<1>4. \E key \in Lookup(directory, kew.signature.key_id) :
        VerifySignature(kew.envelope, kew.signature, key.public_key)
  BY <1>2, <1>3 DEF VerdictFor, Verdict
<1>5. VerifyAttestationSet(Decoded(kew), policy, directory, ctx) = {}
  BY <1>2, <1>3, <1>4 DEF VerdictFor, Verdict
<1> QED  BY <1>3, <1>4, <1>5 DEF VerifyHash, VerifySignature

(* A signature over all fields but itself fixes them: what carries one     *)
(* that was given, and verifies, is what was signed.                       *)
LEMMA WhatVerifiesWasStated ==
  ASSUME \A c \in stated : AsSigned(c), NEW a, Carried(a), NEW key,
         a.signature = Sign(key, PayloadPrefix(a))
  PROVE  a \in stated
<1>1. PICK c \in stated : a.signature = c.signature
  BY DEF Carried
<1>2. Sign(key, PayloadPrefix(a)) = Sign("expert", PayloadPrefix(c))
  BY <1>1 DEF AsSigned
<1>3. PayloadPrefix(a) = PayloadPrefix(c)
  BY <1>2 DEF Sign
<1>4. /\ a = [PayloadPrefix(a) EXCEPT !.signature = a.signature]
      /\ c = [PayloadPrefix(c) EXCEPT !.signature = c.signature]
  BY Zenon DEF Carried, AsSigned, Sealed
<1> HIDE DEF PayloadPrefix
<1>5. a = c
  BY <1>1, <1>3, <1>4
<1> QED  BY <1>5

LEMMA WhatVerifiesWasMade ==
  ASSUME NEW kew, Bytes(kew), NEW key \in {"compiler", "expert"},
         kew.signature.signature = Sign(key, kew.envelope)
  PROVE  kew.envelope \in made
<1>1. ASSUME NEW x, NEW y, NEW k, NEW l, Sign(k, x) = Sign(l, y)
      PROVE  k = l /\ x = y
  BY <1>1 DEF Sign
<1>2. PICK e \in made : kew.signature.signature = Sign("compiler", e)
  <2>1. kew.signature.signature # Sign("nobody", <<>>)
    BY <1>1
  <2> QED  BY <2>1 DEF Bytes
<1> QED  BY <1>1, <1>2

(* No directory of the programs authorizes a key that is not one of the    *)
(* two.                                                                    *)
OnlyTestKeys(directory) ==
  \A keyId : \A key \in Lookup(directory, keyId) : key.public_key \in {"compiler", "expert"}

LEMMA DirectoriesHoldTestKeys ==
  /\ OnlyTestKeys(ImportDirectory)
  /\ \A kew : OnlyTestKeys(TestKeyDirectory(kew))
<1>1. ASSUME NEW directory, DOMAIN directory = 1..2,
             directory[1].public_key = "compiler", directory[2].public_key = "expert"
      PROVE  OnlyTestKeys(directory)
  BY <1>1 DEF OnlyTestKeys, Lookup
<1>2. OnlyTestKeys(ImportDirectory)
  BY <1>1 DEF ImportDirectory, KeyEntry
<1>3. ASSUME NEW kew PROVE OnlyTestKeys(TestKeyDirectory(kew))
  BY <1>1 DEF TestKeyDirectory, KeyEntry
<1> QED  BY <1>2, <1>3

(* The core of it: what acceptance says of a file.                         *)
AsMade(kew) ==
  /\ kew.envelope \in made
  /\ \A i \in DOMAIN kew.attestations :
       /\ kew.attestations[i] \in stated
       /\ kew.attestations[i].artifact_hash = ContentHash(kew.envelope)

LEMMA NoneIsEmpty ==
  ASSUME NEW s, IsSeq(s), DOMAIN s = {}
  PROVE  s = <<>>
<1>1. s \in Seq(ToSet(s))
  BY DEF IsSeq
<1>2. Len(s) \in Nat /\ DOMAIN s = 1..Len(s)
  BY <1>1
<1>3. Len(s) = 0
  BY <1>2
<1> QED  BY <1>1, <1>3

LEMMA WhatPassesIsAsMade ==
  ASSUME \A c \in stated : AsSigned(c), NEW kew, Bytes(kew),
         NEW directory, OnlyTestKeys(directory), NEW ctx, NEW policy, NEW evidence,
         NothingWorse(VerifyArtifact(kew, directory, ctx, policy, evidence))
  PROVE  /\ AsMade(kew)
         /\ ContentHash(kew.envelope) = kew.envelope.manifest.artifact_hash
         /\ ctx.environment # "local" => kew.attestations = <<>>
<1>1. /\ ContentHash(kew.envelope) = kew.envelope.manifest.artifact_hash
      /\ \E key \in Lookup(directory, kew.signature.key_id) :
           kew.signature.signature = Sign(key.public_key, kew.envelope)
      /\ VerifyAttestationSet(Decoded(kew), policy, directory, ctx) = {}
  BY ArtifactPasses
<1>2. kew.envelope \in made
  BY <1>1, WhatVerifiesWasMade DEF OnlyTestKeys
<1>3. /\ Decoded(kew).attestations = kew.attestations
      /\ Decoded(kew).manifest = kew.envelope.manifest
  BY DEF Decoded
<1>4. ASSUME NEW i \in DOMAIN kew.attestations
      PROVE  /\ kew.attestations[i] \in stated
             /\ kew.attestations[i].artifact_hash = ContentHash(kew.envelope)
             /\ ctx.environment = "local"
  <2>1. PICK a : a = kew.attestations[i]
    OBVIOUS
  <2>2. PICK key : /\ a.signature = Sign(key.public_key, PayloadPrefix(a))
                   /\ a.artifact_hash = kew.envelope.manifest.artifact_hash
                   /\ DeriveClass(a.timestamp, a.artifact_hash) = "Mock"
                        => ctx.environment = "local"
    BY <1>1, <1>3, <2>1, SetPasses
  <2>3. Carried(a)
    BY <2>1 DEF Bytes
  <2>4. a \in stated
    BY <2>2, <2>3, WhatVerifiesWasStated
  <2>5. DeriveClass(a.timestamp, a.artifact_hash) = "Mock"
    BY <2>4 DEF AsSigned, DeriveClass
  <2> QED  BY <1>1, <2>1, <2>2, <2>4, <2>5
<1>5. DOMAIN kew.attestations = {} => kew.attestations = <<>>
  <2>1. IsSeq(kew.attestations)
    BY DEF Bytes, IsKew
  <2> QED  BY <2>1, NoneIsEmpty
<1> QED  BY <1>1, <1>2, <1>4, <1>5 DEF AsMade

-----------------------------------------------------------------------------
(* What the actions write.                                                 *)

LEMMA MappedIsSeq ==
  ASSUME NEW s, IsSeq(s), NEW t, t = [i \in DOMAIN s |-> t[i]]
  PROVE  IsSeq(t)
<1>1. s \in Seq(ToSet(s))
  BY DEF IsSeq
<1>2. Len(s) \in Nat /\ DOMAIN s = 1..Len(s)
  BY <1>1
<1>3. t = [i \in 1..Len(s) |-> t[i]] /\ \A i \in 1..Len(s) : t[i] \in ToSet(t)
  BY <1>2 DEF ToSet
<1> QED  BY <1>2, <1>3 DEF IsSeq

LEMMA JoinedIsSeq ==
  ASSUME NEW s, IsSeq(s), NEW t, IsSeq(t)
  PROVE  /\ IsSeq(s \o t)
         /\ \A i \in DOMAIN (s \o t) : (s \o t)[i] \in ToSet(s) \cup ToSet(t)
<1>1. PICK S, T : S = ToSet(s) /\ T = ToSet(t)
  OBVIOUS
<1>2. s \in Seq(S) /\ t \in Seq(T)
  BY <1>1 DEF IsSeq
<1>3. /\ Len(s) \in Nat /\ DOMAIN s = 1..Len(s)
      /\ Len(t) \in Nat /\ DOMAIN t = 1..Len(t)
  BY <1>2
<1>4. PICK u : u = s \o t
  OBVIOUS
<1>5. /\ DOMAIN u = 1..(Len(s) + Len(t)) /\ u \in Seq(S \cup T)
      /\ \A i \in DOMAIN u : u[i] \in S \cup T
  <2>1. s \in Seq(S \cup T) /\ t \in Seq(S \cup T)
    BY <1>2
  <2> QED  BY <1>4, <2>1
<1>6. \A i \in DOMAIN u : u[i] \in ToSet(u)
  BY DEF ToSet
<1>7. IsSeq(u)
  BY <1>3, <1>5, <1>6 DEF IsSeq
<1> QED  BY <1>1, <1>4, <1>5, <1>7

(* What is signed under a mock stamp is as the expert signs.               *)
LEMMA SignedIsAsSigned ==
  ASSUME NEW hash, NEW type, NEW manifest, NEW version, NEW stamp, NEW expiration,
         VerifiesAsMock(stamp, hash)
  PROVE  AsSigned(SignAttestation(
           Unsigned(hash, type, manifest, version, stamp, expiration), "expert"))
<1>1. PICK u : u = Unsigned(hash, type, manifest, version, stamp, expiration)
  OBVIOUS
<1>2. PICK a : a = SignAttestation(u, "expert")
  OBVIOUS
<1>3. /\ "signature" \in DOMAIN u /\ u.signature = Sign("nobody", <<>>)
      /\ u.timestamp = stamp /\ u.artifact_hash = hash
      /\ u = [k \in DOMAIN u |-> u[k]]
  BY <1>1 DEF Unsigned
<1>4. PayloadPrefix(u) = u
  BY <1>3 DEF PayloadPrefix
<1>5. a = [u EXCEPT !.signature = Sign("expert", u)]
  BY <1>2, <1>4 DEF SignAttestation
<1>6. /\ "signature" \in DOMAIN a /\ a.signature = Sign("expert", u)
      /\ a.timestamp = stamp /\ a.artifact_hash = hash
  BY <1>3, <1>5
<1>7. PayloadPrefix(a) = u
  BY <1>3, <1>5 DEF PayloadPrefix
<1>8. Sealed(a)
  BY <1>5, <1>6, <1>7 DEF Sealed
<1> QED  BY <1>1, <1>2, <1>6, <1>7, <1>8 DEF AsSigned

LEMMA MockStampsVerify ==
  ASSUME NEW hash, NEW time, NEW class
  PROVE  /\ VerifiesAsMock(MockTsaStamp(hash, time), hash)
         /\ VerifiesAsMock([MockTsaStamp(hash, time) EXCEPT !.class = class], hash)
  BY DEF VerifiesAsMock, MockTsaStamp

-----------------------------------------------------------------------------
(* The files at a step.                                                    *)

(* Bytes stay what they are as more is made and signed.                    *)
LEMMA BytesLast ==
  ASSUME made \subseteq made', stated \subseteq stated', NEW kew, Bytes(kew)
  PROVE  Bytes(kew)'
  BY DEF Bytes, Carried

Fresh(address) == \A q \in Place : \A g \in file[q] : g.address # address

(* Whatever a step wrote, the invariant holds on if every file is one that *)
(* was there under its address, or lies in the one new place, under an     *)
(* address that no file had.                                               *)
LEMMA FilesKept ==
  ASSUME FilesInv, stated \subseteq stated',
         \A a \in stated' \ stated : AsSigned(a),
         file' = [p \in Place |-> file'[p]],
         \A p \in Place : \A f \in file'[p] : IsFile(f) /\ Bytes(f.kew)',
         \A p \in Place : \A f, g \in file'[p] : f = g,
         NEW new,
         \A p \in Place : \A f \in file'[p] :
           \/ \E g \in file[p] : g.address = f.address
           \/ p = new /\ Fresh(f.address)
  PROVE  FilesInv'
<1>1. \A a \in stated' : AsSigned(a)
  BY DEF FilesInv
<1>2. ASSUME NEW p \in Place, NEW q \in Place, NEW f \in file'[p], NEW g \in file'[q],
             f.address = g.address
      PROVE  p = q
  <2>1. CASE \E h \in file[p] : h.address = f.address
    BY <1>2, <2>1 DEF FilesInv, OneFileEach, Fresh
  <2>2. CASE p = new /\ Fresh(f.address)
    BY <1>2, <2>2 DEF Fresh
  <2> QED  BY <2>1, <2>2
<1>3. OneFileEach'
  BY <1>2 DEF OneFileEach
<1> QED  BY <1>1, <1>3 DEF FilesInv, AsSigned

(* A file is rewritten in its place.                                       *)
LEMMA Rewritten ==
  ASSUME FilesInv, made \subseteq made', stated \subseteq stated',
         \A a \in stated' \ stated : AsSigned(a),
         NEW p \in Place, NEW f \in file[p], NEW g, Put(p, g), IsFile(g),
         g.address = f.address, Bytes(g.kew)'
  PROVE  FilesInv'
<1>1. /\ file' = [q \in Place |-> file'[q]]
      /\ file'[p] = {g}
      /\ \A q \in Place \ {p} : file'[q] = file[q]
  BY DEF Put, FilesInv
<1>2. \A q \in Place : \A h \in file'[q] : IsFile(h) /\ Bytes(h.kew)'
  BY <1>1, BytesLast DEF FilesInv
<1>3. \A q \in Place : \A h, i \in file'[q] : h = i
  BY <1>1 DEF FilesInv, OneFileEach
<1>4. \A q \in Place : \A h \in file'[q] : \E i \in file[q] : i.address = h.address
  BY <1>1
<1> QED  BY <1>1, <1>2, <1>3, <1>4, FilesKept

LEMMA FilesFacts ==
  ASSUME FilesInv, NEW p \in Place, NEW f \in file[p]
  PROVE  IsFile(f) /\ Bytes(f.kew)
  BY DEF FilesInv

(* A file with other bytes or another stage is one still, and where it was.*)
LEMMA Altered ==
  ASSUME NEW f, IsFile(f), NEW kew, NEW stage
  PROVE  /\ IsFile([f EXCEPT !.kew = kew])
         /\ [f EXCEPT !.kew = kew].address = f.address
         /\ [f EXCEPT !.kew = kew].kew = kew
         /\ IsFile([f EXCEPT !.stage = stage])
         /\ [f EXCEPT !.stage = stage].address = f.address
         /\ [f EXCEPT !.stage = stage].kew = f.kew
  BY DEF IsFile

LEMMA AssembledBytes ==
  ASSUME NEW manifest, NEW payload,
         NEW kew \in AssemblePayload(manifest, payload, "compiler"),
         made' = made \cup {kew.envelope}
  PROVE  Bytes(kew)'
<1>1. PICK e : kew = [ envelope |-> e, signature |-> SignEnvelope(e, "compiler"),
                       attestations |-> <<>>, whole |-> TRUE, trailing |-> FALSE ]
  BY DEF AssemblePayload
<1>2. IsKew(kew)
  BY <1>1 DEF IsKew, IsSeq, SignEnvelope
<1>3. kew.signature.signature = Sign("compiler", kew.envelope) /\ DOMAIN kew.attestations = {}
  BY <1>1 DEF SignEnvelope
<1> QED  BY <1>2, <1>3 DEF Bytes

LEMMA AssembleKeepsFiles ==
  ASSUME FilesInv, NEW p \in Place, Assemble(p)
  PROVE  FilesInv'
<1>1. PICK manifest, payload, kew :
        /\ kew \in AssemblePayload(manifest, payload, "compiler")
        /\ \A q \in Place : \A g \in file[q] :
             g.address # kew.envelope.manifest.artifact_hash
        /\ Put(p, [ address |-> kew.envelope.manifest.artifact_hash, kew |-> kew,
                    stage |-> "MlChecked", bundled |-> FALSE ])
        /\ made' = made \cup {kew.envelope}
  BY DEF Assemble
<1>2. PICK f : f = [ address |-> kew.envelope.manifest.artifact_hash, kew |-> kew,
                     stage |-> "MlChecked", bundled |-> FALSE ]
  OBVIOUS
<1>3. IsFile(f) /\ Fresh(f.address) /\ f.kew = kew
  BY <1>1, <1>2 DEF IsFile, Fresh
<1>4. stated' = stated /\ made \subseteq made'
  BY <1>1 DEF Assemble
<1>5. Bytes(f.kew)'
  BY <1>1, <1>3, AssembledBytes
<1>6. /\ file' = [q \in Place |-> file'[q]]
      /\ file'[p] = {f}
      /\ \A q \in Place \ {p} : file'[q] = file[q]
  BY <1>1, <1>2 DEF Put, FilesInv
<1>7. \A q \in Place : \A h \in file'[q] : IsFile(h) /\ Bytes(h.kew)'
  BY <1>3, <1>4, <1>5, <1>6, BytesLast, FilesFacts
<1>8. \A q \in Place : \A h, i \in file'[q] : h = i
  BY <1>6 DEF FilesInv, OneFileEach
<1> QED  BY <1>3, <1>4, <1>6, <1>7, <1>8, FilesKept

LEMMA PublishKeepsFiles ==
  ASSUME FilesInv, NEW p \in Place, Publish(p) \/ Withdraw(p)
  PROVE  FilesInv'
<1>1. made' = made /\ stated' = stated
  BY DEF Publish, Withdraw
<1>2. CASE Publish(p)
  <2>1. PICK f \in file[p] : \E b :
          Put(p, [f EXCEPT !.stage = "Published", !.bundled = b])
    BY <1>2 DEF Publish
  <2>2. PICK b, g : g = [f EXCEPT !.stage = "Published", !.bundled = b] /\ Put(p, g)
    BY <2>1
  <2>3. IsFile(g) /\ g.address = f.address /\ g.kew = f.kew
    BY <2>2, FilesFacts DEF IsFile
  <2>4. Bytes(g.kew)'
    BY <1>1, <2>3, FilesFacts, BytesLast
  <2> QED  BY <1>1, <2>2, <2>3, <2>4, Rewritten
<1>3. CASE Withdraw(p)
  <2>1. PICK f \in file[p] : Put(p, [f EXCEPT !.stage = "Deprecated"])
    BY <1>3 DEF Withdraw
  <2> QED  BY <1>1, <2>1, FilesFacts, Altered, BytesLast, Rewritten
<1> QED  BY <1>2, <1>3

-----------------------------------------------------------------------------
(* Damage invents no signature.                                            *)

LEMMA ChangedIsCarried ==
  ASSUME NEW a, Carried(a), NEW b \in ChangedAttestations(a)
  PROVE  Carried(b)
<1>1. "signature" \in DOMAIN a
  BY DEF Carried, Sealed
<1>2. ASSUME NEW k, NEW v, k # "signature"
      PROVE  Carried([a EXCEPT ![k] = v])
  <2>1. PICK c : c = [a EXCEPT ![k] = v]
    OBVIOUS
  <2>2. /\ DOMAIN c = DOMAIN a /\ c.signature = a.signature
        /\ c = [x \in DOMAIN c |-> c[x]]
    BY <1>1, <1>2, <2>1
  <2>3. Sealed(c)
    BY <1>1, <2>2 DEF Sealed, PayloadPrefix
  <2> QED  BY <2>1, <2>2, <2>3 DEF Carried
<1>3. \/ b = [a EXCEPT !.expiration = {<<9999, 12, 31>>}]
      \/ b = [a EXCEPT !.key_id = "compiler"]
      \/ b = [a EXCEPT !.key_id = "unknown"]
      \/ b = [a EXCEPT !.claim = "altered"]
      \/ \E stamp : b = [a EXCEPT !.timestamp = stamp]
  BY DEF ChangedAttestations
<1> QED  BY <1>2, <1>3

(* A section replaced.                                                     *)
LEMMA OtherSection ==
  ASSUME NEW kew, Bytes(kew)
  PROVE  /\ \A v : Bytes([kew EXCEPT !.whole = v])
         /\ \A v : Bytes([kew EXCEPT !.trailing = v])
         /\ \A v : Bytes([kew EXCEPT !.envelope = v])
         /\ \A v : Bytes([kew EXCEPT !.signature =
                            [kew.signature EXCEPT !.key_id = v]])
         /\ Bytes([kew EXCEPT !.signature =
                     [kew.signature EXCEPT !.signature = Sign("nobody", <<>>)]])
         /\ \A atts : IsSeq(atts) /\ (\A i \in DOMAIN atts : Carried(atts[i]))
                        => Bytes([kew EXCEPT !.attestations = atts])
<1>1. ASSUME NEW d, IsKew(d),
             \/ d.signature.signature = kew.signature.signature
             \/ d.signature.signature = Sign("nobody", <<>>),
             \A i \in DOMAIN d.attestations : Carried(d.attestations[i])
      PROVE  Bytes(d)
  BY <1>1 DEF Bytes
<1>2. IsKew(kew) /\ \A i \in DOMAIN kew.attestations : Carried(kew.attestations[i])
  BY DEF Bytes
<1>3. ASSUME NEW v PROVE Bytes([kew EXCEPT !.whole = v])
  BY <1>1, <1>2 DEF IsKew
<1>4. ASSUME NEW v PROVE Bytes([kew EXCEPT !.trailing = v])
  BY <1>1, <1>2 DEF IsKew
<1>5. ASSUME NEW v PROVE Bytes([kew EXCEPT !.envelope = v])
  BY <1>1, <1>2 DEF IsKew
<1>6. ASSUME NEW v
      PROVE  Bytes([kew EXCEPT !.signature = [kew.signature EXCEPT !.key_id = v]])
  BY <1>1, <1>2 DEF IsKew
<1>7. Bytes([kew EXCEPT !.signature =
               [kew.signature EXCEPT !.signature = Sign("nobody", <<>>)]])
  BY <1>1, <1>2 DEF IsKew
<1>8. ASSUME NEW atts, IsSeq(atts), \A i \in DOMAIN atts : Carried(atts[i])
      PROVE  Bytes([kew EXCEPT !.attestations = atts])
  BY <1>1, <1>2, <1>8 DEF IsKew
<1> QED  BY <1>3, <1>4, <1>5, <1>6, <1>7, <1>8

LEMMA DamagedBytes ==
  ASSUME FilesInv, NEW kew, Bytes(kew), NEW d \in Damaged(kew)
  PROVE  Bytes(d)
<1>1. /\ IsSeq(kew.attestations)
      /\ \A i \in DOMAIN kew.attestations : Carried(kew.attestations[i])
  BY DEF Bytes, IsKew
<1>2. CASE d \in {[kew EXCEPT !.whole = FALSE], [kew EXCEPT !.trailing = TRUE]}
  <2>1. /\ \A v : Bytes([kew EXCEPT !.whole = v])
        /\ \A v : Bytes([kew EXCEPT !.trailing = v])
    BY OtherSection, Zenon
  <2>2. d = [kew EXCEPT !.whole = FALSE] \/ d = [kew EXCEPT !.trailing = TRUE]
    BY <1>2
  <2> QED  BY <2>1, <2>2, Zenon
<1>3. CASE d \in Reheaded(kew)
  <2>1. \A v : Bytes([kew EXCEPT !.envelope = v])
    BY OtherSection, Zenon
  <2> QED  BY <1>3, <2>1 DEF Reheaded
<1>4. CASE d \in Resigned(kew)
  <2>1. \A v : Bytes([kew EXCEPT !.signature = [kew.signature EXCEPT !.key_id = v]])
    BY OtherSection, Zenon
  <2>2. Bytes([kew EXCEPT !.signature =
                 [kew.signature EXCEPT !.signature = Sign("nobody", <<>>)]])
    BY OtherSection, Zenon
  <2>3. \/ d = [kew EXCEPT !.signature = [kew.signature EXCEPT !.key_id = "unknown"]]
        \/ d = [kew EXCEPT !.signature =
                  [kew.signature EXCEPT !.signature = Sign("nobody", <<>>)]]
    BY <1>4 DEF Resigned
  <2> QED  BY <2>1, <2>2, <2>3, Zenon
<1>5. ASSUME NEW i \in DOMAIN kew.attestations,
             NEW a \in ChangedAttestations(kew.attestations[i]),
             d = [kew EXCEPT !.attestations[i] = a]
      PROVE  Bytes(d)
  <2>1. PICK atts : atts = [kew.attestations EXCEPT ![i] = a]
    OBVIOUS
  <2>2. Carried(a)
    BY <1>1, ChangedIsCarried
  <2>3. /\ atts = [j \in DOMAIN kew.attestations |-> atts[j]]
        /\ \A j \in DOMAIN atts : Carried(atts[j])
    BY <1>1, <2>1, <2>2
  <2>4. IsSeq(atts)
    BY <1>1, <2>3, MappedIsSeq
  <2>5. d = [kew EXCEPT !.attestations = atts]
    BY <1>5, <2>1
  <2> QED  BY <2>3, <2>4, <2>5, OtherSection
<1>6. ASSUME NEW q \in Place, NEW g \in file[q], d \in SplicedWith(kew, g.kew)
      PROVE  Bytes(d)
  <2>1. Bytes(g.kew)
    BY FilesFacts
  <2>2. PICK s, t : s = kew.attestations /\ t = g.kew.attestations
    OBVIOUS
  <2>3. /\ IsSeq(t)
        /\ \A i \in DOMAIN t : Carried(t[i])
    BY <2>1, <2>2 DEF Bytes, IsKew
  <2>4. /\ IsSeq(s \o t)
        /\ \A i \in DOMAIN (s \o t) : (s \o t)[i] \in ToSet(s) \cup ToSet(t)
    BY <1>1, <2>2, <2>3, JoinedIsSeq
  <2>5. \A a \in ToSet(s) \cup ToSet(t) : Carried(a)
    BY <1>1, <2>2, <2>3 DEF ToSet
  <2>6. \A i \in DOMAIN (s \o t) : Carried((s \o t)[i])
    BY <2>4, <2>5
  <2>7. \A atts : IsSeq(atts) /\ (\A i \in DOMAIN atts : Carried(atts[i]))
                    => Bytes([kew EXCEPT !.attestations = atts])
    BY OtherSection, Zenon
  <2> QED  BY <1>6, <2>1, <2>2, <2>3, <2>4, <2>6, <2>7 DEF SplicedWith
<1>7. CASE d \in Marked(kew)
  BY <1>5, <1>7 DEF Marked
<1>8. CASE d \in Spliced(kew)
  BY <1>6, <1>8 DEF Spliced
<1> QED  BY <1>2, <1>3, <1>4, <1>7, <1>8 DEF Damaged

LEMMA DamageKeepsFiles ==
  ASSUME FilesInv, NEW p \in Place, Damage(p)
  PROVE  FilesInv'
<1>1. made' = made /\ stated' = stated
  BY DEF Damage
<1>2. PICK f \in file[p] : \E kew \in Damaged(f.kew) : Put(p, [f EXCEPT !.kew = kew])
  BY DEF Damage
<1>3. PICK kew \in Damaged(f.kew) : Put(p, [f EXCEPT !.kew = kew])
  BY <1>2
<1>4. PICK g : g = [f EXCEPT !.kew = kew]
  OBVIOUS
<1>5. IsFile(g) /\ g.address = f.address /\ g.kew = kew
  BY <1>4, FilesFacts, Altered
<1>6. Bytes(g.kew)'
  <2>1. Bytes(kew)
    BY FilesFacts, DamagedBytes
  <2> QED  BY <1>1, <1>5, <2>1, BytesLast
<1> QED  BY <1>1, <1>3, <1>4, <1>5, <1>6, Rewritten

-----------------------------------------------------------------------------
(* Signing.                                                                *)

(* A set that was signed for the file's hash may take the place of what    *)
(* the file carried.                                                       *)
LEMMA SignedBytes ==
  ASSUME made' = made, NEW list, IsSeq(list), NEW signed,
         signed = [i \in DOMAIN list |-> signed[i]],
         \A i \in DOMAIN list : AsSigned(signed[i]),
         stated' = stated \cup ToSet(signed),
         NEW kew, Bytes(kew)
  PROVE  /\ Bytes(WithAttestations(kew, signed))'
         /\ stated \subseteq stated' /\ \A a \in stated' \ stated : AsSigned(a)
<1>1. stated \subseteq stated' /\ \A a \in stated' \ stated : AsSigned(a)
  BY DEF ToSet
<1>2. IsSeq(signed) /\ \A i \in DOMAIN signed : signed[i] \in stated'
  BY MappedIsSeq DEF ToSet
<1>3. PICK d : d = WithAttestations(kew, signed)
  OBVIOUS
<1>4. /\ IsKew(d) /\ d.signature = kew.signature /\ d.attestations = signed
  BY <1>2, <1>3 DEF Bytes, IsKew, WithAttestations
<1>5. \A i \in DOMAIN d.attestations :
        Sealed(d.attestations[i]) /\ d.attestations[i] \in stated'
  BY <1>2, <1>4 DEF AsSigned
<1>6. \/ d.signature.signature = Sign("nobody", <<>>)
      \/ \E e \in made : d.signature.signature = Sign("compiler", e)
  BY <1>4 DEF Bytes
<1>7. Bytes(d)'
  BY <1>4, <1>5, <1>6 DEF Bytes, Carried
<1> QED  BY <1>1, <1>3, <1>7

LEMMA AttachKeepsFiles ==
  ASSUME FilesInv, NEW p \in Place, AttachStatements(p)
  PROVE  FilesInv'
<1> DEFINE
     Hash(f)     == f.kew.envelope.manifest.artifact_hash
     Stamp(f, s) == [MockTsaStamp(Hash(f), clock) EXCEPT !.class = s.class]
     Signed(f, list) ==
       [ i \in DOMAIN list |->
           SignAttestation(
             Unsigned(Hash(f), list[i].type, f.kew.envelope.manifest, list[i].version,
                      Stamp(f, list[i]), list[i].expiration), "expert") ]
<1>1. made' = made
  BY DEF AttachStatements
<1>2. PICK f \in file[p] : \E list \in Statements :
        /\ Put(p, [f EXCEPT !.kew = WithAttestations(f.kew, Signed(f, list))])
        /\ stated' = stated \cup ToSet(Signed(f, list))
  BY DEF AttachStatements
<1>3. PICK list \in Statements :
        /\ Put(p, [f EXCEPT !.kew = WithAttestations(f.kew, Signed(f, list))])
        /\ stated' = stated \cup ToSet(Signed(f, list))
  BY <1>2
<1>4. PICK signed : signed = Signed(f, list)
  OBVIOUS
<1>5. /\ signed = [i \in DOMAIN list |-> signed[i]]
      /\ \A i \in DOMAIN list : AsSigned(signed[i])
  <2>1. signed = [i \in DOMAIN list |-> signed[i]]
    BY <1>4
  <2>2. ASSUME NEW i \in DOMAIN list PROVE AsSigned(signed[i])
    <3>1. VerifiesAsMock(Stamp(f, list[i]), Hash(f))
      BY MockStampsVerify
    <3>2. signed[i] = SignAttestation(
            Unsigned(Hash(f), list[i].type, f.kew.envelope.manifest, list[i].version,
                     Stamp(f, list[i]), list[i].expiration), "expert")
      BY <1>4
    <3> HIDE DEF Hash, Stamp, Signed
    <3> QED  BY <3>1, <3>2, SignedIsAsSigned
  <2> QED  BY <2>1, <2>2
<1>6. IsSeq(list)
  BY ArgumentsAssumption DEF IsSeq
<1> HIDE DEF Hash, Stamp, Signed
<1>7. PICK kew : kew = WithAttestations(f.kew, signed)
  OBVIOUS
<1>8. /\ Bytes(kew)' /\ stated \subseteq stated'
      /\ \A a \in stated' \ stated : AsSigned(a)
  BY <1>1, <1>3, <1>4, <1>5, <1>6, <1>7, FilesFacts, SignedBytes
<1>9. PICK g : g = [f EXCEPT !.kew = kew]
  OBVIOUS
<1>10. IsFile(g) /\ g.address = f.address /\ g.kew = kew
  BY <1>9, FilesFacts, Altered
<1>11. Put(p, g)
  BY <1>3, <1>4, <1>7, <1>9, Zenon
<1> QED  BY <1>1, <1>8, <1>10, <1>11, Rewritten

(* `ke attest` may write under another address than the one it was called  *)
(* with, and even in a new place, but never under an address twice.        *)
LEMMA AttestKeepsFiles ==
  ASSUME FilesInv, NEW p \in Place, Attest(p)
  PROVE  FilesInv'
<1> DEFINE
     Hash(f) == f.kew.envelope.manifest.artifact_hash
     Signed(f, list) ==
       [ i \in DOMAIN list |->
           SignAttestation(
             Unsigned(Hash(f), list[i], f.kew.envelope.manifest, "ap-1",
                      MockTsaStamp(Hash(f), clock), {}), "expert") ]
     New(kew, hash) ==
       {[address |-> hash, kew |-> kew, stage |-> "none", bundled |-> FALSE]}
     Written(kew, hash, q) ==
       [ file EXCEPT ![q] = IF @ = {} THEN New(kew, hash)
                            ELSE {[g EXCEPT !.kew = kew] : g \in @} ]
     Advanced(w) == [ w EXCEPT ![p] = {[g EXCEPT !.stage = "ExpertAttested"] : g \in @} ]
     Kew(f, list) == WithAttestations(f.kew, Signed(f, list))
     Valid(f, list) == VerifyAttestationSet(Decoded(Kew(f, list)), Permissive,
                                            ExpertDirectory, LocalContext) = {}
<1>1. made' = made
  BY DEF Attest
<1>2. PICK f \in file[p], list \in AttestArgs :
        /\ \E q \in Home(Hash(f)) :
             file' = IF Valid(f, list) THEN Advanced(Written(Kew(f, list), Hash(f), q))
                                       ELSE Written(Kew(f, list), Hash(f), q)
        /\ stated' = stated \cup ToSet(Signed(f, list))
  BY Zenon DEF Attest
<1>3. PICK q \in Home(Hash(f)) :
        \/ file' = Written(Kew(f, list), Hash(f), q)
        \/ file' = Advanced(Written(Kew(f, list), Hash(f), q))
  <2> HIDE DEF Valid, Advanced, Written, Kew, Hash
  <2> QED  BY <1>2
<1>4. PICK signed : signed = Signed(f, list)
  OBVIOUS
<1>5. PICK hash : hash = Hash(f)
  OBVIOUS
<1>6. /\ signed = [i \in DOMAIN list |-> signed[i]]
      /\ \A i \in DOMAIN list : AsSigned(signed[i])
  <2>1. signed = [i \in DOMAIN list |-> signed[i]]
    BY <1>4
  <2>2. ASSUME NEW i \in DOMAIN list PROVE AsSigned(signed[i])
    <3>1. VerifiesAsMock(MockTsaStamp(Hash(f), clock), Hash(f))
      BY MockStampsVerify
    <3>2. signed[i] = SignAttestation(
            Unsigned(Hash(f), list[i], f.kew.envelope.manifest, "ap-1",
                     MockTsaStamp(Hash(f), clock), {}), "expert")
      BY <1>4
    <3> HIDE DEF Hash, Signed
    <3> QED  BY <3>1, <3>2, SignedIsAsSigned
  <2> QED  BY <2>1, <2>2
<1>7. IsSeq(list)
  BY ArgumentsAssumption DEF IsSeq
<1> HIDE DEF Hash, Signed
<1>8. PICK kew : kew = Kew(f, list) /\ kew = WithAttestations(f.kew, signed)
  BY <1>4
<1>9. /\ Bytes(kew)' /\ stated \subseteq stated'
      /\ \A a \in stated' \ stated : AsSigned(a)
  BY <1>1, <1>2, <1>4, <1>6, <1>7, <1>8, FilesFacts, SignedBytes
<1>10. q \in Place /\ (file[q] # {} \/ Fresh(hash))
  BY <1>3, <1>5 DEF Home, Fresh
<1>11. PICK w : w = Written(kew, hash, q)
  OBVIOUS
<1>12. file' = w \/ file' = Advanced(w)
  <2> HIDE DEF Kew, Written, Advanced
  <2> QED  BY <1>3, <1>5, <1>8, <1>11, Zenon
<1>13. /\ w = [r \in Place |-> w[r]]
       /\ \A r \in Place \ {q} : w[r] = file[r]
       /\ w[q] = IF file[q] = {} THEN New(kew, hash)
                 ELSE {[g EXCEPT !.kew = kew] : g \in file[q]}
  BY <1>10, <1>11 DEF FilesInv
<1>14. ASSUME NEW r \in Place, NEW h \in w[r]
       PROVE  /\ IsFile(h) /\ Bytes(h.kew)'
              /\ \/ \E g \in file[r] : g.address = h.address
                 \/ r = q /\ Fresh(h.address)
              /\ \A i \in w[r] : h = i
  <2>1. CASE r # q
    <3>1. h \in file[r] /\ w[r] = file[r]
      BY <1>13, <1>14, <2>1
    <3>2. IsFile(h) /\ Bytes(h.kew)'
      BY <1>1, <1>9, <3>1, FilesFacts, BytesLast
    <3> QED  BY <3>1, <3>2 DEF FilesInv, OneFileEach
  <2>2. CASE r = q /\ file[q] = {}
    <3>1. w[r] = New(kew, hash)
      BY <1>13, <2>2
    <3> QED  BY <1>9, <1>10, <1>14, <2>2, <3>1 DEF IsFile
  <2>3. CASE r = q /\ file[q] # {}
    <3>1. w[r] = {[g EXCEPT !.kew = kew] : g \in file[r]}
      BY <1>13, <2>3
    <3>2. PICK g \in file[r] : h = [g EXCEPT !.kew = kew]
      BY <1>14, <3>1
    <3>3. IsFile(h) /\ h.address = g.address /\ h.kew = kew
      BY <3>2, FilesFacts, Altered
    <3>4. \A i \in w[r] : h = i
      BY <3>1, <3>2 DEF FilesInv, OneFileEach
    <3> QED  BY <1>9, <3>3, <3>4
  <2> QED  BY <2>1, <2>2, <2>3
<1> HIDE DEF New, Written
<1>15. /\ file' = [r \in Place |-> file'[r]]
       /\ \A r \in Place :
            \/ file'[r] = w[r]
            \/ file'[r] = {[g EXCEPT !.stage = "ExpertAttested"] : g \in w[r]}
  BY <1>12, <1>13
<1>16. ASSUME NEW r \in Place, NEW h \in file'[r]
       PROVE  /\ IsFile(h) /\ Bytes(h.kew)'
              /\ \/ \E g \in file[r] : g.address = h.address
                 \/ r = q /\ Fresh(h.address)
              /\ \A i \in file'[r] : h = i
  <2>1. CASE file'[r] = w[r]
    BY <1>14, <1>16, <2>1
  <2>2. CASE file'[r] = {[g EXCEPT !.stage = "ExpertAttested"] : g \in w[r]}
    <3>1. PICK g \in w[r] : h = [g EXCEPT !.stage = "ExpertAttested"]
      BY <1>16, <2>2
    <3>2. IsFile(g)
      BY <1>14
    <3>3. IsFile(h) /\ h.address = g.address /\ h.kew = g.kew
      BY <3>1, <3>2, Altered
    <3>4. /\ Bytes(h.kew)'
          /\ \/ \E f1 \in file[r] : f1.address = h.address
             \/ r = q /\ Fresh(h.address)
      BY <1>14, <3>3
    <3>5. \A i \in file'[r] : h = i
      BY <1>14, <2>2, <3>1
    <3> QED  BY <3>3, <3>4, <3>5
  <2> QED  BY <1>15, <2>1, <2>2
<1> HIDE DEF Advanced
<1> QED  BY <1>9, <1>15, <1>16, FilesKept

-----------------------------------------------------------------------------
(* The answers.                                                            *)

Answered == AcceptedIsAsMade /\ ExportedUnderTheirAddress /\ MockStampsStayLocal

LEMMA IdleAcceptsNothing ==
  ASSUME answer' = Idle
  PROVE  Answered'
<1>1. answer'.what = "idle"
  BY DEF Idle
<1>2. Accepted' = {}
  BY <1>1 DEF Accepted
<1> QED  BY <1>1, <1>2 DEF Answered, AcceptedIsAsMade, ExportedUnderTheirAddress,
                         MockStampsStayLocal

(* `verified` is said only where there was no reason to refuse.            *)
LEMMA VerifiedIsClean ==
  ASSUME NEW kew, NEW directory, NEW ctx, NEW policy, NEW evidence,
         VerifyArtifact(kew, directory, ctx, policy, evidence).verdict.verified
  PROVE  NothingWorse(VerifyArtifact(kew, directory, ctx, policy, evidence))
<1>1. ASSUME NEW why, Verdict(why).verified PROVE Verdict(why).why = {}
  BY <1>1 DEF Verdict
<1>2. \E why : VerdictFor(kew, directory, ctx, policy, evidence) = Verdict(why)
  BY Zenon DEF VerdictFor
<1>3. \E why : VerifyArtifact(kew, directory, ctx, policy, evidence).verdict = Verdict(why)
  <2>1. CASE DecodeErrors(kew) # {}
    BY <2>1 DEF VerifyArtifact
  <2>2. CASE DecodeErrors(kew) = {}
    BY <1>2, <2>2 DEF VerifyArtifact
  <2> QED  BY <2>1, <2>2
<1> QED  BY <1>1, <1>3 DEF NothingWorse

LEMMA ImportAnswers ==
  ASSUME FilesInv, NEW p \in Place, Import(p)
  PROVE  Answered'
<1>1. file' = file /\ made' = made /\ stated' = stated
  BY DEF Import
<1>2. PICK f \in file[p] :
        answer' = [ what |-> IF ImportAccepts(Exported(f)) THEN "imported" ELSE "refused",
                    at |-> p, outcome |-> ImportOutcome(Exported(f)) ]
  BY DEF Import
<1>3. /\ answer'.what = IF ImportAccepts(f.kew) THEN "imported" ELSE "refused"
      /\ answer'.at = p
  BY <1>2 DEF Exported
<1>4. \A g \in file[p] : g = f
  BY DEF FilesInv, OneFileEach
<1>5. Accepted' \subseteq {f.kew} /\ (Accepted' # {} => ImportAccepts(f.kew))
  BY <1>1, <1>3, <1>4 DEF Accepted
<1>6. ImportAccepts(f.kew) => AsMade(f.kew)
  <2> SUFFICES ASSUME ImportAccepts(f.kew) PROVE AsMade(f.kew)
    OBVIOUS
  <2>1. NothingWorse(VerifyArtifact(f.kew, ImportDirectory, ImportContext(f.kew),
                                    Permissive, NoRegistry))
    BY DEF ImportAccepts, ImportOutcome, NothingWorse
  <2>2. Bytes(f.kew) /\ \A c \in stated : AsSigned(c)
    BY FilesFacts DEF FilesInv
  <2> QED  BY <2>1, <2>2, DirectoriesHoldTestKeys, WhatPassesIsAsMade
<1>7. AcceptedIsAsMade'
  BY <1>1, <1>5, <1>6 DEF AcceptedIsAsMade, AsMade
<1>8. answer'.what # "graph" /\ (answer'.what # "imported" => Accepted' = {})
  BY <1>3, <1>5
<1>9. ExportedUnderTheirAddress' /\ MockStampsStayLocal'
  BY <1>8 DEF ExportedUnderTheirAddress, MockStampsStayLocal
<1> QED  BY <1>7, <1>9 DEF Answered

(* What POST /verify and `ke graph export` call verified.                  *)
LEMMA OnlineIsAsMade ==
  ASSUME FilesInv, NEW p \in Place, NEW f \in file[p], NEW env, NEW policy,
         OnlineOutcome(f, env, policy).verdict.verified
  PROVE  /\ AsMade(f.kew)
         /\ ContentHash(f.kew.envelope) = f.kew.envelope.manifest.artifact_hash
         /\ env # "local" => f.kew.attestations = <<>>
<1>1. NothingWorse(VerifyArtifact(f.kew, TestKeyDirectory(f.kew),
                                  OwnContext(f.kew, env), policy, Evidence(f)))
  BY VerifiedIsClean DEF OnlineOutcome
<1>2. Bytes(f.kew) /\ \A c \in stated : AsSigned(c)
  BY FilesFacts DEF FilesInv
<1>3. OwnContext(f.kew, env).environment = env
  BY DEF OwnContext
<1> QED  BY <1>1, <1>2, <1>3, DirectoriesHoldTestKeys, WhatPassesIsAsMade

LEMMA ServeAnswers ==
  ASSUME FilesInv, NEW p \in Place, Serve(p)
  PROVE  Answered'
<1>1. file' = file /\ made' = made /\ stated' = stated
  BY DEF Serve
<1>2. PICK f \in file[p], env \in Env, policy \in DOMAIN ServePolicy :
        answer' = IF DecodeErrors(f.kew) # {} THEN [what |-> "error", at |-> p]
                  ELSE [ what |-> "served", at |-> p, env |-> env, policy |-> policy,
                         outcome |-> OnlineOutcome(f, env, ServePolicy[policy]) ]
  BY Zenon DEF Serve
<1>3. PICK outcome : outcome = OnlineOutcome(f, env, ServePolicy[policy])
  OBVIOUS
<1>4. \/ answer' = [what |-> "error", at |-> p]
      \/ answer' = [ what |-> "served", at |-> p, env |-> env, policy |-> policy,
                     outcome |-> outcome ]
  BY <1>2, <1>3
<1>5. outcome.verdict.verified
        => AsMade(f.kew) /\ (env # "local" => f.kew.attestations = <<>>)
  BY <1>3, OnlineIsAsMade
<1>6. \A g \in file[p] : g = f
  BY DEF FilesInv, OneFileEach
<1>7. CASE answer' = [what |-> "error", at |-> p]
  <2>1. answer'.what = "error"
    BY <1>7
  <2>2. Accepted' = {}
    BY <2>1 DEF Accepted
  <2> QED  BY <2>1, <2>2 DEF Answered, AcceptedIsAsMade, ExportedUnderTheirAddress,
                             MockStampsStayLocal
<1>8. CASE answer' = [ what |-> "served", at |-> p, env |-> env, policy |-> policy,
                       outcome |-> outcome ]
  <2>1. /\ answer'.what = "served" /\ answer'.at = p /\ answer'.env = env
        /\ answer'.outcome = outcome
    BY <1>8
  <2>2. Accepted' \subseteq {f.kew} /\ (Accepted' # {} => outcome.verdict.verified)
    BY <1>1, <1>6, <2>1 DEF Accepted
  <2>3. AcceptedIsAsMade'
    BY <1>1, <1>5, <2>2 DEF AcceptedIsAsMade, AsMade
  <2>4. MockStampsStayLocal'
    BY <1>5, <2>1, <2>2 DEF MockStampsStayLocal
  <2>5. ExportedUnderTheirAddress'
    BY <2>1 DEF ExportedUnderTheirAddress
  <2> QED  BY <2>3, <2>4, <2>5 DEF Answered
<1> QED  BY <1>4, <1>7, <1>8

LEMMA GraphAnswers ==
  ASSUME FilesInv, NEW env \in Env, GraphExport(env)
  PROVE  Answered'
<1>1. file' = file /\ made' = made /\ stated' = stated
  BY Zenon DEF GraphExport
<1>2. PICK chosen : chosen = { f \in UNION { file[p] : p \in Place } : Admitted(f, env) }
  OBVIOUS
<1>3. answer'.what = "graph" /\ answer'.env = env /\ answer'.exported = chosen
  <2>1. \E graph : answer' = [ what |-> "graph", env |-> env, exported |-> chosen,
                               graph |-> graph ]
    BY <1>2, Zenon DEF GraphExport
  <2> QED  BY <2>1
<1>4. ASSUME NEW f \in chosen
      PROVE  /\ \E p \in Place : f \in file[p]
             /\ AsMade(f.kew) /\ f.address = ContentHash(f.kew.envelope)
             /\ env # "local" => f.kew.attestations = <<>>
  <2>1. PICK p \in Place : f \in file[p]
    BY <1>2, <1>4
  <2>2. /\ f.kew.envelope.manifest.artifact_hash = f.address
        /\ OnlineOutcome(f, env, StrictPolicy(PolicyForKind(
             f.kew.envelope.manifest.artifact_kind))).verdict.verified
    BY <1>2, <1>4 DEF Admitted
  <2> QED  BY <2>1, <2>2, OnlineIsAsMade
<1>5. Accepted' = { f.kew : f \in chosen }
  BY <1>3 DEF Accepted
<1>6. AcceptedIsAsMade'
  BY <1>1, <1>4, <1>5 DEF AcceptedIsAsMade, AsMade
<1>7. MockStampsStayLocal'
  BY <1>3, <1>4, <1>5 DEF MockStampsStayLocal
<1>8. ASSUME NEW f \in chosen, NEW g \in chosen, f.kew.envelope = g.kew.envelope
      PROVE  f = g
  <2>1. f.address = g.address
    BY <1>4, <1>8
  <2>2. PICK p \in Place, q \in Place : f \in file[p] /\ g \in file[q]
    BY <1>4
  <2> QED  BY <2>1, <2>2 DEF FilesInv, OneFileEach
<1>9. ExportedUnderTheirAddress'
  BY <1>3, <1>4, <1>8 DEF ExportedUnderTheirAddress
<1> QED  BY <1>6, <1>7, <1>9 DEF Answered

-----------------------------------------------------------------------------
(* Every step.                                                             *)

LEMMA FilesInvStep ==
  ASSUME FilesInv, [Next]_vars
  PROVE  FilesInv'
<1>1. CASE UNCHANGED <<file, made, stated>>
  BY <1>1 DEF FilesInv, OneFileEach, Bytes, Carried
<1>2. ASSUME NEW p \in Place,
             \/ Assemble(p) \/ Attest(p) \/ AttachStatements(p) \/ Publish(p)
             \/ Withdraw(p) \/ Damage(p)
      PROVE  FilesInv'
  BY <1>2, AssembleKeepsFiles, AttestKeepsFiles, AttachKeepsFiles,
     PublishKeepsFiles, DamageKeepsFiles
<1>3. ASSUME NEW p \in Place, Import(p) \/ Serve(p)
      PROVE  UNCHANGED <<file, made, stated>>
  BY <1>3, Zenon DEF Import, Serve
<1>4. ASSUME NEW env \in Env, GraphExport(env)
      PROVE  UNCHANGED <<file, made, stated>>
  BY <1>4, Zenon DEF GraphExport
<1>5. Tick \/ Done \/ vars' = vars => UNCHANGED <<file, made, stated>>
  BY DEF Tick, Done, vars
<1> QED  BY <1>1, <1>2, <1>3, <1>4, <1>5, Zenon DEF Next

(* Only the programs that check files answer.                              *)
LEMMA OtherwiseIdle ==
  ASSUME [Next]_vars
  PROVE  \/ vars' = vars \/ answer' = Idle
         \/ \E p \in Place : Import(p) \/ Serve(p)
         \/ \E env \in Env : GraphExport(env)
<1>1. ASSUME NEW p \in Place,
             \/ Assemble(p) \/ Attest(p) \/ AttachStatements(p) \/ Publish(p)
             \/ Withdraw(p) \/ Damage(p)
      PROVE  answer' = answer
  <2>1. Assemble(p) => answer' = answer
    BY Zenon DEF Assemble
  <2>2. Attest(p) => answer' = answer
    BY Zenon DEF Attest
  <2>3. AttachStatements(p) => answer' = answer
    BY Zenon DEF AttachStatements
  <2>4. Publish(p) => answer' = answer
    BY Zenon DEF Publish
  <2>5. Withdraw(p) => answer' = answer
    BY Zenon DEF Withdraw
  <2>6. Damage(p) => answer' = answer
    BY Zenon DEF Damage
  <2> QED  BY <1>1, <2>1, <2>2, <2>3, <2>4, <2>5, <2>6
<1>2. (Tick => answer' = answer) /\ (Done => answer' = Idle)
  BY DEF Tick, Done
<1> QED  BY <1>1, <1>2, Zenon DEF Next

LEMMA AnsweredStep ==
  ASSUME FilesInv, Answered, [Next]_vars
  PROVE  Answered'
<1>1. CASE vars' = vars
  <2>1. /\ answer' = answer /\ file' = file /\ made' = made /\ stated' = stated
    BY <1>1 DEF vars
  <2> QED  BY <2>1 DEF Answered, AcceptedIsAsMade, Accepted,
                       ExportedUnderTheirAddress, MockStampsStayLocal
<1>2. ASSUME NEW p \in Place, Import(p) \/ Serve(p)
      PROVE  Answered'
  BY <1>2, ImportAnswers, ServeAnswers
<1>3. ASSUME NEW env \in Env, GraphExport(env)
      PROVE  Answered'
  BY <1>3, GraphAnswers
<1> QED  BY <1>1, <1>2, <1>3, OtherwiseIdle, IdleAcceptsNothing

LEMMA AcceptanceInvInit == Init => AcceptanceInv
<1> SUFFICES ASSUME Init PROVE AcceptanceInv
  OBVIOUS
<1>1. /\ file = [p \in Place |-> {}] /\ made = {} /\ stated = {}
      /\ answer.what = "idle"
  BY DEF Init, Idle
<1>2. FilesInv
  BY <1>1 DEF FilesInv, OneFileEach
<1>3. Accepted = {}
  BY <1>1 DEF Accepted
<1> QED  BY <1>1, <1>2, <1>3 DEF AcceptanceInv, AcceptedIsAsMade,
                                 ExportedUnderTheirAddress, MockStampsStayLocal

LEMMA AcceptanceInvStep == AcceptanceInv /\ [Next]_vars => AcceptanceInv'
  BY FilesInvStep, AnsweredStep DEF AcceptanceInv, Answered

(* verify_artifact behind every program: an envelope that any of them      *)
(* accepts is one the compiler assembled, and every attestation on it was  *)
(* signed, field by field, for that envelope, whatever was cut, altered,   *)
(* spliced or re-attached in between.                                      *)
THEOREM AcceptanceIsOfWhatWasMade == Spec => []AcceptedIsAsMade
<1>1. AcceptanceInv => AcceptedIsAsMade
  BY DEF AcceptanceInv
<1> QED  BY <1>1, AcceptanceInvInit, AcceptanceInvStep, PTL DEF Spec

(* `ke graph export` takes a file only from the address that its content   *)
(* hashes to, and so no artifact from two places.                          *)
THEOREM GraphTakesFilesWhereTheyBelong == Spec => []ExportedUnderTheirAddress
<1>1. AcceptanceInv => ExportedUnderTheirAddress
  BY DEF AcceptanceInv
<1> QED  BY <1>1, AcceptanceInvInit, AcceptanceInvStep, PTL DEF Spec

(* R8: what only the mock authority has stamped verifies nowhere but in    *)
(* the local environment, relabelled tokens included.                      *)
THEOREM MockStampsNeverTravel == Spec => []MockStampsStayLocal
<1>1. AcceptanceInv => MockStampsStayLocal
  BY DEF AcceptanceInv
<1> QED  BY <1>1, AcceptanceInvInit, AcceptanceInvStep, PTL DEF Spec

-----------------------------------------------------------------------------
(* What refusal of a file is worth.                                        *)

(* An envelope as the compiler leaves it: it decodes, and its hash is that *)
(* of its content.                                                         *)
WellMade(e) ==
  /\ ContentHash(e) = e.manifest.artifact_hash
  /\ e.manifest.form = "canonical"
  /\ "intent" \in DOMAIN e.payload <=> e.manifest.artifact_kind = "IntentSpec"
  /\ "intent" \notin DOMAIN e.payload =>
       \A i \in DOMAIN e.payload.rules : e.payload.rules[i].form = "canonical"

GenuineInv ==
  /\ FilesInv
  /\ \A e \in made : WellMade(e)
  /\ GenuineIsNotCalledDamaged

(* content_hash zeroes the slot that the hash was patched into, so it      *)
(* hashes what the assembler hashed.                                       *)
LEMMA PatchedHash ==
  ASSUME NEW manifest, manifest = [k \in DOMAIN manifest |-> manifest[k]],
         "artifact_hash" \in DOMAIN manifest, manifest.artifact_hash = ZeroHash,
         NEW payload, NEW index, NEW hash, NEW e,
         e = WithHash([manifest |-> manifest, payload |-> payload, index |-> index], hash)
  PROVE  /\ WithHash(e, ZeroHash)
              = [manifest |-> manifest, payload |-> payload, index |-> index]
         /\ e.manifest.artifact_hash = hash
         /\ \A k \in DOMAIN manifest \ {"artifact_hash"} : e.manifest[k] = manifest[k]
         /\ e.payload = payload
<1>1. e = [ manifest |-> [manifest EXCEPT !.artifact_hash = hash],
            payload |-> payload, index |-> index ]
  BY DEF WithHash
<1>2. [e.manifest EXCEPT !.artifact_hash = ZeroHash] = manifest
  BY <1>1
<1>3. WithHash(e, ZeroHash)
        = [manifest |-> manifest, payload |-> payload, index |-> index]
  <2>1. WithHash(e, ZeroHash)
          = [e EXCEPT !.manifest = [e.manifest EXCEPT !.artifact_hash = ZeroHash]]
    BY DEF WithHash
  <2>2. [e EXCEPT !.manifest = manifest]
          = [manifest |-> manifest, payload |-> payload, index |-> index]
    BY <1>1
  <2> QED  BY <1>2, <2>1, <2>2
<1> QED  BY <1>1, <1>3

Zeroed(manifest, canonical) ==
  [ manifest |-> [manifest EXCEPT !.artifact_hash = ZeroHash],
    payload |-> canonical,
    index |-> IF "rules" \in DOMAIN canonical
              THEN BuildSpanIndex(canonical.rules) ELSE {} ]

LEMMA AssembledFrom ==
  ASSUME NEW s \in Sources, NEW kew \in AssemblePayload(s.manifest, s.payload, "compiler")
  PROVE  /\ s.manifest.form = "canonical"
         /\ \E canonical \in CanonicalPayload(s.payload) :
              kew.envelope = WithHash(Zeroed(s.manifest, canonical),
                                      Blake3(Zeroed(s.manifest, canonical)))
<1>1. s.manifest.form = "canonical"
  BY DEF AssemblePayload
<1> DEFINE Patched(c) == WithHash(Zeroed(s.manifest, c), Blake3(Zeroed(s.manifest, c)))
<1>2. \E canonical \in IF s.manifest.form # "canonical" THEN {}
                       ELSE CanonicalPayload(s.payload) :
        kew = [ envelope |-> Patched(canonical),
                signature |-> SignEnvelope(Patched(canonical), "compiler"),
                attestations |-> <<>>, whole |-> TRUE, trailing |-> FALSE ]
  BY Zenon DEF AssemblePayload, Zeroed
<1>3. \E canonical \in CanonicalPayload(s.payload) : kew.envelope = Patched(canonical)
  <2> HIDE DEF Patched
  <2> QED  BY <1>1, <1>2
<1> QED  BY <1>1, <1>3

LEMMA AssembledIsWellMade ==
  ASSUME NEW s \in Sources, NEW kew \in AssemblePayload(s.manifest, s.payload, "compiler")
  PROVE  WellMade(kew.envelope)
<1>1. PICK manifest : manifest = [s.manifest EXCEPT !.artifact_hash = ZeroHash]
  OBVIOUS
<1>2. /\ manifest = [k \in DOMAIN manifest |-> manifest[k]]
      /\ "artifact_hash" \in DOMAIN manifest /\ manifest.artifact_hash = ZeroHash
      /\ manifest.form = s.manifest.form
      /\ manifest.artifact_kind = s.manifest.artifact_kind
  BY <1>1, SourcesAssumption
<1>3. s.manifest.form = "canonical"
  BY AssembledFrom
<1>4. PICK canonical \in CanonicalPayload(s.payload) :
        kew.envelope = WithHash(Zeroed(s.manifest, canonical),
                                Blake3(Zeroed(s.manifest, canonical)))
  BY AssembledFrom
<1>5. PICK e, index, zeroed :
        /\ e = kew.envelope
        /\ zeroed = [manifest |-> manifest, payload |-> canonical, index |-> index]
        /\ e = WithHash(zeroed, Blake3(zeroed))
  <2>1. PICK zeroed : zeroed = Zeroed(s.manifest, canonical)
    OBVIOUS
  <2>2. \E index : zeroed = [ manifest |-> manifest, payload |-> canonical,
                             index |-> index ]
    BY <1>1, <2>1 DEF Zeroed
  <2> QED  BY <1>4, <2>1, <2>2
<1>6. /\ WithHash(e, ZeroHash) = zeroed
      /\ e.manifest.artifact_hash = Blake3(zeroed)
      /\ \A k \in DOMAIN manifest \ {"artifact_hash"} : e.manifest[k] = manifest[k]
      /\ e.payload = canonical
  BY <1>2, <1>5, PatchedHash
<1>7. ContentHash(e) = e.manifest.artifact_hash
  BY <1>6 DEF ContentHash
<1>8. e.manifest.form = "canonical" /\ e.manifest.artifact_kind = s.manifest.artifact_kind
  BY <1>1, <1>2, <1>3, <1>6, SourcesAssumption
<1>9. CASE "intent" \in DOMAIN s.payload
  <2>1. canonical = s.payload
    BY <1>4, <1>9 DEF CanonicalPayload
  <2> QED  BY <1>5, <1>6, <1>7, <1>8, <1>9, <2>1, SourcesAssumption DEF WellMade
<1>10. CASE "intent" \notin DOMAIN s.payload
  <2>1. canonical = [rules |-> [ i \in DOMAIN s.payload.rules |->
                                   Canonicalized(s.payload.rules[i]) ]]
    BY <1>4, <1>10 DEF CanonicalPayload
  <2>2. "intent" \notin DOMAIN canonical
    BY <2>1
  <2>3. ASSUME NEW i \in DOMAIN canonical.rules
        PROVE  canonical.rules[i].form = "canonical"
    <3>1. /\ i \in DOMAIN s.payload.rules
          /\ canonical.rules[i] = Canonicalized(s.payload.rules[i])
      BY <2>1
    <3>2. "form" \in DOMAIN s.payload.rules[i]
      BY <1>10, <3>1, SourcesAssumption
    <3> QED  BY <3>1, <3>2 DEF Canonicalized
  <2> QED  BY <1>5, <1>6, <1>7, <1>8, <1>10, <2>2, <2>3, SourcesAssumption DEF WellMade
<1> QED  BY <1>9, <1>10

(* Only the compiler makes envelopes.                                      *)
LEMMA OnlyAssembleMakes ==
  ASSUME [Next]_vars
  PROVE  (\E p \in Place : Assemble(p)) \/ made' = made
<1>1. ASSUME NEW p \in Place,
             \/ Attest(p) \/ AttachStatements(p) \/ Publish(p)
             \/ Withdraw(p) \/ Damage(p) \/ Import(p) \/ Serve(p)
      PROVE  made' = made
  <2>1. Attest(p) => made' = made
    BY Zenon DEF Attest
  <2>2. AttachStatements(p) => made' = made
    BY Zenon DEF AttachStatements
  <2>3. Publish(p) => made' = made
    BY Zenon DEF Publish
  <2>4. Withdraw(p) => made' = made
    BY Zenon DEF Withdraw
  <2>5. Damage(p) => made' = made
    BY Zenon DEF Damage
  <2>6. Import(p) \/ Serve(p) => made' = made
    BY Zenon DEF Import, Serve
  <2> QED  BY <1>1, <2>1, <2>2, <2>3, <2>4, <2>5, <2>6
<1>2. ASSUME NEW env \in Env, GraphExport(env) PROVE made' = made
  BY <1>2, Zenon DEF GraphExport
<1>3. Tick \/ Done \/ vars' = vars => made' = made
  BY DEF Tick, Done, vars
<1> QED  BY <1>1, <1>2, <1>3, Zenon DEF Next

LEMMA MadeStep ==
  ASSUME \A e \in made : WellMade(e), [Next]_vars
  PROVE  \A e \in made' : WellMade(e)
<1>1. ASSUME NEW p \in Place, Assemble(p)
      PROVE  \A e \in made' : WellMade(e)
  <2>1. PICK s \in Sources :
          \E kew \in AssemblePayload(s.manifest, s.payload, "compiler") :
            made' = made \cup {kew.envelope}
    BY <1>1, Zenon DEF Assemble
  <2> QED  BY <2>1, AssembledIsWellMade
<1> QED  BY <1>1, OnlyAssembleMakes

(* The compiler's own file passes every check up to its attestations.      *)
LEMMA GenuinePasses ==
  ASSUME \A e \in made : WellMade(e), NEW kew, Genuine(kew)
  PROVE  ImportOutcome(kew).verdict.why \cap
           {"Decode", "HashMismatch", "CompilerSignatureInvalid"} = {}
<1>1. /\ kew.whole /\ ~ kew.trailing /\ WellMade(kew.envelope)
      /\ kew.signature = SignEnvelope(kew.envelope, "compiler")
  BY DEF Genuine
<1>2. DecodeErrors(kew) = {}
  BY <1>1 DEF WellMade, DecodeErrors
<1>3. VerifyHash(kew)
  BY <1>1 DEF WellMade, VerifyHash
<1>4. \E key \in Lookup(ImportDirectory, kew.signature.key_id) :
        VerifySignature(kew.envelope, kew.signature, key.public_key)
  <2>1. /\ kew.signature.key_id = "compiler"
        /\ kew.signature.signature = Sign("compiler", kew.envelope)
    BY <1>1 DEF SignEnvelope
  <2>2. /\ ImportDirectory[1].key_id = "compiler"
        /\ ImportDirectory[1].public_key = "compiler"
        /\ 1 \in DOMAIN ImportDirectory
    BY DEF ImportDirectory, KeyEntry
  <2>3. ImportDirectory[1] \in Lookup(ImportDirectory, "compiler")
    BY <2>2 DEF Lookup
  <2> QED  BY <2>1, <2>2, <2>3 DEF VerifySignature
<1>5. ASSUME NEW ctx, NEW policy, NEW evidence
      PROVE  VerdictFor(kew, ImportDirectory, ctx, policy, evidence).why
               \in {{"Attestations"}, {"NotPublished"}, {"StaleEventHead"}, {}}
  BY <1>3, <1>4 DEF VerdictFor, Verdict
<1>6. ImportOutcome(kew).verdict
        = VerdictFor(kew, ImportDirectory, ImportContext(kew), Permissive, NoRegistry)
  BY <1>2 DEF ImportOutcome, VerifyArtifact
<1>7. ImportOutcome(kew).verdict.why
        \in {{"Attestations"}, {"NotPublished"}, {"StaleEventHead"}, {}}
  BY <1>5, <1>6
<1> QED  BY <1>7

LEMMA GenuineInvStep == GenuineInv /\ [Next]_vars => GenuineInv'
<1> SUFFICES ASSUME GenuineInv, [Next]_vars PROVE GenuineInv'
  OBVIOUS
<1>1. FilesInv /\ (\A e \in made : WellMade(e)) /\ GenuineIsNotCalledDamaged
  BY DEF GenuineInv
<1>2. FilesInv' /\ \A e \in made' : WellMade(e)
  BY <1>1, FilesInvStep, MadeStep
<1>3. ASSUME NEW p \in Place, Import(p)
      PROVE  GenuineIsNotCalledDamaged'
  <2>1. file' = file /\ made' = made
    BY <1>3 DEF Import
  <2>2. PICK f \in file[p] :
          answer' = [ what |-> IF ImportAccepts(Exported(f)) THEN "imported"
                                                            ELSE "refused",
                      at |-> p, outcome |-> ImportOutcome(Exported(f)) ]
    BY <1>3 DEF Import
  <2>3. answer'.at = p /\ answer'.outcome = ImportOutcome(f.kew)
    BY <2>2 DEF Exported
  <2>4. \A g \in file[p] : g = f
    BY <1>1 DEF FilesInv, OneFileEach
  <2>5. Genuine(f.kew) => ImportOutcome(f.kew).verdict.why \cap
          {"Decode", "HashMismatch", "CompilerSignatureInvalid"} = {}
    BY <1>1, GenuinePasses
  <2> QED  BY <2>1, <2>3, <2>4, <2>5 DEF GenuineIsNotCalledDamaged, Genuine
<1>4. CASE vars' = vars
  <2>1. answer' = answer /\ file' = file /\ made' = made
    BY <1>4 DEF vars
  <2> QED  BY <1>1, <1>2, <2>1 DEF GenuineInv, GenuineIsNotCalledDamaged, Genuine
<1>5. ASSUME answer'.what # "refused" PROVE GenuineIsNotCalledDamaged'
  BY <1>5 DEF GenuineIsNotCalledDamaged
<1>6. ASSUME NEW p \in Place, Serve(p) PROVE answer'.what # "refused"
  <2>1. PICK f \in file[p], env \in Env, policy \in DOMAIN ServePolicy :
          answer' = IF DecodeErrors(f.kew) # {} THEN [what |-> "error", at |-> p]
                    ELSE [ what |-> "served", at |-> p, env |-> env, policy |-> policy,
                           outcome |-> OnlineOutcome(f, env, ServePolicy[policy]) ]
    BY <1>6, Zenon DEF Serve
  <2> QED  BY <2>1
<1>7. ASSUME NEW env \in Env, GraphExport(env) PROVE answer'.what # "refused"
  <2>1. \E chosen, graph : answer' = [ what |-> "graph", env |-> env,
                                       exported |-> chosen, graph |-> graph ]
    BY <1>7, Zenon DEF GraphExport
  <2> QED  BY <2>1
<1>8. answer' = Idle => answer'.what # "refused"
  BY DEF Idle
<1>9. \/ vars' = vars \/ answer' = Idle
      \/ \E p \in Place : Import(p) \/ Serve(p)
      \/ \E env \in Env : GraphExport(env)
  BY OtherwiseIdle
<1>10. GenuineIsNotCalledDamaged'
  BY <1>1, <1>3, <1>4, <1>5, <1>6, <1>7, <1>8, <1>9 DEF GenuineInv
<1> QED  BY <1>2, <1>10 DEF GenuineInv

(* assemble, with_attestations, export and `ke import`: of a file whose    *)
(* envelope and signature are the compiler's, import may say that its      *)
(* attestations do not suffice, but never that it is damaged.              *)
THEOREM GenuineFilesAreRecognised == Spec => []GenuineIsNotCalledDamaged
<1>1. Init => GenuineInv
  BY AcceptanceInvInit DEF Init, Idle, AcceptanceInv, GenuineInv,
                           GenuineIsNotCalledDamaged
<1>2. GenuineInv => GenuineIsNotCalledDamaged
  BY DEF GenuineInv
<1> QED  BY <1>1, <1>2, GenuineInvStep, PTL DEF Spec

-----------------------------------------------------------------------------
(* What publication is worth.                                              *)

(* The gaps of a set all of whose attestations are valid: R6 and R7 are    *)
(* then about their types alone, whoever verifies.                         *)
OfType(artifact, type) ==
  { i \in DOMAIN artifact.attestations :
      artifact.attestations[i].attestation_type = type }

Gaps(artifact, policy) ==
  { "RequiredTypeMissing" : type \in { t \in policy.required :
      Cardinality(OfType(artifact, t)) < RequiredCount(policy, t) } }
  \cup { "CoAttestationAbsent" : type \in
      { t \in CoAttestationTypes(artifact.manifest.artifact_kind) :
          OfType(artifact, "PublicationApproval") # {} /\ OfType(artifact, t) = {} } }

EachVerifies(artifact, directory, ctx) ==
  \A i \in DOMAIN artifact.attestations :
    VerifyAttestation(artifact.attestations[i], artifact.manifest.artifact_hash,
                      artifact.manifest, directory, ctx) = {}

LEMMA SetVerifiesByItsTypes ==
  ASSUME NEW artifact, NEW policy, NEW directory, NEW ctx
  PROVE  VerifyAttestationSet(artifact, policy, directory, ctx) = {}
           <=> EachVerifies(artifact, directory, ctx) /\ Gaps(artifact, policy) = {}
<1> DEFINE
     manifest == artifact.manifest
     verdict  == [ i \in DOMAIN artifact.attestations |->
                     VerifyAttestation(artifact.attestations[i],
                                       manifest.artifact_hash, manifest,
                                       directory, ctx) ]
     valid(type) == { i \in DOMAIN artifact.attestations :
                        /\ verdict[i] = {}
                        /\ artifact.attestations[i].attestation_type = type }
     Missing == { "RequiredTypeMissing" : type \in { t \in policy.required :
                    Cardinality(valid(t)) < RequiredCount(policy, t) } }
     Absent  == { "CoAttestationAbsent" : type \in
                    { t \in CoAttestationTypes(manifest.artifact_kind) :
                        valid("PublicationApproval") # {} /\ valid(t) = {} } }
<1>1. VerifyAttestationSet(artifact, policy, directory, ctx) = {}
        <=> (\A i \in DOMAIN verdict : verdict[i] = {}) /\ Missing = {} /\ Absent = {}
  <2>1. VerifyAttestationSet(artifact, policy, directory, ctx)
          = (UNION { verdict[i] : i \in DOMAIN verdict }) \cup Missing \cup Absent
    BY Zenon DEF VerifyAttestationSet
  <2> HIDE DEF verdict, Missing, Absent
  <2>2. ASSUME NEW reasons,
               reasons = (UNION { verdict[i] : i \in DOMAIN verdict }) \cup Missing \cup Absent
        PROVE  reasons = {} <=> /\ \A i \in DOMAIN verdict : verdict[i] = {}
                                /\ Missing = {} /\ Absent = {}
    <3>1. \A x : x \in reasons <=> \/ \E i \in DOMAIN verdict : x \in verdict[i]
                                   \/ x \in Missing \/ x \in Absent
      BY <2>2
    <3>2. (\A x : x \notin reasons)
            <=> /\ \A i \in DOMAIN verdict : \A x : x \notin verdict[i]
                /\ \A x : x \notin Missing /\ x \notin Absent
      BY <3>1
    <3> QED  BY <3>2
  <2> QED  BY <2>1, <2>2
<1>2. (\A i \in DOMAIN verdict : verdict[i] = {})
        <=> EachVerifies(artifact, directory, ctx)
  BY DEF EachVerifies
<1>3. ASSUME EachVerifies(artifact, directory, ctx)
      PROVE  Missing = {} /\ Absent = {} <=> Gaps(artifact, policy) = {}
  <2>1. ASSUME NEW type PROVE valid(type) = OfType(artifact, type)
    BY <1>3 DEF EachVerifies, OfType
  <2> HIDE DEF verdict, valid
  <2> QED  BY <2>1 DEF Gaps
<1> HIDE DEF verdict, Missing, Absent
<1> QED  BY <1>1, <1>2, <1>3

(* The context of `ke attest` and `ke publish` on another day.             *)
ContextAt(now) ==
  [environment |-> "local", now |-> now, supported |-> {"ap-1"}, current |-> {}]

ClockInv ==
  /\ days \in Nat /\ damage \in Nat /\ days <= MaxDays
  /\ \E s \in Starts : clock = s.day + days

(* `ke publish` let it through by the policy of its kind, some day.        *)
Approved(kew) ==
  \E now : VerifyAttestationSet(Decoded(kew),
             StrictPolicy(PolicyForKind(kew.envelope.manifest.artifact_kind)),
             ExpertDirectory, ContextAt(now)) = {}

Untouched(f) ==
  /\ Genuine(f.kew)
  /\ f.address = f.kew.envelope.manifest.artifact_hash
  /\ f.stage = "Published" /\ ~ f.bundled => Approved(f.kew)

UntouchedInv == damage = 0 => \A p \in Place : \A f \in file[p] : Untouched(f)

PublishedInv ==
  /\ FilesInv /\ ClockInv /\ UntouchedInv
  /\ \A e \in made : WellMade(e)
  /\ PublishedIsAccepted

(* The two keys that the programs' own directories hold.                   *)
ExpertKey(types) == KeyEntry("expert", {"DomainExpert", "PublicationApprover"}, types)

TypesOn(kew) ==
  { kew.attestations[i].attestation_type : i \in DOMAIN kew.attestations }

LEMMA KeysFound ==
  /\ \A keyId : \A key \in Lookup(ExpertDirectory, keyId) :
       keyId = "expert" /\ key = ExpertKey(AttestationType)
  /\ \A kew : Lookup(TestKeyDirectory(kew), "expert") = {ExpertKey(TypesOn(kew))}
  /\ \A kew : \E key \in Lookup(TestKeyDirectory(kew), "compiler") :
       key.public_key = "compiler"
<1>1. ASSUME NEW keyId, NEW key \in Lookup(ExpertDirectory, keyId)
      PROVE  keyId = "expert" /\ key = ExpertKey(AttestationType)
  BY <1>1 DEF Lookup, ExpertDirectory, ExpertKey, KeyEntry
<1>2. ASSUME NEW kew
      PROVE  /\ Lookup(TestKeyDirectory(kew), "expert") = {ExpertKey(TypesOn(kew))}
             /\ \E key \in Lookup(TestKeyDirectory(kew), "compiler") :
                  key.public_key = "compiler"
  <2>1. PICK directory : directory = TestKeyDirectory(kew)
    OBVIOUS
  <2>2. /\ DOMAIN directory = 1..2
        /\ directory[1].key_id = "compiler" /\ directory[1].public_key = "compiler"
        /\ directory[2] = ExpertKey(TypesOn(kew)) /\ directory[2].key_id = "expert"
    BY <2>1 DEF TestKeyDirectory, KeyEntry, ExpertKey, TypesOn
  <2>3. \A j \in 1..2 : (directory[j].key_id = "expert"
          /\ \A k \in 1..(j - 1) : directory[k].key_id # "expert") <=> j = 2
    BY <2>2
  <2>4. Lookup(directory, "expert") = {directory[2]}
    BY <2>2, <2>3 DEF Lookup
  <2>5. directory[1] \in Lookup(directory, "compiler")
    BY <2>2 DEF Lookup
  <2> QED  BY <2>1, <2>2, <2>4, <2>5
<1> QED  BY <1>1, <1>2

LEMMA ClockInBounds ==
  ASSUME ClockInv
  PROVE  clock \in Nat /\ clock < EndOfTime
  BY HorizonAssumption DEF ClockInv

(* What the registry's programs found valid of one attestation, the others *)
(* find valid until it expires.                                            *)
LEMMA StillVerifies ==
  ASSUME ClockInv, NEW kew, NEW i \in DOMAIN kew.attestations, NEW hash, NEW manifest,
         NEW now,
         VerifyAttestation(kew.attestations[i], hash, manifest, ExpertDirectory,
                           ContextAt(now)) = {},
         ~ Expired(kew.attestations[i], clock)
  PROVE  VerifyAttestation(kew.attestations[i], hash, manifest, TestKeyDirectory(kew),
                           OwnContext(kew, "local")) = {}
<1>1. PICK a : a = kew.attestations[i]
  OBVIOUS
<1>2. PICK own : own = OwnContext(kew, "local")
  OBVIOUS
<1>3. /\ own.environment = "local" /\ own.now = clock /\ own.current = {}
      /\ a.policy_version \in own.supported /\ a.attestation_type \in TypesOn(kew)
  BY <1>1, <1>2 DEF OwnContext, TypesOn
<1>4. PICK key \in Lookup(ExpertDirectory, a.key_id) :
        FirstFailing(Checks(a, hash, manifest, key, ContextAt(now))) = {}
  <2>1. Lookup(ExpertDirectory, a.key_id) # {}
    BY <1>1 DEF VerifyAttestation
  <2> QED  BY <1>1, <2>1 DEF VerifyAttestation
<1>5. a.key_id = "expert" /\ key = ExpertKey(AttestationType)
  BY <1>4, KeysFound
<1>6. Passes(a, hash, manifest, ExpertKey(AttestationType), ContextAt(now))
  BY <1>4, <1>5, ChecksPass
<1>7. Passes(a, hash, manifest, ExpertKey(TypesOn(kew)), own)
  <2>1. PICK first, second : /\ first = ExpertKey(AttestationType)
                             /\ second = ExpertKey(TypesOn(kew))
    OBVIOUS
  <2>2. /\ second.public_key = first.public_key /\ second.status = "Active"
        /\ second.signer_roles = first.signer_roles /\ second.types = TypesOn(kew)
        /\ second.from = 0 /\ second.to = EndOfTime
    BY <2>1 DEF ExpertKey, KeyEntry
  <2>3. ~ (own.now < second.from \/ own.now >= second.to)
    BY <1>3, <2>2, ClockInBounds, HorizonAssumption
  <2>4. ~ Expired(a, own.now)
    BY <1>1, <1>3
  <2>5. Passes(a, hash, manifest, first, ContextAt(now))
    BY <1>6, <2>1
  <2>6. Passes(a, hash, manifest, second, own)
    BY <1>3, <2>2, <2>3, <2>4, <2>5 DEF Passes
  <2> QED  BY <2>1, <2>6
<1>8. FirstFailing(Checks(a, hash, manifest, ExpertKey(TypesOn(kew)), own)) = {}
  BY <1>7, ChecksPass
<1>9. VerifyAttestation(a, hash, manifest, TestKeyDirectory(kew), own) = {}
  <2>1. Lookup(TestKeyDirectory(kew), a.key_id) = {ExpertKey(TypesOn(kew))}
    BY <1>5, KeysFound
  <2> QED  BY <1>8, <2>1 DEF VerifyAttestation
<1> QED  BY <1>1, <1>2, <1>9

(* No policy of /verify or of the graph export asks for more types than    *)
(* publication did, but that of rule packs asked of an intent spec.        *)
Covered(policy, kind) ==
  \/ policy = Permissive
  \/ policy = StrictPolicy(PolicyForKind(kind))
  \/ policy = ServePolicy["strict"] /\ kind # "IntentSpec"

LEMMA SetStillVerifies ==
  ASSUME ClockInv, NEW kew, Approved(kew),
         \A i \in DOMAIN kew.attestations : ~ Expired(kew.attestations[i], clock),
         NEW policy, Covered(policy, kew.envelope.manifest.artifact_kind)
  PROVE  VerifyAttestationSet(Decoded(kew), policy, TestKeyDirectory(kew),
                              OwnContext(kew, "local")) = {}
<1>1. PICK artifact : artifact = Decoded(kew)
  OBVIOUS
<1>2. /\ artifact.attestations = kew.attestations
      /\ artifact.manifest = kew.envelope.manifest
  BY <1>1 DEF Decoded
<1>3. PICK kind, strict : /\ kind = kew.envelope.manifest.artifact_kind
                          /\ strict = StrictPolicy(PolicyForKind(kind))
  OBVIOUS
<1>4. PICK now : VerifyAttestationSet(artifact, strict, ExpertDirectory, ContextAt(now)) = {}
  BY <1>1, <1>3 DEF Approved
<1>5. EachVerifies(artifact, ExpertDirectory, ContextAt(now)) /\ Gaps(artifact, strict) = {}
  BY <1>4, SetVerifiesByItsTypes
<1>6. EachVerifies(artifact, TestKeyDirectory(kew), OwnContext(kew, "local"))
  BY <1>2, <1>5, StillVerifies DEF EachVerifies
<1>7. Gaps(artifact, policy) = {}
  <2>1. CASE policy = Permissive
    BY <1>5, <2>1 DEF Gaps, Permissive, PermissivePolicy, StrictPolicy
  <2>2. CASE policy = StrictPolicy(PolicyForKind(kind))
    BY <1>3, <1>5, <2>2
  <2>3. CASE policy = ServePolicy["strict"] /\ kind # "IntentSpec"
    BY <1>3, <1>5, <2>3 DEF ServePolicy, PolicyForKind
  <2> QED  BY <1>3, <2>1, <2>2, <2>3 DEF Covered
<1> QED  BY <1>1, <1>6, <1>7, SetVerifiesByItsTypes

LEMMA GenuineDecodes ==
  ASSUME \A e \in made : WellMade(e), NEW kew, Genuine(kew)
  PROVE  DecodeErrors(kew) = {} /\ VerifyHash(kew)
  BY DEF Genuine, WellMade, DecodeErrors, VerifyHash

LEMMA OnlineVerifies ==
  ASSUME ClockInv, \A e \in made : WellMade(e),
         NEW f, Untouched(f), LetThrough(f), NEW policy,
         Covered(policy, f.kew.envelope.manifest.artifact_kind)
  PROVE  /\ DecodeErrors(f.kew) = {}
         /\ OnlineOutcome(f, "local", policy).verdict.verified
<1>1. PICK kew : kew = f.kew
  OBVIOUS
<1>2. Genuine(kew) /\ Approved(kew)
  BY <1>1 DEF Untouched, LetThrough
<1>3. DecodeErrors(kew) = {} /\ VerifyHash(kew)
  BY <1>2, GenuineDecodes
<1>4. \E key \in Lookup(TestKeyDirectory(kew), kew.signature.key_id) :
        VerifySignature(kew.envelope, kew.signature, key.public_key)
  <2>1. /\ kew.signature.key_id = "compiler"
        /\ kew.signature.signature = Sign("compiler", kew.envelope)
    BY <1>2 DEF Genuine, SignEnvelope
  <2> QED  BY <2>1, KeysFound DEF VerifySignature
<1>5. VerifyAttestationSet(Decoded(kew), policy, TestKeyDirectory(kew),
                           OwnContext(kew, "local")) = {}
  BY <1>1, <1>2, SetStillVerifies DEF LetThrough
<1>6. Evidence(f).status = "Published" /\ Evidence(f).live = {}
  BY DEF Evidence, Status, RegistryStatus, LetThrough
<1>7. VerdictFor(kew, TestKeyDirectory(kew), OwnContext(kew, "local"), policy, Evidence(f))
        = Verdict({})
  BY <1>3, <1>4, <1>5, <1>6, Zenon DEF VerdictFor
<1>8. OnlineOutcome(f, "local", policy).verdict = Verdict({})
  BY <1>1, <1>3, <1>7 DEF OnlineOutcome, VerifyArtifact
<1>9. Verdict({}).verified
  BY DEF Verdict
<1> QED  BY <1>1, <1>3, <1>8, <1>9

LEMMA ServePublished ==
  ASSUME FilesInv, ClockInv, UntouchedInv, \A e \in made : WellMade(e),
         NEW p \in Place, Serve(p)
  PROVE  PublishedIsAccepted'
<1>1. UNCHANGED <<file, clock, damage, made>>
  BY Zenon DEF Serve
<1>2. PICK f \in file[p], env \in Env, policy \in DOMAIN ServePolicy :
        answer' = IF DecodeErrors(f.kew) # {} THEN [what |-> "error", at |-> p]
                  ELSE [ what |-> "served", at |-> p, env |-> env, policy |-> policy,
                         outcome |-> OnlineOutcome(f, env, ServePolicy[policy]) ]
  BY Zenon DEF Serve
<1>3. PICK outcome : outcome = OnlineOutcome(f, env, ServePolicy[policy])
  OBVIOUS
<1>4. \/ answer'.what = "error"
      \/ /\ answer'.what = "served" /\ answer'.at = p /\ answer'.env = env
         /\ answer'.outcome = outcome
  BY <1>2, <1>3
<1>5. \A g \in file[p] : g = f
  BY DEF FilesInv, OneFileEach
<1>6. ASSUME env = "local", LetThrough(f),
             f.kew.envelope.manifest.artifact_kind # "IntentSpec"
      PROVE  outcome.verdict.verified
  <2>1. Covered(ServePolicy[policy], f.kew.envelope.manifest.artifact_kind)
    BY <1>6 DEF Covered, ServePolicy
  <2>2. Untouched(f)
    BY <1>6 DEF UntouchedInv, LetThrough
  <2> QED  BY <1>3, <1>6, <2>1, <2>2, OnlineVerifies
<1>7. \A g : LetThrough(g)' <=> LetThrough(g)
  BY <1>1 DEF LetThrough
<1> QED  BY <1>1, <1>4, <1>5, <1>6, <1>7 DEF PublishedIsAccepted

LEMMA ExportPublished ==
  ASSUME FilesInv, ClockInv, UntouchedInv, \A e \in made : WellMade(e),
         NEW env \in Env, GraphExport(env)
  PROVE  PublishedIsAccepted'
<1>1. UNCHANGED <<file, clock, damage, made>>
  BY Zenon DEF GraphExport
<1>2. PICK chosen : chosen = { f \in UNION { file[p] : p \in Place } : Admitted(f, env) }
  OBVIOUS
<1>3. answer'.what = "graph" /\ answer'.env = env /\ answer'.exported = chosen
  <2>1. \E graph : answer' = [ what |-> "graph", env |-> env, exported |-> chosen,
                               graph |-> graph ]
    BY <1>2, Zenon DEF GraphExport
  <2> QED  BY <2>1
<1>4. ASSUME env = "local", NEW p \in Place, NEW f \in file[p], LetThrough(f)
      PROVE  f \in chosen
  <2>1. Untouched(f)
    BY <1>4 DEF UntouchedInv, LetThrough
  <2>2. /\ DecodeErrors(f.kew) = {}
        /\ OnlineOutcome(f, "local", StrictPolicy(PolicyForKind(
             f.kew.envelope.manifest.artifact_kind))).verdict.verified
    BY <1>4, <2>1, OnlineVerifies DEF Covered
  <2>3. Admitted(f, env)
    BY <1>4, <2>1, <2>2 DEF Admitted, Untouched, LetThrough, Status, RegistryStatus
  <2> QED  BY <1>2, <2>3
<1>5. \A g : LetThrough(g)' <=> LetThrough(g)
  BY <1>1 DEF LetThrough
<1> QED  BY <1>1, <1>3, <1>4, <1>5 DEF PublishedIsAccepted

(* An untouched file stays one under whatever leaves its bytes alone.      *)
LEMMA RemainsUntouched ==
  ASSUME made \subseteq made', NEW f, IsFile(f), Untouched(f)
  PROVE  /\ Untouched(f)'
         /\ Untouched([f EXCEPT !.stage = "Deprecated"])'
         /\ \A atts, g : /\ g.kew = WithAttestations(f.kew, atts) /\ IsKew(f.kew)
                         /\ g.address = f.address /\ g.stage # "Published"
                         => Untouched(g)'
<1>1. Untouched(f)'
  BY DEF Untouched, Genuine, Approved
<1>2. Untouched([f EXCEPT !.stage = "Deprecated"])'
  <2>1. PICK g : g = [f EXCEPT !.stage = "Deprecated"]
    OBVIOUS
  <2>2. g.kew = f.kew /\ g.address = f.address /\ g.stage = "Deprecated"
    BY <2>1 DEF IsFile
  <2> QED  BY <2>1, <2>2 DEF Untouched, Genuine
<1>3. ASSUME NEW atts, NEW g, g.kew = WithAttestations(f.kew, atts), IsKew(f.kew),
             g.address = f.address, g.stage # "Published"
      PROVE  Untouched(g)'
  <2>1. PICK kew : kew = g.kew
    OBVIOUS
  <2>2. /\ kew.whole = f.kew.whole /\ kew.trailing = f.kew.trailing
        /\ kew.envelope = f.kew.envelope /\ kew.signature = f.kew.signature
    BY <1>3, <2>1 DEF WithAttestations, IsKew
  <2> QED  BY <1>3, <2>1, <2>2 DEF Untouched, Genuine
<1> QED  BY <1>1, <1>2, <1>3, Zenon

(* A step that writes one place.                                           *)
LEMMA PutUntouched ==
  ASSUME FilesInv, UntouchedInv, made \subseteq made', damage' = damage,
         NEW p \in Place, NEW g, Put(p, g), damage = 0 => Untouched(g)'
  PROVE  UntouchedInv'
<1>1. file'[p] = {g} /\ \A q \in Place \ {p} : file'[q] = file[q]
  BY DEF Put, FilesInv
<1>2. ASSUME damage = 0, NEW q \in Place, NEW f \in file'[q]
      PROVE  Untouched(f)'
  <2>1. CASE q = p
    BY <1>1, <1>2, <2>1
  <2>2. CASE q # p
    BY <1>1, <1>2, <2>2, FilesFacts, RemainsUntouched DEF UntouchedInv
  <2> QED  BY <2>1, <2>2
<1> QED  BY <1>2 DEF UntouchedInv

LEMMA AssembleUntouched ==
  ASSUME FilesInv, UntouchedInv, NEW p \in Place, Assemble(p)
  PROVE  UntouchedInv'
<1>1. PICK s \in Sources :
        \E kew \in AssemblePayload(s.manifest, s.payload, "compiler") :
          /\ Put(p, [ address |-> kew.envelope.manifest.artifact_hash, kew |-> kew,
                      stage |-> "MlChecked", bundled |-> FALSE ])
          /\ made' = made \cup {kew.envelope}
  BY DEF Assemble
<1>2. PICK kew \in AssemblePayload(s.manifest, s.payload, "compiler") :
        /\ Put(p, [ address |-> kew.envelope.manifest.artifact_hash, kew |-> kew,
                    stage |-> "MlChecked", bundled |-> FALSE ])
        /\ made' = made \cup {kew.envelope}
  BY <1>1
<1>3. PICK f : f = [ address |-> kew.envelope.manifest.artifact_hash, kew |-> kew,
                     stage |-> "MlChecked", bundled |-> FALSE ]
  OBVIOUS
<1>4. /\ kew.whole /\ ~ kew.trailing
      /\ kew.signature = SignEnvelope(kew.envelope, "compiler")
  <2>1. PICK e : kew = [ envelope |-> e, signature |-> SignEnvelope(e, "compiler"),
                         attestations |-> <<>>, whole |-> TRUE, trailing |-> FALSE ]
    BY DEF AssemblePayload
  <2> QED  BY <2>1
<1>5. Untouched(f)'
  BY <1>2, <1>3, <1>4 DEF Untouched, Genuine
<1>6. damage' = damage /\ made \subseteq made'
  BY <1>2 DEF Assemble
<1> QED  BY <1>2, <1>3, <1>5, <1>6, PutUntouched

LEMMA AttachUntouched ==
  ASSUME FilesInv, UntouchedInv, NEW p \in Place, AttachStatements(p)
  PROVE  UntouchedInv'
<1>1. made' = made /\ damage' = damage
  BY Zenon DEF AttachStatements
<1>2. PICK f \in file[p] : \E atts :
        /\ f.stage = "ExpertAttested"
        /\ Put(p, [f EXCEPT !.kew = WithAttestations(f.kew, atts)])
  BY Zenon DEF AttachStatements
<1>3. PICK atts : /\ f.stage = "ExpertAttested"
                  /\ Put(p, [f EXCEPT !.kew = WithAttestations(f.kew, atts)])
  BY <1>2
<1>4. PICK g : g = [f EXCEPT !.kew = WithAttestations(f.kew, atts)]
  OBVIOUS
<1>5. /\ g.kew = WithAttestations(f.kew, atts) /\ g.address = f.address
      /\ g.stage = f.stage
  BY <1>4, FilesFacts DEF IsFile
<1>6. damage = 0 => Untouched(g)'
  <2>1. IsFile(f) /\ IsKew(f.kew)
    BY FilesFacts DEF Bytes
  <2> QED  BY <1>1, <1>3, <1>5, <2>1, RemainsUntouched DEF UntouchedInv
<1> QED  BY <1>1, <1>3, <1>4, <1>6, PutUntouched

LEMMA PublishUntouched ==
  ASSUME FilesInv, UntouchedInv, NEW p \in Place, Publish(p) \/ Withdraw(p)
  PROVE  UntouchedInv'
<1>1. made' = made /\ damage' = damage
  BY Zenon DEF Publish, Withdraw
<1>2. CASE Publish(p)
  <2>1. PICK f \in file[p], bundle \in Bundles :
          /\ \E policy \in IF bundle # {} THEN bundle ELSE
               {StrictPolicy(PolicyForKind(f.kew.envelope.manifest.artifact_kind))} :
                 VerifyAttestationSet(Decoded(f.kew), policy, ExpertDirectory,
                                      LocalContext) = {}
          /\ Put(p, [f EXCEPT !.stage = "Published", !.bundled = bundle # {}])
    BY <1>2, Zenon DEF Publish
  <2>2. bundle = {} => Approved(f.kew)
    <3>1. LocalContext = ContextAt(clock)
      BY DEF LocalContext, ContextAt
    <3> QED  BY <2>1, <3>1 DEF Approved
  <2>3. PICK g : g = [f EXCEPT !.stage = "Published", !.bundled = bundle # {}]
    OBVIOUS
  <2>4. /\ g.kew = f.kew /\ g.address = f.address /\ (~ g.bundled => bundle = {})
    BY <2>3, FilesFacts DEF IsFile
  <2>5. damage = 0 => Untouched(g)'
    BY <1>1, <2>2, <2>4 DEF UntouchedInv, Untouched, Genuine, Approved
  <2> QED  BY <1>1, <2>1, <2>3, <2>5, PutUntouched
<1>3. CASE Withdraw(p)
  <2>1. PICK f \in file[p] : Put(p, [f EXCEPT !.stage = "Deprecated"])
    BY <1>3 DEF Withdraw
  <2>2. damage = 0 => Untouched([f EXCEPT !.stage = "Deprecated"])'
    BY <1>1, FilesFacts, RemainsUntouched DEF UntouchedInv
  <2> QED  BY <1>1, <2>1, <2>2, PutUntouched
<1> QED  BY <1>2, <1>3

(* While nothing is damaged, `ke attest` writes where it was called.       *)
LEMMA AttestUntouched ==
  ASSUME FilesInv, UntouchedInv, NEW p \in Place, Attest(p)
  PROVE  UntouchedInv'
<1>1. made' = made /\ damage' = damage
  BY Zenon DEF Attest
<1> DEFINE
     Hash(f) == f.kew.envelope.manifest.artifact_hash
     Signed(f, list) ==
       [ i \in DOMAIN list |->
           SignAttestation(
             Unsigned(Hash(f), list[i], f.kew.envelope.manifest, "ap-1",
                      MockTsaStamp(Hash(f), clock), {}), "expert") ]
     Kew(f, list) == WithAttestations(f.kew, Signed(f, list))
     New(kew, hash) ==
       {[address |-> hash, kew |-> kew, stage |-> "none", bundled |-> FALSE]}
     Written(kew, hash, q) ==
       [ file EXCEPT ![q] = IF @ = {} THEN New(kew, hash)
                            ELSE {[g EXCEPT !.kew = kew] : g \in @} ]
     Advanced(w) == [ w EXCEPT ![p] = {[g EXCEPT !.stage = "ExpertAttested"] : g \in @} ]
     Valid(kew) == VerifyAttestationSet(Decoded(kew), Permissive,
                                        ExpertDirectory, LocalContext) = {}
<1>2. PICK f \in file[p], list \in AttestArgs :
        /\ f.stage = "MlChecked"
        /\ \E q \in Home(Hash(f)) :
             file' = IF Valid(Kew(f, list)) THEN Advanced(Written(Kew(f, list), Hash(f), q))
                                            ELSE Written(Kew(f, list), Hash(f), q)
  BY Zenon DEF Attest
<1>3. PICK atts : atts = Signed(f, list)
  OBVIOUS
<1>4. PICK kew, hash : /\ kew = Kew(f, list) /\ kew = WithAttestations(f.kew, atts)
                       /\ hash = Hash(f)
  BY <1>3
<1>5. PICK q \in Home(hash) : \/ file' = Written(kew, hash, q)
                              \/ file' = Advanced(Written(kew, hash, q))
  <2> HIDE DEF Valid, Advanced, Written, Kew, Hash
  <2> QED  BY <1>2, <1>4
<1> SUFFICES ASSUME damage = 0
             PROVE  \A r \in Place : \A h \in file'[r] : Untouched(h)'
  BY <1>1 DEF UntouchedInv
<1>6. /\ IsFile(f) /\ IsKew(f.kew) /\ Untouched(f) /\ file[p] = {f}
      /\ f.address = hash
  <2>1. f.address = hash
    BY <1>4 DEF UntouchedInv, Untouched
  <2> QED  BY <2>1, FilesFacts DEF Bytes, UntouchedInv, FilesInv, OneFileEach
<1>7. q = p
  BY <1>5, <1>6 DEF Home, FilesInv, OneFileEach
<1>8. PICK g, h : /\ g = [f EXCEPT !.kew = kew]
                  /\ h = [g EXCEPT !.stage = "ExpertAttested"]
  OBVIOUS
<1>9. /\ g.kew = kew /\ g.address = f.address /\ g.stage = "MlChecked"
      /\ h.kew = kew /\ h.address = f.address /\ h.stage = "ExpertAttested"
  <2>1. DOMAIN g = DOMAIN f
    BY <1>8
  <2> QED  BY <1>2, <1>6, <1>8, <2>1 DEF IsFile
<1>10. Untouched(g)' /\ Untouched(h)'
  BY <1>1, <1>4, <1>6, <1>9, RemainsUntouched
<1>11. PICK w : w = Written(kew, hash, p)
  OBVIOUS
<1>12. /\ w = [r \in Place |-> w[r]] /\ w[p] = {g}
       /\ \A r \in Place \ {p} : w[r] = file[r]
  BY <1>6, <1>8, <1>11 DEF FilesInv
<1>13. file' = w \/ file' = Advanced(w)
  <2> HIDE DEF Written, Advanced
  <2> QED  BY <1>5, <1>7, <1>11
<1>14. /\ file'[p] = {g} \/ file'[p] = {h}
       /\ \A r \in Place \ {p} : file'[r] = file[r]
  <2>1. CASE file' = w
    BY <1>12, <2>1
  <2>2. CASE file' = Advanced(w)
    <3>1. PICK over : /\ over = {[k EXCEPT !.stage = "ExpertAttested"] : k \in w[p]}
                      /\ file' = [w EXCEPT ![p] = over]
      BY <2>2
    <3>2. over = {h}
      BY <1>8, <1>12, <3>1
    <3> QED  BY <1>12, <3>1, <3>2
  <2> QED  BY <1>13, <2>1, <2>2
<1> HIDE DEF Written, Advanced, Valid, Kew, Signed, Hash, New
<1>15. ASSUME NEW r \in Place, NEW k \in file'[r]
       PROVE  Untouched(k)'
  <2>1. CASE r = p
    BY <1>10, <1>14, <1>15, <2>1
  <2>2. CASE r # p
    BY <1>1, <1>14, <1>15, <2>2, FilesFacts, RemainsUntouched DEF UntouchedInv
  <2> QED  BY <2>1, <2>2
<1> QED  BY <1>15

LEMMA DamageTouches ==
  ASSUME ClockInv, NEW p \in Place, Damage(p)
  PROVE  UntouchedInv'
  BY DEF Damage, ClockInv, UntouchedInv

LEMMA UntouchedStep ==
  ASSUME FilesInv, ClockInv, UntouchedInv, [Next]_vars
  PROVE  UntouchedInv'
<1>1. CASE UNCHANGED <<file, made, damage>>
  BY <1>1 DEF UntouchedInv, Untouched, Genuine, Approved
<1>2. ASSUME NEW p \in Place,
             \/ Assemble(p) \/ Attest(p) \/ AttachStatements(p) \/ Publish(p)
             \/ Withdraw(p) \/ Damage(p)
      PROVE  UntouchedInv'
  BY <1>2, AssembleUntouched, AttestUntouched, AttachUntouched, PublishUntouched,
     DamageTouches
<1>3. ASSUME NEW p \in Place, Import(p) \/ Serve(p)
      PROVE  UNCHANGED <<file, made, damage>>
  BY <1>3, Zenon DEF Import, Serve
<1>4. ASSUME NEW env \in Env, GraphExport(env)
      PROVE  UNCHANGED <<file, made, damage>>
  BY <1>4, Zenon DEF GraphExport
<1>5. Tick \/ Done \/ vars' = vars => UNCHANGED <<file, made, damage>>
  BY DEF Tick, Done, vars
<1> QED  BY <1>1, <1>2, <1>3, <1>4, <1>5, Zenon DEF Next

LEMMA ClockStep ==
  ASSUME ClockInv, [Next]_vars
  PROVE  ClockInv'
<1>1. CASE UNCHANGED <<clock, days, damage>>
  BY <1>1 DEF ClockInv
<1>2. CASE Tick
  <2>1. /\ days' = days + 1 /\ clock' = clock + 1 /\ damage' = damage /\ days < MaxDays
    BY <1>2 DEF Tick
  <2> QED  BY <2>1, HorizonAssumption DEF ClockInv
<1>3. ASSUME NEW p \in Place, Damage(p)
      PROVE  ClockInv'
  BY <1>3 DEF Damage, ClockInv
<1>4. ASSUME NEW p \in Place,
             \/ Assemble(p) \/ Attest(p) \/ AttachStatements(p) \/ Publish(p)
             \/ Withdraw(p) \/ Import(p) \/ Serve(p)
      PROVE  UNCHANGED <<clock, days, damage>>
  <2>1. Assemble(p) => UNCHANGED <<clock, days, damage>>
    BY Zenon DEF Assemble
  <2>2. Attest(p) => UNCHANGED <<clock, days, damage>>
    BY Zenon DEF Attest
  <2>3. AttachStatements(p) => UNCHANGED <<clock, days, damage>>
    BY Zenon DEF AttachStatements
  <2>4. Publish(p) \/ Withdraw(p) => UNCHANGED <<clock, days, damage>>
    BY Zenon DEF Publish, Withdraw
  <2>5. Import(p) \/ Serve(p) => UNCHANGED <<clock, days, damage>>
    BY Zenon DEF Import, Serve
  <2> QED  BY <1>4, <2>1, <2>2, <2>3, <2>4, <2>5
<1>5. ASSUME NEW env \in Env, GraphExport(env)
      PROVE  UNCHANGED <<clock, days, damage>>
  BY <1>5, Zenon DEF GraphExport
<1>6. Done \/ vars' = vars => UNCHANGED <<clock, days, damage>>
  BY DEF Done, vars
<1> QED  BY <1>1, <1>2, <1>3, <1>4, <1>5, <1>6, Zenon DEF Next

LEMMA PublishedInvStep == PublishedInv /\ [Next]_vars => PublishedInv'
<1> SUFFICES ASSUME PublishedInv, [Next]_vars PROVE PublishedInv'
  OBVIOUS
<1>1. /\ FilesInv /\ ClockInv /\ UntouchedInv
      /\ (\A e \in made : WellMade(e)) /\ PublishedIsAccepted
  BY DEF PublishedInv
<1>2. /\ FilesInv' /\ ClockInv' /\ UntouchedInv'
      /\ \A e \in made' : WellMade(e)
  BY <1>1, FilesInvStep, ClockStep, UntouchedStep, MadeStep
<1>3. ASSUME NEW p \in Place, Serve(p) PROVE PublishedIsAccepted'
  BY <1>1, <1>3, ServePublished
<1>4. ASSUME NEW env \in Env, GraphExport(env) PROVE PublishedIsAccepted'
  BY <1>1, <1>4, ExportPublished
<1>5. ASSUME vars' = vars PROVE PublishedIsAccepted'
  <2>1. UNCHANGED <<answer, file, clock, damage>>
    BY <1>5 DEF vars
  <2> QED  BY <1>1, <2>1 DEF PublishedIsAccepted, LetThrough
<1>6. ASSUME answer'.what \notin {"graph", "served"} PROVE PublishedIsAccepted'
  BY <1>6 DEF PublishedIsAccepted
<1>7. ASSUME NEW p \in Place, Import(p)
      PROVE  answer'.what \notin {"graph", "served"}
  <2>1. \E f \in file[p] :
          answer' = [ what |-> IF ImportAccepts(Exported(f)) THEN "imported"
                                                            ELSE "refused",
                      at |-> p, outcome |-> ImportOutcome(Exported(f)) ]
    BY <1>7 DEF Import
  <2>2. answer'.what \in {"imported", "refused"}
    BY <2>1
  <2> QED  BY <2>2
<1>8. answer' = Idle => answer'.what \notin {"graph", "served"}
  BY DEF Idle
<1>9. \/ vars' = vars \/ answer' = Idle
      \/ \E p \in Place : Import(p) \/ Serve(p)
      \/ \E env \in Env : GraphExport(env)
  BY OtherwiseIdle
<1>10. PublishedIsAccepted'
  BY <1>3, <1>4, <1>5, <1>6, <1>7, <1>8, <1>9
<1> QED  BY <1>2, <1>10 DEF PublishedInv

(* policy.rs, R6 and R7, and the directories and contexts of the programs: *)
(* what `ke publish` let through by its own policy and nobody has touched  *)
(* is exported, and verified by POST /verify, as long as its attestations  *)
(* last.                                                                   *)
THEOREM WhatIsPublishedIsAccepted == Spec => []PublishedIsAccepted
<1>1. Init => PublishedInv
  <2> SUFFICES ASSUME Init PROVE PublishedInv
    OBVIOUS
  <2>1. FilesInv
    BY AcceptanceInvInit DEF AcceptanceInv
  <2>2. ClockInv
    BY HorizonAssumption DEF Init, ClockInv
  <2>3. UntouchedInv /\ (\A e \in made : WellMade(e)) /\ PublishedIsAccepted
    BY DEF Init, Idle, UntouchedInv, PublishedIsAccepted
  <2> QED  BY <2>1, <2>2, <2>3 DEF PublishedInv
<1>2. PublishedInv => PublishedIsAccepted
  BY DEF PublishedInv
<1> QED  BY <1>1, <1>2, PublishedInvStep, PTL DEF Spec

-----------------------------------------------------------------------------
(* Time, for every date: the day numbers that attestation.rs computes      *)
(* follow the Gregorian calendar one by one and in order, so the clock and *)
(* the calendar agree at every step and an attestation lapses exactly on   *)
(* its date.                                                               *)

(* unix_start_of against the calendar.                                     *)

(* The day numbers of a month are consecutive.                             *)
LEMMA WithinMonth ==
  ASSUME NEW y \in Int, NEW m \in Month, NEW d \in Int, NEW n \in Int
  PROVE  UnixStartOf(<<y, m, d + n>>) = UnixStartOf(<<y, m, d>>) + n
  BY DEF UnixStartOf, Month

LEMMA DayNumberIsInt ==
  ASSUME NEW y \in Int, NEW m \in Month, NEW d \in Int
  PROVE  UnixStartOf(<<y, m, d>>) \in Int
  BY DEF UnixStartOf, Month

(* The last day of every month but December, the leap day included, is     *)
(* followed by the first of the next.                                      *)
LEMMA MonthEnd ==
  ASSUME NEW y \in Int, NEW m \in 1..11
  PROVE  UnixStartOf(<<y, m + 1, 1>>) = UnixStartOf(<<y, m, DaysIn(y, m)>>) + 1
<1>1. CASE m = 2
  BY <1>1, SMTT(60) DEF UnixStartOf, DaysIn, IsLeap
<1>2. CASE m = 1
  BY <1>2, SMTT(60) DEF UnixStartOf, DaysIn
<1>3. CASE m \in 3..11
  BY <1>3, SMTT(60) DEF UnixStartOf, DaysIn
<1> QED  BY <1>1, <1>2, <1>3

LEMMA YearEnd ==
  ASSUME NEW y \in Int
  PROVE  UnixStartOf(<<y + 1, 1, 1>>) = UnixStartOf(<<y, 12, 31>>) + 1
  BY SMTT(60) DEF UnixStartOf

LEMMA DaysInBounds ==
  ASSUME NEW y \in Int, NEW m \in Month
  PROVE  DaysIn(y, m) \in 28..31
  BY DEF DaysIn, Month

(* unix_start_of of the next day of the calendar is one more.              *)
THEOREM NextDayIsNextNumber ==
  ASSUME NEW date, IsDate(date)
  PROVE  IsDate(NextDay(date)) /\ UnixStartOf(NextDay(date)) = UnixStartOf(date) + 1
<1> DEFINE y == date[1]
           m == date[2]
           d == date[3]
<1>1. y \in Int /\ m \in Month /\ d \in 1..31 /\ d <= DaysIn(y, m) /\ date = <<y, m, d>>
  BY DEF IsDate
<1>2. DaysIn(y, m) \in 28..31
  BY <1>1, DaysInBounds
<1> HIDE DEF y, m, d
<1>3. CASE d < DaysIn(y, m)
  <2>1. NextDay(date) = <<y, m, d + 1>>
    BY <1>1, <1>3 DEF NextDay, y, m, d
  <2>2. UnixStartOf(<<y, m, d + 1>>) = UnixStartOf(<<y, m, d>>) + 1
    BY <1>1, WithinMonth
  <2>3. IsDate(<<y, m, d + 1>>)
    BY <1>1, <1>2, <1>3 DEF IsDate
  <2> QED  BY <1>1, <2>1, <2>2, <2>3
<1>4. CASE d = DaysIn(y, m) /\ m < 12
  <2>1. NextDay(date) = <<y, m + 1, 1>>
    BY <1>1, <1>2, <1>4 DEF NextDay, y, m, d, Month
  <2>2. m \in 1..11 /\ m + 1 \in Month
    BY <1>1, <1>4 DEF Month
  <2>3. UnixStartOf(<<y, m + 1, 1>>) = UnixStartOf(<<y, m, d>>) + 1
    BY <1>1, <1>4, <2>2, MonthEnd
  <2>4. IsDate(<<y, m + 1, 1>>)
    BY <1>1, <2>2, DaysInBounds DEF IsDate
  <2> QED  BY <1>1, <2>1, <2>3, <2>4
<1>5. CASE d = DaysIn(y, m) /\ m = 12
  <2>1. NextDay(date) = <<y + 1, 1, 1>>
    BY <1>1, <1>2, <1>5 DEF NextDay, y, m, d
  <2>2. d = 31
    BY <1>5 DEF DaysIn
  <2>3. UnixStartOf(<<y + 1, 1, 1>>) = UnixStartOf(<<y, m, d>>) + 1
    BY <1>1, <1>5, <2>2, YearEnd
  <2>4. y + 1 \in Int /\ 1 \in Month
    BY <1>1 DEF Month
  <2>5. IsDate(<<y + 1, 1, 1>>)
    BY <2>4, DaysInBounds DEF IsDate
  <2> QED  BY <1>1, <2>1, <2>3, <2>5
<1> QED  BY <1>1, <1>2, <1>3, <1>4, <1>5 DEF Month

(* Within a year: the first of a later month comes after the end of an     *)
(* earlier one.                                                            *)
LEMMA MonthsInOrder ==
  ASSUME NEW y \in Int, NEW m \in Month, NEW n \in Month, m < n
  PROVE  UnixStartOf(<<y, m, DaysIn(y, m)>>) < UnixStartOf(<<y, n, 1>>)
<1>1. CASE m <= 2 /\ n > 2
  BY <1>1, SMTT(60) DEF UnixStartOf, DaysIn, IsLeap, Month
<1>2. CASE n <= 2
  BY <1>2, SMTT(60) DEF UnixStartOf, DaysIn, Month
<1>3. CASE m > 2
  BY <1>3, SMTT(60) DEF UnixStartOf, DaysIn, Month
<1> QED  BY <1>1, <1>2, <1>3 DEF Month

LEMMA YearsInOrder ==
  ASSUME NEW y \in Int, NEW z \in Int, y < z
  PROVE  UnixStartOf(<<y, 12, 31>>) < UnixStartOf(<<z, 1, 1>>)
  BY SMTT(60) DEF UnixStartOf

(* unix_start_of is strictly monotone: comparing numbers, as R4 does, is   *)
(* comparing dates.                                                        *)
THEOREM EarlierIsLess ==
  ASSUME NEW a, NEW b, IsDate(a), IsDate(b), Earlier(a, b)
  PROVE  UnixStartOf(a) < UnixStartOf(b)
<1>1. /\ a[1] \in Int /\ a[2] \in Month /\ a[3] \in 1..31 /\ a = <<a[1], a[2], a[3]>>
      /\ b[1] \in Int /\ b[2] \in Month /\ b[3] \in 1..31 /\ b = <<b[1], b[2], b[3]>>
      /\ a[3] <= DaysIn(a[1], a[2])
  BY DEF IsDate
<1>2. ASSUME NEW y \in Int, NEW m \in Month, NEW d \in Int
      PROVE  UnixStartOf(<<y, m, d>>) \in Int
  BY <1>2, DayNumberIsInt
<1>3. ASSUME NEW y \in Int, NEW m \in Month, NEW d \in Int, NEW e \in Int
      PROVE  UnixStartOf(<<y, m, e>>) = UnixStartOf(<<y, m, d>>) + (e - d)
  BY <1>3 DEF UnixStartOf, Month
<1> DEFINE lastOfMonth == DaysIn(a[1], a[2])
<1>4. lastOfMonth \in Int
  BY <1>1, DaysInBounds
<1> HIDE DEF lastOfMonth
<1>5. UnixStartOf(a) <= UnixStartOf(<<a[1], a[2], lastOfMonth>>)
  BY <1>1, <1>2, <1>3, <1>4 DEF lastOfMonth
<1>6. UnixStartOf(<<b[1], b[2], 1>>) <= UnixStartOf(b)
  BY <1>1, <1>2, <1>3
<1>7. CASE a[1] = b[1] /\ a[2] = b[2]
  <2>1. a[3] < b[3]
    BY <1>1, <1>7 DEF Earlier, Month
  <2> QED  BY <1>1, <1>2, <1>3, <1>7, <2>1
<1>8. CASE a[1] = b[1] /\ a[2] # b[2]
  <2>1. a[2] < b[2]
    BY <1>1, <1>8 DEF Earlier, Month
  <2>2. UnixStartOf(<<a[1], a[2], lastOfMonth>>) < UnixStartOf(<<b[1], b[2], 1>>)
    BY <1>1, <1>8, <2>1, MonthsInOrder DEF lastOfMonth
  <2> QED  BY <1>1, <1>2, <1>4, <1>5, <1>6, <2>2
<1>9. CASE a[1] # b[1]
  <2>1. a[1] < b[1]
    BY <1>1, <1>9 DEF Earlier
  <2>2. UnixStartOf(<<a[1], 12, 31>>) < UnixStartOf(<<b[1], 1, 1>>)
    BY <1>1, <2>1, YearsInOrder
  <2>3. 1 \in Month /\ 12 \in Month
    BY DEF Month
  <2>4. UnixStartOf(<<a[1], a[2], lastOfMonth>>) <= UnixStartOf(<<a[1], 12, 31>>)
    <3>1. CASE a[2] = 12
      <4>1. lastOfMonth = 31
        BY <3>1 DEF lastOfMonth, DaysIn
      <4> QED  BY <1>1, <1>2, <3>1, <4>1, <2>3
    <3>2. CASE a[2] < 12
      <4>1. UnixStartOf(<<a[1], a[2], lastOfMonth>>) < UnixStartOf(<<a[1], 12, 1>>)
        BY <1>1, <2>3, <3>2, MonthsInOrder DEF lastOfMonth
      <4>2. UnixStartOf(<<a[1], 12, 31>>) = UnixStartOf(<<a[1], 12, 1>>) + (31 - 1)
        BY <1>1, <1>3, <2>3
      <4> QED  BY <1>1, <1>2, <1>4, <2>3, <4>1, <4>2
    <3> QED  BY <1>1, <3>1, <3>2 DEF Month
  <2>5. UnixStartOf(<<b[1], 1, 1>>) <= UnixStartOf(<<b[1], b[2], 1>>)
    <3>1. CASE b[2] = 1
      BY <1>1, <1>2, <3>1, <2>3
    <3>2. CASE b[2] > 1
      <4>1. DaysIn(b[1], 1) = 31
        BY DEF DaysIn
      <4>2. UnixStartOf(<<b[1], 1, 31>>) < UnixStartOf(<<b[1], b[2], 1>>)
        BY <1>1, <2>3, <3>2, <4>1, MonthsInOrder
      <4>3. UnixStartOf(<<b[1], 1, 31>>) = UnixStartOf(<<b[1], 1, 1>>) + (31 - 1)
        BY <1>1, <1>3, <2>3
      <4> QED  BY <1>1, <1>2, <2>3, <4>2, <4>3
    <3> QED  BY <1>1, <3>1, <3>2 DEF Month
  <2>6. /\ UnixStartOf(a) \in Int /\ UnixStartOf(b) \in Int
        /\ UnixStartOf(<<a[1], a[2], lastOfMonth>>) \in Int
        /\ UnixStartOf(<<a[1], 12, 31>>) \in Int
        /\ UnixStartOf(<<b[1], 1, 1>>) \in Int
        /\ UnixStartOf(<<b[1], b[2], 1>>) \in Int
    BY <1>1, <1>2, <1>4, <2>3
  <2> QED  BY <1>5, <1>6, <2>2, <2>4, <2>5, <2>6
<1> QED  BY <1>7, <1>8, <1>9

(* Of two different days one is the earlier.                               *)
LEMMA DatesAreOrdered ==
  ASSUME NEW a, NEW b, IsDate(a), IsDate(b)
  PROVE  /\ a = b \/ Earlier(a, b) \/ Earlier(b, a)
         /\ UnixStartOf(a) \in Int
         /\ ~ Earlier(a, a)
<1>1. /\ a[1] \in Int /\ a[2] \in 1..12 /\ a[3] \in 1..31 /\ a = <<a[1], a[2], a[3]>>
      /\ b[1] \in Int /\ b[2] \in 1..12 /\ b[3] \in 1..31 /\ b = <<b[1], b[2], b[3]>>
  BY DEF IsDate, Month
<1>2. UnixStartOf(a) \in Int
  BY <1>1, DayNumberIsInt DEF Month
<1>3. a = b \/ Earlier(a, b) \/ Earlier(b, a)
  BY <1>1 DEF Earlier
<1>4. ~ Earlier(a, a)
  BY <1>1 DEF Earlier
<1> QED  BY <1>2, <1>3, <1>4

-----------------------------------------------------------------------------
(* The clock and the calendar at every step.                               *)

ClockIsRight == IsDate(today) /\ clock = UnixStartOf(today)

LEMMA ClockIsRightInit == Init => ClockIsRight
  BY StartsAssumption DEF Init, ClockIsRight

LEMMA ClockIsRightStep == ClockIsRight /\ [Next]_vars => ClockIsRight'
<1> SUFFICES ASSUME ClockIsRight, [Next]_vars PROVE ClockIsRight'
  OBVIOUS
<1>1. CASE Tick
  <2>1. today' = NextDay(today) /\ clock' = clock + 1
    BY <1>1 DEF Tick
  <2> QED  BY <2>1, NextDayIsNextNumber DEF ClockIsRight
<1>2. CASE UNCHANGED <<today, clock>>
  BY <1>2 DEF ClockIsRight
<1>3. ASSUME NEW p \in Place
      PROVE  /\ Assemble(p) => UNCHANGED <<today, clock>>
             /\ Attest(p) => UNCHANGED <<today, clock>>
             /\ AttachStatements(p) => UNCHANGED <<today, clock>>
             /\ Publish(p) => UNCHANGED <<today, clock>>
             /\ Withdraw(p) => UNCHANGED <<today, clock>>
             /\ Damage(p) => UNCHANGED <<today, clock>>
             /\ Import(p) => UNCHANGED <<today, clock>>
             /\ Serve(p) => UNCHANGED <<today, clock>>
  <2>1. Assemble(p) => UNCHANGED <<today, clock>>
    BY Zenon DEF Assemble
  <2>2. Attest(p) => UNCHANGED <<today, clock>>
    BY Zenon DEF Attest
  <2>3. AttachStatements(p) => UNCHANGED <<today, clock>>
    BY Zenon DEF AttachStatements
  <2>4. Publish(p) => UNCHANGED <<today, clock>>
    BY Zenon DEF Publish
  <2>5. Withdraw(p) => UNCHANGED <<today, clock>>
    BY Zenon DEF Withdraw
  <2>6. Damage(p) => UNCHANGED <<today, clock>>
    BY Zenon DEF Damage
  <2>7. Import(p) => UNCHANGED <<today, clock>>
    BY Zenon DEF Import
  <2>8. Serve(p) => UNCHANGED <<today, clock>>
    BY Zenon DEF Serve
  <2> QED  BY <2>1, <2>2, <2>3, <2>4, <2>5, <2>6, <2>7, <2>8
<1>4. ASSUME NEW env \in Env PROVE GraphExport(env) => UNCHANGED <<today, clock>>
  BY Zenon DEF GraphExport
<1>5. Done => UNCHANGED <<today, clock>>
  BY Zenon DEF Done
<1>6. vars' = vars => UNCHANGED <<today, clock>>
  BY DEF vars
<1>7. Tick \/ UNCHANGED <<today, clock>>
  BY <1>3, <1>4, <1>5, <1>6, Zenon DEF Next
<1> QED  BY <1>1, <1>2, <1>7

THEOREM ClockFollowsCalendar == Spec => []ClockIsRight
  BY ClockIsRightInit, ClockIsRightStep, PTL DEF Spec

(* R4, half open and by whole days, for every date and however the files   *)
(* came about: an attestation with a horizon is expired from the first     *)
(* moment of its date by the calendar, and at no moment before.            *)
THEOREM ExpiryIsByTheCalendar == Spec => []ExpiryFollowsTheCalendar
<1>1. ClockIsRight => ExpiryFollowsTheCalendar
  <2> SUFFICES ASSUME ClockIsRight, NEW a \in stated, NEW date \in a.expiration,
                      IsDate(date), a.expiration = {date}
               PROVE  Expired(a, clock) <=> ~ Earlier(today, date)
    BY DEF ExpiryFollowsTheCalendar
  <2>1. Expired(a, clock) <=> UnixStartOf(today) >= UnixStartOf(date)
    BY DEF Expired, ClockIsRight
  <2>2. IsDate(today)
    BY DEF ClockIsRight
  <2>3. UnixStartOf(today) \in Int /\ UnixStartOf(date) \in Int
    BY <2>2, DatesAreOrdered
  <2>4. CASE Earlier(today, date)
    <3>1. UnixStartOf(today) < UnixStartOf(date)
      BY <2>2, <2>4, EarlierIsLess
    <3> QED  BY <2>1, <2>3, <2>4, <3>1
  <2>5. CASE today = date
    BY <2>1, <2>2, <2>3, <2>5, DatesAreOrdered
  <2>6. CASE Earlier(date, today)
    <3>1. UnixStartOf(date) < UnixStartOf(today)
      BY <2>2, <2>6, EarlierIsLess
    <3>2. ASSUME Earlier(today, date) PROVE FALSE
      <4>1. UnixStartOf(today) < UnixStartOf(date)
        BY <2>2, <3>2, EarlierIsLess
      <4> QED  BY <2>3, <3>1, <4>1
    <3> QED  BY <2>1, <2>3, <3>1, <3>2
  <2> QED  BY <2>2, <2>4, <2>5, <2>6, DatesAreOrdered
<1> QED  BY <1>1, ClockFollowsCalendar, PTL

=============================================================================
