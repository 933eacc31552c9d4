----------------------------- MODULE Artifacts ------------------------------
(***************************************************************************)
(* Artifact files and the programs that make, carry and check them: the    *)
(* compiler's assembly, `ke attest` and other signers, `ke publish`, the   *)
(* copies `ke export` makes, `ke import`, POST /verify and `ke graph       *)
(* export`. Files lie in places where anything may happen to their bytes;  *)
(* days pass. The lifecycle of an artifact is module Registry's subject:   *)
(* here it is the stage that a file's log would show.                      *)
(***************************************************************************)
EXTENDS Projection

CONSTANTS
  Place,        \* directories of the registry, one artifact each
  Sources,      \* [manifest, payload] that the compiler is given
  AttestArgs,   \* what `ke attest` is called with: sequences of types
  Bundles,      \* the policy `ke publish` is given: {} or {policy}
  Statements,   \* what other signers attach: sequences of
                \*   [type, version, class, expiration]
  Starts,       \* dates on which a behaviour may begin, with their day number
  MaxDays,      \* bound: days that pass
  MaxDamage,    \* bound: times that a file is damaged
  MaxStated,    \* bound: no more are signed once there are so many
  Env           \* environments a request to /verify may name

(* A directory listing is finite.                                          *)
ASSUME PlaceAssumption == IsFiniteSet(Place)

ASSUME StartsAssumption ==
  \A s \in Starts : IsDate(s.date) /\ s.day = UnixStartOf(s.date)

(* No key's window ends while days pass.                                   *)
ASSUME HorizonAssumption ==
  /\ MaxDays \in Nat /\ EndOfTime \in Nat
  /\ \A s \in Starts : s.day \in Nat /\ s.day + MaxDays < EndOfTime

(* What the two paths of compile.rs assemble: rules, or an intent          *)
(* specification under the kind that is its own.                           *)
ASSUME SourcesAssumption ==
  \A s \in Sources :
    /\ {"artifact_hash", "artifact_kind", "form"} \subseteq DOMAIN s.manifest
    /\ DOMAIN s.payload = IF s.manifest.artifact_kind = "IntentSpec"
                          THEN {"intent"} ELSE {"rules"}
    /\ "rules" \in DOMAIN s.payload =>
         \A i \in DOMAIN s.payload.rules : "form" \in DOMAIN s.payload.rules[i]

(* Their rules and spans are lists; every rule has an id, and a text.      *)
ASSUME PayloadsAssumption ==
  \A s \in Sources :
    /\ "rules" \in DOMAIN s.payload =>
         /\ s.payload.rules \in Seq(ToSet(s.payload.rules))
         /\ \A i \in DOMAIN s.payload.rules :
              s.payload.rules[i].rule_id \in DOMAIN Text
    /\ "intent" \in DOMAIN s.payload =>
         s.payload.intent.spans \in Seq(ToSet(s.payload.intent.spans))

(* The arguments are lists.                                                *)
ASSUME ArgumentsAssumption ==
  /\ \A list \in AttestArgs : list \in Seq(ToSet(list))
  /\ \A list \in Statements : list \in Seq(ToSet(list))

VARIABLES
  today,        \* the calendar's date
  clock,        \* days since 1970-01-01, as the system clock counts
  file,         \* the file at each place: {} or {[address, kew,
                \*   stage, bundled]}, bundled if --policy published it
  made,         \* envelopes the compiler has assembled
  stated,       \* attestations that were ever signed
  days, damage, \* counters for the bounds
  answer        \* what the program answered that has just ended

vars == <<today, clock, file, made, stated, days, damage, answer>>

Idle == [what |-> "idle"]

Init ==
  /\ \E s \in Starts : today = s.date /\ clock = s.day
  /\ file = [p \in Place |-> {}]
  /\ made = {} /\ stated = {} /\ days = 0 /\ damage = 0 /\ answer = Idle

Tick ==
  /\ days < MaxDays
  /\ today' = NextDay(today) /\ clock' = clock + 1 /\ days' = days + 1
  /\ UNCHANGED <<file, made, stated, damage, answer>>

Put(p, f) == file' = [file EXCEPT ![p] = {f}]

-----------------------------------------------------------------------------
(* Making a file.                                                          *)

(* Artifact::assemble_payload and the file's storing under its hash, up to *)
(* the stage at which it waits for attestation.                            *)
Assemble(p) ==
  /\ file[p] = {}
  /\ \E s \in Sources : \E kew \in AssemblePayload(s.manifest, s.payload, "compiler") :
       LET hash == kew.envelope.manifest.artifact_hash IN
       /\ \A q \in Place : \A f \in file[q] : f.address # hash
       /\ Put(p, [address |-> hash, kew |-> kew, stage |-> "MlChecked",
                  bundled |-> FALSE])
       /\ made' = made \cup {kew.envelope}
  /\ UNCHANGED <<today, clock, stated, days, damage, answer>>

(* attest.rs, publish.rs: the directory and context both commands verify   *)
(* with.                                                                   *)
ExpertDirectory ==
  << KeyEntry("expert", {"DomainExpert", "PublicationApprover"}, AttestationType) >>

LocalContext ==
  [ environment |-> "local", now |-> clock, supported |-> {"ap-1"}, current |-> {} ]

(* put_artifact under an address: where that address is, or else anew.     *)
Home(address) ==
  LET held == { q \in Place : \E f \in file[q] : f.address = address } IN
  IF held # {} THEN held ELSE { q \in Place : file[q] = {} }

(* attest.rs. The set is signed for the hash the file claims, attached,    *)
(* and written under that hash before it is verified; the log of the       *)
(* address it was called with advances only when it verifies. Neither the  *)
(* hash nor the compiler's signature is checked.                           *)
Attest(p) ==
  /\ Cardinality(stated) < MaxStated
  /\ \E f \in file[p], types \in AttestArgs :
       LET manifest == f.kew.envelope.manifest
           hash == manifest.artifact_hash
           signed == [ i \in DOMAIN types |->
                         SignAttestation(
                           Unsigned(hash, types[i], manifest, "ap-1",
                                    MockTsaStamp(hash, clock), {}), "expert") ]
           kew == WithAttestations(f.kew, signed)
           valid == VerifyAttestationSet(Decoded(kew), Permissive,
                                         ExpertDirectory, LocalContext) = {}
       IN  /\ f.stage = "MlChecked" /\ DecodeErrors(f.kew) = {}
           /\ \E q \in Home(hash) :
                LET written == [ file EXCEPT ![q] =
                      IF @ = {} THEN {[ address |-> hash, kew |-> kew, stage |-> "none",
                                            bundled |-> FALSE ]}
                      ELSE {[g EXCEPT !.kew = kew] : g \in @} ]
                IN  file' = IF valid
                            THEN [ written EXCEPT ![p] =
                                     {[g EXCEPT !.stage = "ExpertAttested"] : g \in @} ]
                            ELSE written
           /\ stated' = stated \cup ToSet(signed)
  /\ UNCHANGED <<today, clock, made, days, damage, answer>>

(* Other users of the library sign with a horizon, under another version   *)
(* of the policy or with another class of timestamp, and attach their set  *)
(* in the place of the expert's, unchecked.                                *)
AttachStatements(p) ==
  /\ Cardinality(stated) < MaxStated
  /\ \E f \in file[p], statements \in Statements :
       LET manifest == f.kew.envelope.manifest
           hash == manifest.artifact_hash
           stamp(s) == [MockTsaStamp(hash, clock) EXCEPT !.class = s.class]
           signed == [ i \in DOMAIN statements |->
                         SignAttestation(
                           Unsigned(hash, statements[i].type, manifest,
                                    statements[i].version, stamp(statements[i]),
                                    statements[i].expiration), "expert") ]
       IN  /\ f.stage = "ExpertAttested" /\ DecodeErrors(f.kew) = {}
           /\ f.kew.attestations # signed
           /\ Put(p, [f EXCEPT !.kew = WithAttestations(f.kew, signed)])
           /\ stated' = stated \cup ToSet(signed)
  /\ UNCHANGED <<today, clock, made, days, damage, answer>>

Publish(p) ==
  /\ \E f \in file[p], bundle \in Bundles :
       /\ f.stage = "ExpertAttested" /\ DecodeErrors(f.kew) = {}
       /\ \E policy \in IF bundle # {} THEN bundle ELSE
            {StrictPolicy(PolicyForKind(f.kew.envelope.manifest.artifact_kind))} :
              VerifyAttestationSet(Decoded(f.kew), policy, ExpertDirectory,
                                   LocalContext) = {}
       /\ Put(p, [f EXCEPT !.stage = "Published", !.bundled = bundle # {}])
  /\ UNCHANGED <<today, clock, made, stated, days, damage, answer>>

(* `ke deprecate`, and `ke revoke` as well: the programs below tell both   *)
(* from Published, not from each other.                                    *)
Withdraw(p) ==
  /\ \E f \in file[p] : /\ f.stage = "Published"
                        /\ Put(p, [f EXCEPT !.stage = "Deprecated"])
  /\ UNCHANGED <<today, clock, made, stated, days, damage, answer>>

-----------------------------------------------------------------------------
(* What may become of a file's bytes where it lies or on the way: cut      *)
(* short, run together with others, a section changed or taken from        *)
(* another file.                                                           *)

ChangedEnvelopes(e) ==
  {[e EXCEPT !.manifest.regime_id = "other"],
   [e EXCEPT !.manifest.form = "raw"],
   [e EXCEPT !.manifest.artifact_kind = IF @ = "IntentSpec" THEN "RegimePack"
                                                           ELSE "IntentSpec"],
   WithHash(e, ZeroHash),
   [e EXCEPT !.payload = IF "rules" \in DOMAIN @ THEN [rules |-> <<>>]
                         ELSE [@ EXCEPT !.intent.action_class = "other"]]}

(* Of one attestation, the first: none is verified by its position.        *)
ChangedAttestations(a) ==
  {[a EXCEPT !.expiration = {<<9999, 12, 31>>}], [a EXCEPT !.key_id = "compiler"],
   [a EXCEPT !.key_id = "unknown"], [a EXCEPT !.claim = "altered"],
   [a EXCEPT !.timestamp.class = "Rfc3161External"],
   [a EXCEPT !.timestamp.token = Sign("nobody", <<>>)]}

Reheaded(kew) ==
  { [kew EXCEPT !.envelope = e] : e \in ChangedEnvelopes(kew.envelope) \cup made }

Resigned(kew) ==
  { [kew EXCEPT !.signature = s] :
      s \in {[kew.signature EXCEPT !.key_id = "unknown"],
             [kew.signature EXCEPT !.signature = Sign("nobody", <<>>)]} }

Marked(kew) ==
  UNION { { [kew EXCEPT !.attestations[i] = a] :
              a \in ChangedAttestations(kew.attestations[i]) } :
            i \in DOMAIN kew.attestations \cap {1} }

SplicedWith(kew, other) ==
  { [kew EXCEPT !.attestations = other.attestations],
    [kew EXCEPT !.attestations = kew.attestations \o other.attestations], other }

Spliced(kew) ==
  UNION { SplicedWith(kew, g.kew) : g \in UNION { file[q] : q \in Place } }

Damaged(kew) ==
  {[kew EXCEPT !.whole = FALSE], [kew EXCEPT !.trailing = TRUE]}
  \cup Reheaded(kew) \cup Resigned(kew) \cup Marked(kew) \cup Spliced(kew)

Damage(p) ==
  /\ damage < MaxDamage
  /\ \E f \in file[p] : \E kew \in Damaged(f.kew) \ {f.kew} :
       Put(p, [f EXCEPT !.kew = kew])
  /\ damage' = damage + 1
  /\ UNCHANGED <<today, clock, made, stated, days, answer>>

-----------------------------------------------------------------------------
(* Checking a file. Every program builds its own directory and context.    *)

(* export.rs: the stored bytes, as they are, with no record beside them.   *)
Exported(f) == f.kew

(* import_kew.rs: offline, so no status; the legal source is the file's    *)
(* own; one policy version is known.                                       *)
ImportDirectory ==
  << KeyEntry("compiler", {"Registry"}, {}),
     KeyEntry("expert", {"DomainExpert", "PublicationApprover"}, AttestationType) >>

ImportContext(kew) ==
  [ environment |-> "local", now |-> clock, supported |-> {"ap-1"},
    current |-> IF DecodeErrors(kew) = {}
                THEN {kew.envelope.manifest.source_corpus_hash} ELSE {} ]

NoRegistry == [status |-> "Unknown", head |-> ZeroHash, live |-> {}]

ImportOutcome(kew) ==
  VerifyArtifact(kew, ImportDirectory, ImportContext(kew), Permissive, NoRegistry)

ImportAccepts(kew) ==
  ImportOutcome(kew).verdict.why \subseteq {"NotPublished", "StaleEventHead"}

Import(p) ==
  /\ \E f \in file[p] :
       answer' = [ what |-> IF ImportAccepts(Exported(f)) THEN "imported"
                                                         ELSE "refused",
                   at |-> p, outcome |-> ImportOutcome(Exported(f)) ]
  /\ UNCHANGED <<today, clock, file, made, stated, days, damage>>

(* handlers.rs, graph_export.rs: the expert's key is authorized for the    *)
(* types, and the context supports the policy versions, that the artifact  *)
(* carries.                                                                *)
TestKeyDirectory(kew) ==
  << KeyEntry("compiler", {"Registry"}, {}),
     KeyEntry("expert", {"DomainExpert", "PublicationApprover"},
              { kew.attestations[i].attestation_type :
                  i \in DOMAIN kew.attestations }) >>

OwnContext(kew, env) ==
  [ environment |-> env, now |-> clock, current |-> {},
    supported |-> { kew.attestations[i].policy_version :
                      i \in DOMAIN kew.attestations } ]

(* read_registry_evidence, with the log abstracted to its stage.           *)
Status(f) == IF f.stage \in RegistryStatus THEN f.stage ELSE "Unknown"

Evidence(f) == [status |-> Status(f), head |-> f.address, live |-> {}]

OnlineOutcome(f, env, policy) ==
  VerifyArtifact(f.kew, TestKeyDirectory(f.kew), OwnContext(f.kew, env), policy,
                 Evidence(f))

(* The strict policy of /verify is the one of rule packs, for every kind.  *)
ServePolicy == [ strict |-> StrictPolicy(PolicyForKind("RegimePack")),
                 permissive |-> Permissive ]

Serve(p) ==
  /\ \E f \in file[p], env \in Env, policy \in DOMAIN ServePolicy :
       answer' = IF DecodeErrors(f.kew) # {} THEN [what |-> "error", at |-> p]
                 ELSE [ what |-> "served", at |-> p, env |-> env, policy |-> policy,
                        outcome |-> OnlineOutcome(f, env, ServePolicy[policy]) ]
  /\ UNCHANGED <<today, clock, file, made, stated, days, damage>>

(* Mutants: the file is taken from whatever address it lies under; every   *)
(* kind is verified as rules are.                                          *)
AdmittedAnywhere(f, env) ==
  /\ DecodeErrors(f.kew) = {}
  /\ Status(f) = "Published"
  /\ OnlineOutcome(f, env, StrictPolicy(PolicyForKind(
       f.kew.envelope.manifest.artifact_kind))).verdict.verified

AdmittedAsRules(f, env) ==
  /\ DecodeErrors(f.kew) = {}
  /\ f.kew.envelope.manifest.artifact_hash = f.address
  /\ Status(f) = "Published"
  /\ OnlineOutcome(f, env, ServePolicy["strict"]).verdict.verified

(* graph_export.rs: readable, decodable, filed under its own hash,         *)
(* published, and verified under the policy of its kind.                   *)
Admitted(f, env) ==
  /\ DecodeErrors(f.kew) = {}
  /\ f.kew.envelope.manifest.artifact_hash = f.address
  /\ Status(f) = "Published"
  /\ OnlineOutcome(f, env, StrictPolicy(PolicyForKind(
       f.kew.envelope.manifest.artifact_kind))).verdict.verified

ProjectionOf(kew) ==
  LET artifact == Decoded(kew) IN
  [ ExtractGraph(artifact) EXCEPT !.edges =
      @ \o IF "rules" \in DOMAIN artifact.payload
           THEN ConflictEdges(artifact.manifest.artifact_hash, artifact.payload.rules)
           ELSE <<>> ]

GraphExport(env) ==
  LET stored == UNION { file[p] : p \in Place }
      chosen == { f \in stored : Admitted(f, env) }
      order == SetToSeq(chosen)
  IN
  /\ stored # {}
  /\ answer' = [ what |-> "graph", env |-> env, exported |-> chosen,
                 graph |-> FoldLeft(LAMBDA g, f : Merge(g, ProjectionOf(f.kew)),
                                    [nodes |-> {}, edges |-> <<>>], order) ]
  /\ UNCHANGED <<today, clock, file, made, stated, days, damage>>

-----------------------------------------------------------------------------
(* The program that answered ends.                                         *)
Done == answer' = Idle /\ UNCHANGED <<today, clock, file, made, stated, days, damage>>

Next ==
  \/ answer = Idle /\ Tick
  \/ /\ answer = Idle
     /\ \E p \in Place :
          \/ Assemble(p) \/ Attest(p) \/ AttachStatements(p) \/ Publish(p)
          \/ Withdraw(p) \/ Damage(p) \/ Import(p) \/ Serve(p)
  \/ answer = Idle /\ \E env \in Env : GraphExport(env)
  \/ answer # Idle /\ Done

Spec == Init /\ [][Next]_vars

=============================================================================
