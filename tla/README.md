# A verification project for the regulatory rule engine

The repository builds `ke`, a command-line tool that compiles regulatory rule
packs into content-addressed artifacts and walks each artifact through a
governed life: compiled, checked by machine, attested by experts, published
under a tag, deprecated, revoked. Readers (a verifier, an exporter, a read-only
server, a graph export, a preview runtime) rely on what the registry says about
an artifact and on what its bytes carry. This directory holds TLA+ models of
that system, TLC configurations that check them on small instances, and proofs,
checked by TLAPS, that hold for every instance.

There are four models, each with its own specification, because the parts they
treat touch each other at one narrow place each:

1. **The registry**: a directory tree that many `ke` processes write with plain
   file-system calls and no lock, and the readers that look at it meanwhile.
   Data is abstracted away; interleavings and crashes are everything.
2. **The artifacts**: files that are assembled, signed, carried about, damaged,
   checked and projected to a graph, while days pass. The registry is
   abstracted to the stage of each file.
3. **The rules**: what a YAML document means, through parser, checks, canonical
   form, storing, evaluation and scenario generation. There is no concurrency;
   the inputs are everything.
4. **The server**: one loop, many clients, slow bodies, and files that change
   and break while a handler reads them. Answers are abstracted to statuses.

## 1. Inventory

| Component | State it keeps | Operations | Where |
|---|---|---|---|
| Lifecycle tables and policies (`registry/mod.rs`, `ke-cli/src/policy.rs`, `ke-core/src/revocation.rs`) | none: pure tables | `can_transition`, event kinds, rollback eligibility, publication policies, set rules R6 and R7, revocation floors | `Lifecycle` |
| Registry store and commands (`registry/backend.rs`, `commands/{compile,ml_check,attest,publish,deprecate,revoke,rollback}.rs`) | the tree: artifact, event log, consistency and revocation sidecars, tag pointers | seven commands, each a sequence of file-system calls | `Registry`, `ArtifactLifecycle` |
| Registry resolution (`registry/mod.rs`) | none: reads the tree | resolve by hash, tag or regime; ambiguity | `RegistryReaders` |
| Evidence and provenance export, `ke export`, `ke import` | none | `read_registry_evidence`, `verify_artifact`, the copies | `RegistryReaders`, `Envelope`, `Artifacts` |
| Attestation verification (`ke-artifact/src/{attestation,keydir,tsa}.rs`) | none | rules R1 to R8, signing, timestamps, expiry | `Attestation`, `Calendar` |
| Artifact envelope (`ke-artifact/src/{artifact,hash,sign,verify}.rs`) | none | assembling, hashing, signing, decoding, verification | `Envelope` |
| Graph export and queries (`ke-cli/src/graph`, `commands/graph_export.rs`) | none: derived | admission, projection, merge, Cypher load, two queries and their oracles | `RegistryReaders`, `Artifacts`, `Projection` |
| Compiler (`ke-compiler`) | none | parsing, lowering, tiers T0, T1, T4, T5 | `RuleParser`, `RuleChecks` |
| Canonical codec and semantic form (`ke-core`) | none | normal form, strict decoding, semantic diff | `Scalars`, `RuleForm` |
| Runtime (`ke-runtime`) | none | comparison, applicability, decision trees, scenarios | `RuleRuntime`, `Scenarios` |
| Read-only server (`ke-cli/src/serve`) | none: reads the tree per request | request loop, six routes and the fallback | `Server`; the answers in the other models |
| Command line, bindings, golden generator, frontend | none of their own | argument parsing, wrapping, viewing | not modelled |

### How they interact

* A command is one process. It reads the tree, decides, and writes the tree; it
  shares nothing else with other commands. There is no lock and no daemon.
* `compile` parses and lowers a document, runs the checks, puts the rules into
  canonical form, assembles and signs the envelope, stores the artifact and
  appends two events. `ml_check` stores the consistency sidecar, reads it back
  and appends. `attest` stores the artifact anew with its attestations, verifies
  the set, and appends. `publish` verifies the stored artifact, appends, and
  moves a tag. `deprecate` appends. `revoke` appends and then stores the policy
  record. `rollback` checks that its target is published, appends and moves the
  tag.
* Readers read the same files one after another while commands may write them.
* `/compile/preview` and `/dry-run` call the compiler and the runtime;
  `/verify`, `ke import` and `ke graph export` call `verify_artifact`, each with
  a key directory, a context and a policy of its own making.

### What is hard

* *Unlocked check-then-act.* The existence check of `append_event` and its
  write are two calls, and the file name holds the event kind as well as the
  sequence number. The state of the artifact is checked at the start of a
  command, and the head of the log is read again, unchecked, just before the
  event is built.
* *No atomic write, no cleanup.* A process stopped inside `fs::write` leaves a
  file that does not decode; one stopped between two calls leaves an event
  without its sidecar or a sidecar without its event. Write-once rules then turn
  the retry away.
* *Reads of different moments.* A reader takes no snapshot.
* *Files that travel.* An exported artifact comes alone; any part of it may be
  cut, changed or taken from another file, and offline there is no log to ask.
* *Several programs, one judgement.* What `publish` let through, the server, the
  importer and the graph export judge again, with code of their own.
* *Numbers and dates at their edges.* Scaled decimals with checked arithmetic
  and two normal forms, half-open windows in two implementations, and a civil
  calendar computed by hand.
* *Two readings of one tree.* The reviewer sees decision paths, the runtime
  walks; the conflict pass extracts premises, the runtime evaluates groups; the
  graph store answers Cypher, an oracle answers in Rust.
* *One loop.* The server reads a request's body in the loop that accepts the
  others.

`PROJECT.json` lists the hazards at their source lines, each with the
properties that would catch it.

### What makes each component correct

* Store and commands: no authority is skipped; evidence precedes the event that
  rests on it; a tag names only what was published; the log is a verifiable
  chain whose links are edges of the table; what was started gets finished.
* Resolution and evidence: nothing is held out that was never published, a
  status is never ahead of its head, and an answer is overtaken, not taken back.
* Artifacts and attestations: what is accepted is what the compiler made and the
  signers signed, in every program; what is genuine is not called damaged; what
  `publish` let through is let through by the others; expiry follows the
  calendar.
* Graph: the export is the union of its artifacts and its queries agree with
  their oracles.
* Compiler, codec and runtime: storing changes neither meaning nor decisions;
  conflicts between rules that can both apply are found; traces and generated
  scenarios are what the rules say.
* Server: every request is answered, and fails only for damage it depends on.

## 2. Modules

| Module | Role |
|---|---|
| `Lifecycle` | the tables, policies and revocation rules, as constant operators |
| `Registry` | the tree, the processes and the seven commands |
| `RegistryProperties` | what the registry promises, in groups by what each promise needs |
| `ArtifactLifecycle` | the abstract specification: one state per artifact, one pointer per tag, one record |
| `RegistryReaders`, `ReaderProperties` | the readers, composed with `Registry`, and what their answers are worth |
| `Calendar`, `Attestation`, `Envelope`, `Projection` | dates; attestations and their sets; the `.kew` file; the graph. Constant operators |
| `Artifacts`, `ArtifactProperties` | the programs that make, carry, damage, check and project files |
| `Scalars`, `RuleForm`, `RuleRuntime`, `Scenarios`, `RuleParser`, `RuleChecks` | the rule world, as constant operators |
| `RulePipeline`, `RuleProperties` | what an author does with a document |
| `Server` | the request loop, its clients and its handlers, with their properties |
| `Nesting` | what values that nest hold, and how deep: lists, groups, trees, YAML nodes |
| `RegistryProofs` | inductive invariants and theorems: unlocked commands; one command at a time, with the log, the tags and the abstract lifecycle |
| `ReaderProofs`, `ServerProofs` | the readers' answers, beside unlocked commands and beside one; the server |
| `AcceptanceProofs`, `GraphProofs` | the calendar and what acceptance of a file means; the graph export and its queries |
| `RuleProofs` | parser, checks, normal form, storing and evaluation |
| `SpellingProofs` | one encoding for every spelling of a rule set |
| `Induction` | lemmas only: induction, recursive functions, folds and flattened sequences |
| `MCRegistry`, `MCReaders`, `MCArtifacts`, `MCRules`, `MCServer` | the small instances for TLC |

### `Registry`

State and what it stands for:

| Variable | File or memory |
|---|---|
| `kew[h]` | `artifacts/<h>/artifact.kew`, represented by the attestation types it carries |
| `events[h]` | the decodable files under `events/<h>/`; each a record of sequence number, kind, prior and new state, and link to its predecessor |
| `torn[h]` | event files truncated by a stopped writer |
| `consistency[h]`, `revocation[h]` | the two sidecars |
| `tags[t]` | the pointer file of an `<env, tag>` pair |
| `pc[p]`, `job[p]`, `base[p]` | where process `p` is, its arguments, and the head event it read |

One action is one file-system call together with the decision made on its
result. `Begin(p)` is the start of a command up to its check of the current
state; `Step(p)` is each later call:

| Action | Code |
|---|---|
| `StartCompile` ... `StartRollback` | the head of each command's `run`: arguments, `require_current_state`, `can_transition` |
| `PutKew` | `put_artifact`, and in `attest` the verification that follows it |
| `VerifyKew` | `publish`: decode the stored artifact and verify its set |
| `CheckSidecar`, `WriteSidecar`, `ReadSidecar` | `put_consistency` (two calls) and the read-back of `ml_check` |
| `ReadHead` | `head_event` |
| `CheckSlot`, `WriteEvent` | `append_event` (two calls) |
| `PutPointer` | `put_pointer` |
| `CheckRevocation`, `WriteRevocation` | `put_revocation` (two calls) |
| `Crash`, `CrashInWrite` | a process is stopped between calls, or inside a write |

Abstractions, each of which changes nothing a property can tell apart:

* An artifact is its content hash, its kind and the set of attestation types
  it carries. Attestations do not enter the content hash, which is why `attest`
  writes under the same name.
* A chain hash is the pair of kind and version, the version counting how often
  the same file name was given new content. The code's hash covers the whole
  event, including a timestamp in seconds, so two commands that write the same
  event within one second write identical bytes. `Written` allows both
  outcomes. A file that changes content twice and returns to the first within a
  second is not modelled.
* A required count in a publication policy is always one, so a policy is a set.
* The preconditions of `compile`'s transition always hold when it is reached: a
  source with structural errors never produces an artifact.
* The attestations `attest` makes are individually valid: it creates and signs
  them itself.
* Each command's last `require_current_state`, after its event, decides only
  what it prints; it is left out. So are the review views that `put_artifact`
  writes beside the artifact: no command reads them.
* A policy-moved event kind exists in no command and is left out.
* A reader that meets a half-written file of a *running* writer fails as if it
  had met an I/O error, which is `Crash`; only a *stopped* writer leaves a torn
  file behind.

`Serial = TRUE` is an assumption about the environment, not about the code: one
operator runs one command at a time.

### `RegistryReaders`

A reader is a `ke query`, `ke export-provenance` or `ke graph export` process,
or a request to the server. `ReadersNext` is a step of `Registry` or one read.

| Variable | Memory of the reader |
|---|---|
| `at[r]`, `ask[r]` | the read it makes next, and its arguments |
| `todo[r]`, `hits[r]` | candidates or addresses not looked at yet, and those that matched |
| `saw[r]` | the artifact at hand, its bytes, the event of the first reading of its log, the head of the second |
| `answer[r]` | what it returned: a resolution record, evidence, a verdict, a graph, or an error; kept until the next request |

| Action | Code |
|---|---|
| `AskByHash`, `AskByTag`, `AskByRegime` | the three selectors of `resolve` |
| `ReadPointer`, `ListCandidates`, `ReadCandidate` | the lookup: `read_pointer`; `list_manifests` and the filter; one `read_events` per candidate, then none, one or several matches |
| `ReadLog`, `FindManifest`, `ReadRecord` | the rest of `resolve`: the state that is reported, `verify_resolved_artifact`, the sidecar if it was Revoked |
| `AskProvenance`, `AskVerify`, `AskGraph`, `ListAddresses`, `ReadBytes` | the start of the three consumers of evidence, up to the artifact's bytes |
| `ReadStatus`, `ReadHeadAgain` | `read_registry_evidence` and its copy in the server: two readings of the log |
| `ReadPolicy` | `/verify` of an artifact seen Revoked |

Abstractions:

* Reading a directory and the files in it is one read, as in `Registry`; so is
  `list_manifests`.
* Addresses are walked in the order of their bytes; a step takes any member.
* What regime and dates an artifact's manifest covers is the constant `Covers`.
* Stored bytes hash to their address and carry a valid compiler signature, as
  `put_artifact`'s callers made them; the steps of `verify_artifact` that check
  this are in `Envelope`, where bytes may be anything.
* Errors other than "not found" and "ambiguous" are one outcome.
* `strict` of `/verify` is the policy of the rule-shaped kinds for every
  artifact, as in the code; the graph export selects by kind.
* `/verify` and the graph export are the builds that have a key directory (the
  `test-keys` feature).

### `ArtifactLifecycle`

The registry with no files, events or processes. `Abstract` in
`RegistryProperties` maps it on: an artifact's state is what the last decodable
event says, a pointer is a tag file, a record is a revocation sidecar.
`ImplementsLifecycle` says that each call of each command, completed or cut
short, is one abstract step or none.

### `Artifacts` and the modules under it

State: `today` and `clock` (the calendar's date and the system clock's day
number, which the code computes independently), `file[p]` (the file at a place:
its address, its bytes, the stage its log would show), `made` and `stated` (a
history of what the compiler assembled and the signers signed) and `answer`.

| Action | Code |
|---|---|
| `Assemble` | `Artifact::assemble_payload` and the storing under its hash |
| `Attest`, `Publish`, `Withdraw` | the commands, with the directory, context and policy each builds |
| `AttachStatements` | another user of the library: horizons, other policy versions, a mislabelled timestamp |
| `Damage` | anything that may happen to a file where it lies or on its way |
| `Import`, `Serve`, `GraphExport` | `import_kew.rs`, `POST /verify`, `graph_export.rs`: their own directory, context and policy, then `verify_artifact` |
| `Tick` | a day passes |

Abstractions:

* Cryptography is symbolic: a signature is the key and the message, a hash is
  what was hashed. Nothing else about it is assumed.
* A file is its sections, with two flags for bytes missing and left over.
* The canonical profile is the `form` of a manifest or payload. That one rule set
  has one encoding, whatever way it was spelled, is no matter of this model:
  `RuleForm` has the encoder, and `OneEncodingPerRuleSet` of `RuleProperties`
  says it.
* Tier T4, which the graph export asks for conflict edges, is the constant
  `T4Conflicts`; `RuleChecks` has it in full.
* A graph store is what `MERGE` leaves: one relationship per label and pair of
  ends, with the properties that were set last.
* Deprecated and Revoked are one stage: the programs here tell both from
  Published, not from each other.

### `RulePipeline` and the modules under it

One document is worked on: previewed, linted, compiled into the store, turned
into scenarios, dry-run against its source or against what was stored. Each
operation is a whole handler or command of the code and leaves one answer.

* `Nesting`: the parts of a value, layer by layer. The code's recursive walks
  are recursive functions on a value's parts, so that they can be reasoned about.
* `Scalars`: decimals as mantissa and scale, with the checked arithmetic and the
  two normal forms of the code; texts that spell numbers by what they spell.
* `RuleParser`: from YAML nodes to rules, every refusal included.
* `RuleForm`: the encoder's normal form, the strict decoder's checks, the
  semantic form and its diff.
* `RuleChecks`: tiers T0, T1, T4 and T5, and the reading of intent specs.
* `RuleRuntime`: coercions, comparisons, applicability and the walk with its
  trace. `Scenarios`: the generator.

The digits of a mantissa, the scale, the JSON integer range, years and page
numbers are constants: i128 and i64 limits are far beyond what TLC can
enumerate, and the code's behaviour depends on their order only. So is the
rounding to `f64`: an `f64` is the shortest decimal that reads back as it, and
`Nearest` gives the one nearest to a decimal. `as_number`, `decimal_to_f64` and
the reading of a JSON number go through it (`F64` in `Scalars`), so numbers that
round to the same one are equal wherever the runtime compares. What is assumed
of `Nearest` is that it yields numbers and, since it is a function of the number
and not of its spelling, that trailing zeros do not matter.

### `Server`

State: `store` (of each artifact, whether its bytes and its log are there and
can be read), `request` and `body` of each client, the `queue` of `tiny_http`,
`serving` and `step` of the loop, and the response it `said` last.

| Action | Code |
|---|---|
| `Take`, `Route`, `Respond` | the loop of `serve::run`, `route`, `respond` |
| `ReadBody` | `read_body`, which waits; then the parsing of the request |
| `ReadPointer`, `ListCandidates`, `ReadLog`, `FindManifest`, `ReadSidecar` | `registry_resolve`, one read each |
| `ReadBytes`, `VerifyBytes`, `CompileSource`, `LoadFacts` | the rest of `/verify`, `/dry-run`, `/compile/preview` |
| `Send`, `Arrive`, `Drop` | a client sends a request, its body arrives, it goes away |
| `PutArtifact`, `AppendEvent`, `TearFile` | the commands, as a server sees them; damage |

Whether a body parses, rules compile, facts load or a regime has matches is
left open at every step that asks. The build is the one with the `test-keys`
feature; without it `/verify` is not available.

## 3. Runs

Instances: `h` artifacts, `p` processes, `r` readers, `c` clients.

| Run | Instance | Shows |
|---|---|---|
| `concurrent_crash` | 1 h, 2 unlocked p, stopped anywhere | what survives everything: authorities are not skipped, evidence precedes events, events precede records, tags name the once-published, event names stay, an interrupted `ml_check` stays interrupted |
| `progress` | 1 h, 2 unlocked p, never stopped, fair | each command ends, each appended revocation gets recorded, each appended move moves its tag |
| `readers` | 1 h, 1 r, one command at a time with every argument, stopped anywhere, inside any write | the files implement the abstract lifecycle; the log is a chain of legal transitions; a tag is set only to what is Published, also over one that a stop left half written; publication verified the set; a status is never ahead of the head beside it; an answer is never taken back; a record handed out is final |
| `readers_clean` | 2 h of one regime that share a tag, 1 r, commands that run to their end | what is verified, exported or resolved by tag or regime was published, also while candidates and addresses are walked one by one; between commands nothing is half done |
| `artifacts` | 2 places, 4 sources and one that cannot be canonicalized, a day, one damage, 4 signatures | the eight properties of `ArtifactProperties` |
| `rules` | 369 documents, 23 intent specs | the ten properties of `RuleProperties` |
| `serve` | 2 c, 2 h, every request, fair | `/verify` fails only for damage of its own artifact; nothing without a lifecycle is answered for; every request is answered |
| `race_forks_log` | 2 unlocked p | violation of `OneEventPerSeq` |
| `recompile_rewrites` | one command at a time, never stopped | violation of `PublishedBytesNeverChange` |
| `stale_evidence_is_fresh` | 1 r, never stopped | violation of `FreshPublishedIsPublished` |
| `graph_load_merges_spans` | the sources of `artifacts`, no damage | violation of `StoreAgreesByArticle` |
| `in_list_gets_number` | the documents of `rules` | violation of `InFieldsGetNoNumbers` |

The five violations are statements of the repository's documents and comments
that the code does not keep; `PROJECT.json` quotes each under "findings".

The models reach more that disagrees with a document, or that a reader of the
code may not expect, and that has no run of its own:

* Two commands that race can append an event whose edge is not in the table,
  though `registry/mod.rs:120` says "Every other edge is forbidden.": a rollback
  target deprecated after the eligibility check gets a `tag_moved` above a log
  that is no longer Published. `LogFollowsTable` holds for one command at a time
  (`readers`) and fails without `Serial`.
* A `revoke` stopped before its sidecar leaves a Revoked artifact without a
  policy for good, though `registry/mod.rs:313` has the record present exactly
  when the state is Revoked. What holds is `RecordHasRevokedEvent`, and
  `RevocationsGetRecorded` when nothing is killed.
* Two processes that both found an event's file name free: the second write
  replaces the first event.
* Storing folds `1.0` to `1`, and membership compares printed scalars, so a
  list with `1.0` anywhere inside no longer contains the fact `1.0`: compare
  `ke-runtime/src/value.rs:115`. `DecisionsSurviveStoring` excepts such lists.
* `/verify` under the strict policy refuses every IntentSpec, because that
  policy is the one of rule packs; ADR 0022 says "an attested IntentSpec
  verifies and publishes through the same gate as every other kind".
  `PublishedIsAccepted` excepts them from `/verify`.
* The server's loop is sequential, though `serve/mod.rs` and ADR 0018 describe a
  thread per request: a body that is begun and neither arrives nor is given up
  holds everyone. `EveryRequestIsAnswered` needs its second fairness assumption.
* A lookup by regime whose one match is deprecated or revoked before its log is
  read again answers with that state; a reader between the two writes of
  `revoke` answers Revoked with no record.
* A truncated `artifact.kew` makes every resolution and every dry run fail, of
  other artifacts too, because `verify_resolved_artifact` decodes everything
  stored; `/verify` does not depend on the others, which is what
  `VerifyFailsForItsOwn` says.

### Bounds

*Registry.* `MaxSeq` is the only bound added to the behaviour: no command but
`compile` starts on a log that already has an event at that number. The whole
lifecycle (draft to revoked) has the numbers 0 to 6, so 6 has room for all of it or
for a tag move in place of the deprecation; 5 lets the concurrent runs reach revocation, rollback and a race at
every one of the commands. Two processes are enough for each hazard listed: each
is a race between one check and one act. Two artifacts are needed where a tag
moves from one to another, or a reader passes from one to the other; nothing
else in the store relates two artifacts. The reduced argument sets of the other
runs drop the rejected attestation sets and the second policy, which `readers`
has. One reader is enough: readers do not see each other. `TornCalls` names the
writes a stopped process may leave half done: all of them in `readers`,
the event and the two sidecars in `concurrent_crash`, where a torn artifact or
pointer is only a read that fails.

*Artifacts.* Two places let sections be exchanged and artifacts be merged; one
damage at a time is what verification must notice, and each kind of damage is in
`Damaged`. Four signatures are an expert's set and one more. The sources cover
both payloads, two ways to write one meaning, a conflict, a document shared by
two artifacts and two articles of one document. The day that passes is the one
after 28 February 2100; every other day is a matter of the proof.

*Rules.* The documents are families that vary one thing at a time around a small
rule: operators and literals on both sides of each limit, nested groups, trees,
pairs of rules with scopes and windows that touch and overlap, and each way to
be malformed. A property about two conditions or two rules needs no more than
two; trees of depth two have a branch inside a branch. `MaxDepth` bounds how deep
a document nests: 8 is deeper than every document of the families, as
`DocumentsAssumption`, which TLC evaluates, says. Dry runs are sent what
the generator makes of the rules, a value of each other type (null, a list in a
list, an object) and a body that is no object. `MCNearest` is a float with eight
significant bits for the integers, halves rounded to even: 300 and 301 are one
number then, as 2^53 and its successor are for the code, while 302 and 303 are
not, and there are thresholds of each kind; fractions keep their few digits.
Among the documents are ones that differ from another in the zeros of their
literals or in the order of their tags only, and ones that differ in one thing
that counts: `OneEncodingPerRuleSet` compares what is stored with the encodings
of them all.

*Server.* Two clients are one that waits and one that is in the way. The
artifact that requests name goes through every kind of damage, one file at a
time; the other one is absent or cannot be decoded.

### Fairness

`FairSpec` of `Registry` asks for weak fairness of `Step(p)` for every process
and nothing of `Begin`: the operating system schedules a process that was
started until it ends, and nobody is obliged to start one. No command waits for
another, so strong fairness is not needed. `Crashes` is `FALSE` there: a killed
process is not scheduled again.

`Spec` of `Server` asks for weak fairness of `Handle`, which is the loop's
thread, and of `Arrive(c)`: a body that was begun arrives or its client goes
away (`Drop` disables `Arrive`). The first is the scheduler's; the second is an
assumption about clients that the code relies on and does not enforce, since
`read_body` has no time limit. Nothing obliges a client to send or a command to
run. Requests are taken in order, so weak fairness is enough.

## 4. Proofs

| Module | Theorem | Says |
|---|---|---|
| `RegistryProofs` | `Invariance` | the inductive invariant holds in every reachable state |
| | `TypeCorrectness` | every variable keeps its type |
| | `AuthoritiesAreNotSkipped` | `EveryEventWasEarned` |
| | `EvidencePrecedesEvent` | `MlCheckedHasEvidence` |
| | `EventPrecedesRecord` | `RecordHasRevokedEvent` |
| | `PublicationPrecedesTag` | `TagsNameOncePublished` |
| | `EventNamesNeverVanish` | `EventNamesStay` |
| | `InterruptionIsFinal` | `InterruptedMlCheckIsFinal` |
| `ServerProofs` | `ServerInvariance` | no request is lost or served twice, and what handlers rely on holds |
| | `VerifyBlamesItsOwn`, `OnlyRecordedIsAnswered` | `VerifyFailsForItsOwn`, `AnswersAreOfRecorded` |
| `RegistryProofs`, `Serial` | `SerialInvariance` | what a command checked still holds when it acts on it |
| | `LogsFollowTheTable` | `LogFollowsTable` |
| | `PublicationStaysVerified` | `PublishesVerifiedSet` |
| | `TagsFollowPublication` | `TagsMoveToPublished` |
| | `NothingStaysHalfDone` | `NothingIsHalfDone` |
| | `FilesImplementLifecycle` | `ImplementsLifecycle` |
| `ReaderProofs` | `ReadersInvariance`, `WhatIsHeldOutWasPublished` | `HeldOutWasPublished` |
| | `AnswersKeepStanding` | what readers saw and were told stays a true account of the logs |
| | `StatusIsNotAheadOfHead` | `StatusNeverLeadsHead` |
| | `AnswersOnlyAge` | `AnswersAreNotTakenBack` |
| | `RecordsAreFinal` | `RecordsHandedOutAreFinal` |
| `AcceptanceProofs` | `NextDayIsNextNumber`, `EarlierIsLess` | the day numbers of `unix_start_of` follow the calendar, one by one and in order, for every date |
| | `ClockFollowsCalendar`, `ExpiryIsByTheCalendar` | `ExpiryFollowsTheCalendar` |
| | `AcceptanceIsOfWhatWasMade` | `AcceptedIsAsMade` |
| | `GraphTakesFilesWhereTheyBelong` | `ExportedUnderTheirAddress` |
| | `MockStampsNeverTravel` | `MockStampsStayLocal` |
| | `GenuineFilesAreRecognised` | `GenuineIsNotCalledDamaged` |
| | `WhatIsPublishedIsAccepted` | `PublishedIsAccepted` |
| `GraphProofs` | `TheGraphIsTheUnion` | `GraphIsTheUnion` |
| | `TheStoreAgreesWithTheOracles` | `StoreAgreesWithOracles` |
| `RuleProofs` | `PipelineInvariance` | what is stored, and what is answered, is what the operations make of the document |
| | `ThresholdsStayExact` | `ThresholdsAreExact` |
| | `OverlapsAreReported` | `OverlapMeansBothInForce` |
| | `ApplicabilityFollowsTheGroups` | `ApplicabilityIsTheGroups` |
| | `TracesAreDecisionPaths` | `TraceIsADecisionPath` |
| | `NoConflictIsMissed` | `ConflictsAreNotMissed` |
| | `StoredRulesAgree` | `NoContradictionIsStored` |
| | `MeaningIsKept` | `MeaningSurvivesStoring` |
| | `DecisionsAreKept` | `DecisionsSurviveStoring` |
| | `ScenariosArrive` | `ScenariosReachTheirLeaf` |
| `SpellingProofs` | `OneFormForAllSpellings` | `OneEncodingPerRuleSet` |

The theorems of `RegistryProofs` from `SerialInvariance` on and the last four of
`ReaderProofs` assume `Serial`, one operator running one command at a time, as
the runs of the same properties do; commands may be stopped anywhere, inside a
write too, but for `NothingStaysHalfDone`, which assumes `~ Crashes` as well, since a stopped
command is exactly what leaves something half done. All other theorems hold with
any number of unlocked commands.

**Registry.** From `RegistryAssumption` alone, for every set of artifacts, tags,
processes, attestation sets and bundles, any bound, serial or not, with or
without crashes. None of the properties is inductive by itself: a command checks
the state, goes on, and appends later onto a head it read in between, while the
log may be rewritten. The argument is that two facts about the tree never stop
being true once they are: a name in an event directory stays (a write replaces a
file under its own name), and a sidecar stays. So what a command established
when it began, or when it read the head, is still so when it writes. The
invariant is

    Inv == TypeOK /\ LogInv /\ SidecarInv /\ \A p \in Proc : Knows(p)

where `LogInv` and `SidecarInv` are the safety properties together with what a
decodable event says of the events below it, and `Knows(p)` says, for each place
a process can be at, what it has established. The proof has one lemma per
action; those that write events go through a lemma on what adding one name to a
log preserves.

**Readers.** From `Inv`, for any set of readers. A reader keeps, from each read,
one fact that no command can undo: that the log of an artifact has, or has had,
a published event. `Fine` says which of its variables carry that fact at each
of its calls, and is stated of the values of those variables, so one lemma
(`ReaderMoves`) serves every step. Besides it needs that a log has a highest
sequence number (`LogsHaveTops`), which makes the head of a readable log an
event of it; and for tags `PublicationPrecedesTag`'s invariant.

**Calendar.** From `StartsAssumption` (the clock starts at the right day
number). `unix_start_of` is closed arithmetic with floored divisions; the proof
goes through month and year ends, by cases of leap year and century.

**Server.** From `ServerAssumption`, for any set of clients and artifacts. The
invariant says that a waiting client is queued once or served, never both (so
its request does not change under its handler), and what each step of a handler
may rely on; commands never make damage undone nor a lifecycle disappear, so
what was read stays true until the answer.

**One command at a time.** `LogFollowsTable` is not inductive: an event is
written calls after the state was checked and the head was read.

    SerialInv == Inv /\ LogSerial /\ Alone /\ \A p \in Proc : Counts(p)

says that at most one process is at work and what it may count on at each call:
before it has read a head, the log is readable and in a state its command starts
from; with a head in hand, that head is still the last event of a readable log;
before the write, the name of the new event is free; before the pointer, the
artifact is Published; before the record, it is Revoked; and from the
verification in `publish` to its event, the stored set satisfies the policy. Only
three things happen to a log then (`Created`, `Extended`, `Truncated`), one
lemma each says that `LogSerial` survives it, and each action is shown to be one
of them or none. `LogSerial` also says that a log with any file has the file of
its first event: without it, a later compile could start a log anew at number 0,
below events that are there.

`CleanInv` adds, for commands that are not stopped, that every artifact that the
running command does not work on is `Settled`, and what the one it works on
still lacks at each call (`Between`). It is preserved only together with
`SerialInv`. It rests on `AbsenceAssumption`: the mark of an absent file is
neither an event nor a set of types, as Rust's `Option::None` is no value.

**Refinement.** The mapping `Abstract` is a function of the current files, so it
needs no history: an artifact's state is what the last decodable event says. The
proof goes by the same three cases. `Created` is the abstract creation,
`Extended` is the abstract transition along the edge the event names (or a tag
move, which keeps the state), because a readable log's last event is its highest
and the tables agree (`SameTable`); `Truncated` is a stutter, because a torn file
does not decode and the abstraction reads past it. The pointer and the record
are written after their events, so they are abstract steps of their own, enabled
by the state which `Counts` guarantees.

**Answers.** `SerialReadersInv` adds to `SerialInv` and `ReadersInv` that a
reader's first reading is an event still in the log (`SawOf`), that an answer's
state is that of an event in the log at or below the head given with it
(`Stands`), and that standing rises along a log (`LogsRise`). Under `SerialInv`
logs only get events on top, so none of this is undone by a command; that a
record on disk is never written again comes from the refinement's lemma on
records (`RecordMoves`).

**Acceptance.** From `SourcesAssumption` (a payload is rules or an intent
specification, the latter exactly under the kind that is its own, as the two
paths of `compile.rs` assemble them), `ArgumentsAssumption` (argument lists are
sequences) and, for `WhatIsPublishedIsAccepted` alone, `HorizonAssumption` (no key's window, which
in the code ends at `u64::MAX`, ends while days pass); for any set of places,
any sources, policies and statements, any number of days and damages.
`AcceptedIsAsMade` speaks of answers and says nothing of the files in between.
What is inductive is

    FilesInv: each file's compiler signature is "nobody"'s or one over an
    envelope that was made; the signature on each attestation it carries is one
    that was given; what was stated is as the expert signs it; one file to a
    place and one place to an address

and it is preserved because damage rearranges bytes but invents no signature
(`DamagedBytes`, by the kinds of `Damaged`), and because `put_artifact` writes
where the address already lies, even when `attest` is called on a file that
claims another hash. Then `WhatVerifiesWasStated`: a signature covers every
field but itself, so an attestation that carries a given signature and verifies
*is* the one that was signed; a horizon or a relabelled timestamp changes what
is covered. `ChecksPass` and `SetVerifiesByItsTypes` say once what
`verify_attestation` and `verify_attestation_set` accept, as conditions.

`GenuineInv` adds that every envelope that was made decodes and hashes to its
address (`WellMade`), which rests on `content_hash` zeroing the slot that the
hash was patched into (`PatchedHash`). `PublishedInv` adds that, until something
is damaged, every file is genuine, lies under its hash, and if `publish` let it
through, its set satisfied the policy of its kind on some day; the directories
and contexts that the server and the export build are then compared with those
of `publish` rule by rule (`StillVerifies`).

**Graph.** From the assumptions of acceptance, `PlaceAssumption` and
`ConflictsAssumption` (a directory listing and a report are finite),
`PayloadsAssumption` and `TextAssumption` (lists are lists, every rule of a
source has a text).

    GraphInv == AcceptanceInv /\ (\A e \in made : Projectable(e))
                /\ GraphIsTheUnion /\ (answer.what = "graph" => IsGraph(answer.graph))

`Projectable` is what `assemble_payload` makes of a source: lists, ids with a
text, an index of the rules themselves. The export folds a merge over the
accepted artifacts. The fold of the community modules is a recursive function on
subsets, which `Induction` shows to exist and to follow its body
(`SetFoldExists`); `MergeIsUnion` is then an induction on subsets. That the store
and the oracles agree needs that a load relates two nodes exactly when the export
has an edge between them (`RelatedIsLinked`); that both ends of every edge of a
projection are among its nodes (`ProjectionJoins`, for each of the lists of edges
that `project` builds); that an id tells a node's label (`LabelsById`), because
the store looks at labels where an oracle looks at ids; and that a variable-length
path of the query and the breadth-first loop of the oracle are layers of the same
closure, which is reached after as many layers as there are nodes
(`LayersSettle`).

**Rules.** From `DocumentsAssumption` (a YAML document is made of scalars,
sequences and mappings, a text that spells a number spells an integer and a
number of decimals, a text with the generator's suffix is another text, and nothing
nests deeper than `MaxDepth`), `PayloadsAssumption` of
`RulePipeline` (what is sent to a dry run is any JSON of literals and lists,
within the same depth), `DepthAssumption` and
`ScalarsAssumption` (the limits are natural numbers), `NearestAssumption`
(rounding a decimal gives a number) and, for `OneFormForAllSpellings` alone,
`TagRankAssumption` (the tags the encoder arranges have integer ranks, whatever
they are); for any documents, limits and `MaxDepth`, any rounding, any ranks of
tags and any orders of texts. A document and a body
are finite texts, so some `MaxDepth` fits them.

There is no interaction in these properties: the pipeline makes one answer from
one document, and `PipelineInv` says that the store and the answer are what the
operations make of it. All the work is in what the operations compute, by
recursion over data. The library's induction theorems take an operator as a
parameter, which no installed prover can instantiate, so the recursion is
followed with sets and functions:

* A recursive function defined on the parts of a value is, at each part, its body
  (`...Unfolds`, one lemma for each of the functions). A function with
  that property exists because a body looks only at what is inside
  (`...Local`), by recursion on how deep a part nests (`RankedRecursion`); that
  `CHOOSE` may take it needs nothing more.
* What is so of a value whenever it is so of what is inside it is so of every
  value that is not too deep (`NestingInduction`): a set that holds every value
  all of whose insides it holds, holds all. The claim to be proved is such a
  set, made by comprehension.
* Flattened and mapped sequences are followed by `Iteration`, `FlattenKeepsAll`
  and, when two of them are compared place by place, `FlattenMatches` in the same
  manner.

With these, the shapes: the parser makes syntax trees no deeper than the nodes,
lowering makes groups, conditions and trees no deeper than the syntax
(`ParsedGroups`, `LoweredGroups`, `LoweredDecisions`), and so `CompiledRules`
have `GroupShape` and `TreeShape`; the encoder keeps both (`CanonicalRules`).

* *Applicability.* The runtime evaluates groups that the compiler spliced: a
  group `all` inside `all` is merged into the outer one. `SplicingKeepsTheMeaning`
  says that the document's groups and the compiled rule's are satisfied together.
* *Traces.* `WalksGoDownPaths`: the walk's steps and its leaf are one of the paths
  `enumerate_paths` lists, with the outcomes the facts give.
* *Conflicts.* If a rule applies, its premises on a field pinned to words allow
  exactly the word of the fact (`PremisesAllowTheFact`), so two rules that both
  apply have a word in common on each shared field and T4 reports their pair
  (`NoConflictIsMissed`). The encoder keeps premises (`PremisesAreKept`) and what
  leaves say (`LeavesAreKept`), so rules that were stored, which have no conflict,
  agree (`StoredRulesAgree`).
* *Meaning.* `MeaningSurvivesStoring` says that what the encoder made passes the
  strict decoder's checks and has the semantic form of its source. Stripping
  zeros reaches a number that has none to strip (`StrippedIsStripped`) and is
  exact (`StrippedIsExact`); lists, groups, trees and tags follow
  (`CanonicalValuesMean`, `CanonicalGroupsMean`, `CanonicalTreesMean`,
  `CanonicalTagsMean`), the tags because the encoder's order is a permutation
  that the semantic form, a set, does not see.
* *Decisions.* `DecisionsSurviveStoring` says that a dry run of a stored rule
  answers as one of its source. A number and its stripped form are rounded to the
  same float, whatever the rounding (`RoundedAlike`), so values are equal to,
  ordered with and members of the same facts as before (`CanonicalEquals`, `CanonicalOrders`,
  `CanonicalMembers`; the last is where lists with a literal such as `1.0` are
  excepted, because membership compares what is printed). Conditions then decide
  alike (`CanonicalConditionsDecide`), spliced groups keep their conditions in
  their order (`CanonicalGroupsSplice`), and trees are walked alike
  (`CanonicalTreesDecide`). That facts are what the runtime reads from JSON is an
  invariant of its own (`FactsInvariance`, from `JsonIsFacts`).
* *One encoding.* `OneEncodingPerRuleSet` says, of rules that were stored and of
  any document, that the document's rules would be stored as the same if and only
  if they differ from the source in spelling alone. What is spelling is said
  without the encoder (`AlikeRules`): numbers are compared by cross-multiplication,
  tags by a bijection. Below it are two facts about each kind of part. The encoder
  has one result: a number has one form without trailing zeros
  (`CanonicalIsUnique`, by `PowersAdd`), tags have one ascending arrangement
  (`CanonicalSetIsOne`: the permutation between two of them increases both ways, so it
  moves nothing, `IncreasingIsAbove`). And a part's result is a result of another
  part if and only if the two are alike (`ValuesAlike`, `ConditionsAlike`,
  `GroupsAlike`, `TreesAlike`, `TagSetsAlike`, `RulesAlike`, `RuleSetsAlike`), by
  nesting where parts nest. The relation on the parts of two values is itself
  recursive, and exists by `NestedRecursion`.
* *Scenarios.* `ScenariosReachTheirLeaf` says that the facts drawn for a path of the
  tree meet the rule's applicability and go down to that path's leaf, and that those
  drawn for `not_applicable` do not meet it. A drawn value is written as JSON and read
  back before anything is compared with it, so each operator's two values are
  followed there and back (`ReadBack`): an operand is equal to itself
  (`OperandsAreEqual`) and to nothing made to differ from it (`DifferentIsNotEqual`),
  one unit more or less is beyond a threshold if it is another number once
  rounded (`ThresholdIsOrdered`), the first item
  of a list is a member by what it prints and the reserved word is not
  (`FirstIsMember`). So a condition goes the way it is driven (`DrivenTrue`,
  `DrivenFalse`). Facts have what each pair says when no field has two pairs
  (`BuiltFactsRealise`), and each path that `EnumeratePaths` lists keeps its fields
  apart and is the way its facts go (`PathsArrive`, by nesting; `Arrives` is what is
  so of every part of the tree). The hypotheses are those of the property: each
  field tested once, and conditions that are `Drivable`. What is not drivable is what
  the generator cannot do: a threshold at either end of the mantissas, or one whose
  neighbour on the side the operator needs rounds to the same float, so that
  `x > 9007199254740992`, driven with 9007199254740993, misses its leaf; a list that
  is empty, that begins with a list or with an integer past the exact range, or
  that has the reserved word itself.

**Only model-checked, and why.** Liveness: `EveryRequestIsAnswered`,
`RevocationsGetRecorded`, `AppendedMovesMoveTheTag` and `CommandsEnd` hold under
fairness, which the prover does not treat. Every other property of a passing run is
stated by one of the theorems.

A note for whoever edits a module with proofs: `tlapm` lets a prefix operator
such as `UNION` or `SUBSET` reach over a following `\cup`, SANY and TLC do not.
The modules put parentheses wherever the two would differ.

## 5. Not modelled

* Argument parsing, printing, JSON, JSONL and Cypher text and the SQL view: no
  decisions of their own. What `MERGE` does to edges is modelled.
* Cryptographic primitives and the canonical byte encoding, used by what they
  promise: equal bytes, equal hash.
* YAML text: documents come as the library's node tree.
* The WASM and Python bindings and the golden-artifact generator call functions
  that are modelled; the frontend views the server's answers.
* The S3 backend of ADR 0012: `backend.rs` keeps a trait for it and implements
  the local file system only.
* The digits of `f64`: rounding is a constant of which little is assumed (section
  2). Infinities and NaN, which no literal and no JSON number becomes here.

## 6. What could come next

1. What remains of `LogFollowsTable` for unlocked commands: an event either
   follows the table or shares its number with one of a command that raced it.
2. Lookups by regime during a change of versions, with a history of what was
   published since the request, once the documents say what such a lookup
   returns.
3. That the irrelevant facts of a scenario change no outcome, as a comment of
   `scenario.rs` has it, for rules that test no field of their names.
