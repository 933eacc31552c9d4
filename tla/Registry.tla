------------------------------ MODULE Registry ------------------------------
(***************************************************************************)
(* The local-FS registry and the `ke` commands that change it.             *)
(*                                                                         *)
(* Every command is one operating-system process that performs a sequence  *)
(* of file-system calls against a shared directory tree. There is no lock: *)
(* the tree is guarded only by existence checks made before a write. One   *)
(* action is one file-system call together with the decision the command   *)
(* makes on its result. Reads that follow one another with no write of the *)
(* same command between them, and whose results do not depend on the order *)
(* of other commands' writes between them, share an action.                *)
(*                                                                         *)
(* A command that fails, is killed, or meets an I/O error simply stops; it *)
(* undoes nothing. A writer stopped inside a write leaves a truncated      *)
(* ("torn") file behind, which every later reader fails to decode.         *)
(***************************************************************************)
EXTENDS Lifecycle

CONSTANTS
  Hash,        \* content hashes: the artifacts that can be compiled
  KindOf,      \* the artifact kind each content hash decodes to
  Tag,         \* tag pointers, one per <env, tag> pair
  Proc,        \* operating-system processes that run `ke` commands
  AttestSets,  \* sets of types an expert may pass to `ke attest`
  Bundles,     \* required-type sets of `--policy` bundle files
  RevokeArgs,  \* <<configured policies, reason classes>> given to `ke revoke`
  MaxSeq,      \* bound: no command starts on a log with an event this far on
  Serial,      \* TRUE: operators run one command at a time
  Crashes,     \* TRUE: a command may stop between two calls
  TornCalls,   \* the writes, by the calls' names, it may also stop inside
  None,        \* an absent file or value
  Torn         \* a file truncated by a write that did not complete

ASSUME RegistryAssumption ==
  /\ KindOf \in [Hash -> ArtifactKind]
  /\ AttestSets \subseteq SUBSET AttestationType
  /\ Bundles \subseteq SUBSET AttestationType
  /\ RevokeArgs \subseteq (SUBSET RevocationPolicy) \X (SUBSET ReasonClass)
  /\ MaxSeq \in Nat
  /\ Serial \in BOOLEAN
  /\ Crashes \in BOOLEAN
  /\ None \notin {"present", Torn}
  /\ {None, Torn} \cap Hash = {}

VARIABLES
  kew,          \* artifacts/<hash>/artifact.kew, by its attestation set
  events,       \* events/<hash>/: the decodable event files
  torn,         \* events/<hash>/: the torn event files, by name
  consistency,  \* consistency/<hash>.json
  revocation,   \* revocations/<hash>.json
  tags,         \* tags/<env>/<tag>.json, by the hash it points at
  pc,           \* the file-system call each process makes next
  job,          \* the command each process runs, with its arguments
  base          \* the head event each process chains its own event onto

store == <<kew, events, torn, consistency, revocation, tags>>
vars  == <<kew, events, torn, consistency, revocation, tags, pc, job, base>>

(***************************************************************************)
(* An event file is named by its sequence number and kind. Its chain hash  *)
(* covers its whole content, the predecessor's hash and the timestamp (in  *)
(* seconds) included. The number of times a name was given new content     *)
(* before is the version of what it holds; kind and version stand for the  *)
(* chain hash in the link of a successor.                                  *)
(***************************************************************************)
Link  == Kind \X Nat
Event == [ seq : Nat, kind : Kind, version : Nat,
           prior : LifecycleState \cup {None}, new : LifecycleState,
           link : Link \cup {None} ]
TornEvent == [ seq : Nat, kind : Kind, version : Nat ]

(* The mark of an absent file or value is none of the values there are.    *)
ASSUME AbsenceAssumption ==
  /\ \A types \in SUBSET AttestationType : types # None
  /\ None \notin Event

SlotOf(file)     == <<file.seq, file.kind>>
Files(h)         == events[h] \cup torn[h]
Slots(h)         == { SlotOf(f) : f \in Files(h) }
Vacated(S, slot) == { f \in S : SlotOf(f) # slot }
VersionAt(h, slot) ==
  IF slot \in Slots(h)
  THEN (CHOOSE f \in Files(h) : SlotOf(f) = slot).version + 1
  ELSE 0

(* What a write of e may leave in its file: content of its own, or, when   *)
(* the file on disk differs from e in nothing but perhaps the timestamp,   *)
(* the very bytes that were there (both commands ran in the same second).  *)
Written(h, e) ==
  {e} \cup { d \in events[h] : /\ SlotOf(d) = SlotOf(e) /\ d.prior = e.prior
                             /\ d.new = e.new /\ d.link = e.link }

ChainHash(e)   == <<e.kind, e.version>>
IsHead(h, e)   == \A d \in events[h] : d.seq <= e.seq

(* read_events then current_state: every file decodes, the sequence        *)
(* numbers are 0, 1, 2, ... with one file each, and every link matches.    *)
Readable(h) ==
  /\ torn[h] = {}
  /\ \A d, e \in events[h] : d.seq = e.seq => d = e
  /\ \A e \in events[h] :
       IF e.seq = 0
       THEN e.link = None
       ELSE \E d \in events[h] : d.seq + 1 = e.seq /\ e.link = ChainHash(d)

StateIs(h, state) ==
  /\ Readable(h)
  /\ \E e \in events[h] : IsHead(h, e) /\ e.new = state

-----------------------------------------------------------------------------
(* Commands and their arguments.                                           *)

Command == { "compile", "ml_check", "attest", "publish", "deprecate",
             "revoke", "rollback" }

Record == [ policy : RevocationPolicy, class : SUBSET ReasonClass ]

Job == [ cmd : Command, hash : Hash, tag : Tag \cup {None},
         types : SUBSET AttestationType, record : Record \cup {None} ]

PC == { "idle", "put_kew", "verify", "put_sidecar", "write_sidecar",
        "read_sidecar", "head", "append", "write", "point",
        "put_revocation", "write_revocation" }

(* The state a transition command moves its artifact to.                   *)
TargetState ==
  [ ml_check |-> "MlChecked", attest |-> "ExpertAttested",
    publish |-> "Published", deprecate |-> "Deprecated",
    revoke |-> "Revoked" ]

(* The event a command appends: the draft when it has no predecessor, a    *)
(* tag_moved that keeps the state, or the transition to its target.        *)
DraftEvent(h) ==
  [ seq |-> 0, kind |-> "draft", version |-> VersionAt(h, <<0, "draft">>),
    prior |-> None, new |-> "Draft", link |-> None ]

(* build_transition_event: above the head that was read, under its hash.   *)
Chained(h, prior, kind, new) ==
  [ seq |-> prior.seq + 1, kind |-> kind,
    version |-> VersionAt(h, <<prior.seq + 1, kind>>),
    prior |-> prior.new, new |-> new, link |-> ChainHash(prior) ]

TransitionEvent(h, prior, new) == Chained(h, prior, EventKind[new], new)
TagMovedEvent(h, prior) == Chained(h, prior, TagMoved, prior.new)

NewEvent(p) ==
  LET h == job[p].hash IN
  CASE job[p].cmd = "compile" /\ base[p] = None -> DraftEvent(h)
    [] job[p].cmd = "compile" /\ base[p] # None ->
         TransitionEvent(h, base[p], "StructurallyVerified")
    [] job[p].cmd = "rollback" -> TagMovedEvent(h, base[p])
    [] OTHER -> TransitionEvent(h, base[p], TargetState[job[p].cmd])

-----------------------------------------------------------------------------
(* Control of a process. A command that goes on keeps its job; one that    *)
(* ends, with or without an error, leaves nothing behind in memory.        *)

Goto(p, label) == pc' = [pc EXCEPT ![p] = label] /\ UNCHANGED <<job, base>>

Stop(p) ==
  /\ pc'   = [pc   EXCEPT ![p] = "idle"]
  /\ job'  = [job  EXCEPT ![p] = None]
  /\ base' = [base EXCEPT ![p] = None]

GotoIf(p, cond, label) == IF cond THEN Goto(p, label) ELSE Stop(p)

MayStart(p) ==
  /\ pc[p] = "idle"
  /\ Serial => \A q \in Proc : pc[q] = "idle"

Start(p, cmd, h, tag, types, record, label) ==
  /\ MayStart(p)
  /\ pc'  = [pc  EXCEPT ![p] = label]
  /\ job' = [job EXCEPT ![p] = [ cmd |-> cmd, hash |-> h, tag |-> tag,
                                 types |-> types, record |-> record ]]
  /\ UNCHANGED base
  /\ UNCHANGED store

-----------------------------------------------------------------------------
(* How each command begins: its arguments, and its check of the state.     *)
(* require_current_state, on a log within the bound.                       *)

CurrentStateIs(h, state) ==
  StateIs(h, state) /\ \A e \in events[h] : e.seq < MaxSeq

StartCompile(p) ==
  \E h \in Hash : Start(p, "compile", h, None, {}, None, "put_kew")

(* Mutants: the state is not checked; the event goes before its evidence.  *)
StartMlCheckUnchecked(p) ==
  \E h \in Hash : Start(p, "ml_check", h, None, {}, None, "put_sidecar")

StartMlCheckEventFirst(p) ==
  \E h \in Hash :
    /\ CurrentStateIs(h, "StructurallyVerified")
    /\ Start(p, "ml_check", h, None, {}, None, "head")

StartMlCheck(p) ==
  \E h \in Hash :
    /\ CurrentStateIs(h, "StructurallyVerified")
    /\ Start(p, "ml_check", h, None, {}, None, "put_sidecar")

(* Mutant: attestation without the ML check.                               *)
StartAttestUnchecked(p) ==
  \E h \in Hash, types \in AttestSets :
    /\ types # {}
    /\ CurrentStateIs(h, "StructurallyVerified")
    /\ kew[h] \notin {None, Torn}
    /\ Start(p, "attest", h, None, types, None, "put_kew")

(* The stored artifact is decoded for its payload and manifest, which no   *)
(* write changes; its attestation set is not kept.                         *)
StartAttest(p) ==
  \E h \in Hash, types \in AttestSets :
    /\ types # {}
    /\ CurrentStateIs(h, "MlChecked")
    /\ kew[h] \notin {None, Torn}
    /\ Start(p, "attest", h, None, types, None, "put_kew")

StartPublish(p) ==
  \E h \in Hash, tag \in Tag :
    \E required \in {PolicyForKind(KindOf[h])} \cup Bundles :
      /\ CurrentStateIs(h, "ExpertAttested")
      /\ Start(p, "publish", h, tag, required, None, "verify")

(* Mutant: any state may be deprecated.                                    *)
StartDeprecateAny(p) ==
  \E h \in Hash, from \in LifecycleState :
    /\ CurrentStateIs(h, from)
    /\ Start(p, "deprecate", h, None, {}, None, "head")

StartDeprecate(p) ==
  \E h \in Hash :
    /\ CurrentStateIs(h, "Published")
    /\ CanTransition("Published", "Deprecated", {})
    /\ Start(p, "deprecate", h, None, {}, None, "head")

(* Mutants: any state may be revoked; the record goes before the event.    *)
StartRevokeAny(p) ==
  \E h \in Hash, args \in RevokeArgs, from \in LifecycleState :
    /\ RevokeInputsAccepted(args[1], args[2])
    /\ CurrentStateIs(h, from)
    /\ Start(p, "revoke", h, None, {},
             [ policy |-> RecordedPolicy(args[1], args[2]),
               class |-> args[2] ], "head")

StartRevokeRecordFirst(p) ==
  \E h \in Hash, args \in RevokeArgs, from \in {"Published", "Deprecated"} :
    /\ RevokeInputsAccepted(args[1], args[2])
    /\ CurrentStateIs(h, from)
    /\ Start(p, "revoke", h, None, {},
             [ policy |-> RecordedPolicy(args[1], args[2]),
               class |-> args[2] ], "put_revocation")

StartRevoke(p) ==
  \E h \in Hash, args \in RevokeArgs, from \in LifecycleState :
    /\ RevokeInputsAccepted(args[1], args[2])
    /\ CurrentStateIs(h, from)
    /\ from \in {"Published", "Deprecated"}
    /\ CanTransition(from, "Revoked", {})
    /\ Start(p, "revoke", h, None, {},
             [ policy |-> RecordedPolicy(args[1], args[2]),
               class |-> args[2] ], "head")

StartRollback(p) ==
  \E h \in Hash, tag \in Tag, state \in LifecycleState :
    /\ CurrentStateIs(h, state)
    /\ IsRollbackEligible(state)
    /\ Start(p, "rollback", h, tag, {}, None, "head")

-----------------------------------------------------------------------------
(* The calls of a running command.                                         *)

(* put_artifact replaces whatever is stored. `ke compile` stores an        *)
(* artifact with no attestations; `ke attest` stores one whose set is the  *)
(* types it was asked for, and only then verifies that set.                *)
PutKew(p) ==
  /\ pc[p] = "put_kew"
  /\ kew' = [kew EXCEPT ![job[p].hash] = job[p].types]
  /\ IF job[p].cmd = "compile"
     THEN Goto(p, "append")
     ELSE GotoIf(p, /\ SetVerifies(job[p].types, PermissivePolicy,
                                   KindOf[job[p].hash])
                    /\ CanTransition("MlChecked", "ExpertAttested",
                                     {"attestation_set_valid"}),
                 "head")
  /\ UNCHANGED <<events, torn, consistency, revocation, tags>>

(* Mutants: the set is not verified; the tag is moved before the event is  *)
(* appended.                                                               *)
VerifyKewDecodeOnly(p) ==
  /\ pc[p] = "verify"
  /\ GotoIf(p, kew[job[p].hash] \notin {None, Torn}, "head")
  /\ UNCHANGED store

VerifyKewThenPoint(p) ==
  /\ pc[p] = "verify"
  /\ GotoIf(p, /\ kew[job[p].hash] \notin {None, Torn}
               /\ SetVerifies(kew[job[p].hash], job[p].types,
                              KindOf[job[p].hash]),
            "point")
  /\ UNCHANGED store

(* publish: decode the stored artifact, and verify the set it carries.     *)
VerifyKew(p) ==
  /\ pc[p] = "verify"
  /\ GotoIf(p, /\ kew[job[p].hash] \notin {None, Torn}
               /\ SetVerifies(kew[job[p].hash], job[p].types,
                              KindOf[job[p].hash])
               /\ CanTransition("ExpertAttested", "Published",
                                {"prior_is_expert_attested"}),
            "head")
  /\ UNCHANGED store

(* Mutant: an existing sidecar is not refused.                             *)
CheckSidecarLax(p) ==
  /\ pc[p] = "put_sidecar"
  /\ Goto(p, "write_sidecar")
  /\ UNCHANGED store

(* put_consistency: refuse an existing sidecar, then write it.             *)
CheckSidecar(p) ==
  /\ pc[p] = "put_sidecar"
  /\ GotoIf(p, consistency[job[p].hash] = None, "write_sidecar")
  /\ UNCHANGED store

WriteSidecar(p) ==
  /\ pc[p] = "write_sidecar"
  /\ consistency' = [consistency EXCEPT ![job[p].hash] = "present"]
  /\ Goto(p, "read_sidecar")
  /\ UNCHANGED <<kew, events, torn, revocation, tags>>

ReadSidecar(p) ==
  /\ pc[p] = "read_sidecar"
  /\ GotoIf(p, LET pre == IF consistency[job[p].hash] = "present"
                          THEN {"consistency_block_present"} ELSE {}
               IN  CanTransition("StructurallyVerified", "MlChecked", pre),
            "head")
  /\ UNCHANGED store

(* head_event: read the log again and take its head. The state it now      *)
(* shows is not compared with the one the command checked.                 *)
ReadHead(p) ==
  /\ pc[p] = "head"
  /\ LET h == job[p].hash IN
     \/ /\ Readable(h)
        /\ \E e \in events[h] :
             /\ IsHead(h, e)
             /\ base' = [base EXCEPT ![p] = e]
        /\ pc' = [pc EXCEPT ![p] = "append"]
        /\ UNCHANGED job
     \/ /\ ~ (Readable(h) /\ events[h] # {})
        /\ Stop(p)
  /\ UNCHANGED store

(* Mutant: an existing file is waited for.                                 *)
CheckSlotSpin(p) ==
  /\ pc[p] = "append"
  /\ Goto(p, IF SlotOf(NewEvent(p)) \notin Slots(job[p].hash)
             THEN "write" ELSE "append")
  /\ UNCHANGED store

(* append_event, first call: only a file of the same sequence number AND   *)
(* the same kind is refused.                                               *)
CheckSlot(p) ==
  /\ pc[p] = "append"
  /\ GotoIf(p, SlotOf(NewEvent(p)) \notin Slots(job[p].hash), "write")
  /\ UNCHANGED store

(* Mutant: a file is named by its sequence number only.                    *)
StoreEventBySeq(h, e) ==
  /\ events' = [events EXCEPT ![h] = { d \in @ : d.seq # e.seq } \cup {e}]
  /\ torn' = [torn EXCEPT ![h] = { d \in @ : d.seq # e.seq }]

(* append_event, second call: write the file, replacing one that appeared  *)
(* under the same name since the check.                                    *)
StoreEvent(h, e) ==
  /\ events' = [events EXCEPT ![h] = Vacated(@, SlotOf(e)) \cup {e}]
  /\ torn' = [torn EXCEPT ![h] = Vacated(@, SlotOf(e))]

WriteEvent(p) ==
  /\ pc[p] = "write"
  /\ \E e \in Written(job[p].hash, NewEvent(p)) :
       /\ StoreEvent(job[p].hash, e)
       /\ CASE job[p].cmd = "compile" /\ base[p] = None ->
                 \* the draft is stored; the transition is chained onto it
                 IF CanTransition("Draft", "StructurallyVerified",
                                  {"structural_clean",
                                   "compiler_signature_valid"})
                 THEN /\ base' = [base EXCEPT ![p] = e]
                      /\ pc' = [pc EXCEPT ![p] = "append"]
                      /\ UNCHANGED job
                 ELSE Stop(p)
            [] job[p].cmd \in {"publish", "rollback"} -> Goto(p, "point")
            [] job[p].cmd = "revoke" -> Goto(p, "put_revocation")
            [] OTHER -> Stop(p)
  /\ UNCHANGED <<kew, consistency, revocation, tags>>

(* Mutants: the tag is written as its own target; the log is read again    *)
(* before the pointer is moved.                                            *)
PutPointerSwapped(p) ==
  /\ pc[p] = "point"
  /\ tags' = [tags EXCEPT ![job[p].tag] = job[p].tag]
  /\ Stop(p)
  /\ UNCHANGED <<kew, events, torn, consistency, revocation>>

PutPointerRechecked(p) ==
  /\ pc[p] = "point"
  /\ tags' = IF StateIs(job[p].hash, "Published")
             THEN [tags EXCEPT ![job[p].tag] = job[p].hash] ELSE tags
  /\ Stop(p)
  /\ UNCHANGED <<kew, events, torn, consistency, revocation>>

(* put_pointer: the pointer is overwritten without a check.                *)
PutPointer(p) ==
  /\ pc[p] = "point"
  /\ tags' = [tags EXCEPT ![job[p].tag] = job[p].hash]
  /\ Stop(p)
  /\ UNCHANGED <<kew, events, torn, consistency, revocation>>

(* Mutant: a missing sidecar is refused.                                   *)
CheckRevocationInverted(p) ==
  /\ pc[p] = "put_revocation"
  /\ GotoIf(p, revocation[job[p].hash] # None, "write_revocation")
  /\ UNCHANGED store

(* put_revocation: refuse an existing sidecar, then write it.              *)
CheckRevocation(p) ==
  /\ pc[p] = "put_revocation"
  /\ GotoIf(p, revocation[job[p].hash] = None, "write_revocation")
  /\ UNCHANGED store

WriteRevocation(p) ==
  /\ pc[p] = "write_revocation"
  /\ revocation' = [revocation EXCEPT ![job[p].hash] = job[p].record]
  /\ Stop(p)
  /\ UNCHANGED <<kew, events, torn, consistency, tags>>

-----------------------------------------------------------------------------
(* A command stops where it is: killed, or ended by an I/O error.          *)
Crash(p) ==
  /\ Crashes
  /\ pc[p] # "idle"
  /\ Stop(p)
  /\ UNCHANGED store

(* A command stops inside a write: the file is there, truncated.           *)
TearEvent(h, e) ==
  /\ events' = [events EXCEPT ![h] = Vacated(@, SlotOf(e))]
  /\ torn' = [torn EXCEPT ![h] = Vacated(@, SlotOf(e)) \cup
       {[ seq |-> e.seq, kind |-> e.kind, version |-> e.version ]}]

CrashInWrite(p) ==
  /\ Crashes /\ pc[p] \in TornCalls
  /\ LET h == job[p].hash IN
     \/ /\ pc[p] = "put_kew"
        /\ kew' = [kew EXCEPT ![h] = Torn]
        /\ UNCHANGED <<events, torn, consistency, revocation, tags>>
     \/ /\ pc[p] = "write_sidecar"
        /\ consistency' = [consistency EXCEPT ![h] = Torn]
        /\ UNCHANGED <<kew, events, torn, revocation, tags>>
     \/ /\ pc[p] = "write"
        /\ TearEvent(h, NewEvent(p))
        /\ UNCHANGED <<kew, consistency, revocation, tags>>
     \/ /\ pc[p] = "point"
        /\ tags' = [tags EXCEPT ![job[p].tag] = Torn]
        /\ UNCHANGED <<kew, events, torn, consistency, revocation>>
     \/ /\ pc[p] = "write_revocation"
        /\ revocation' = [revocation EXCEPT ![h] = Torn]
        /\ UNCHANGED <<kew, events, torn, consistency, tags>>
  /\ Stop(p)

-----------------------------------------------------------------------------
Init ==
  /\ kew = [h \in Hash |-> None]
  /\ events = [h \in Hash |-> {}]
  /\ torn = [h \in Hash |-> {}]
  /\ consistency = [h \in Hash |-> None]
  /\ revocation = [h \in Hash |-> None]
  /\ tags = [t \in Tag |-> None]
  /\ pc = [p \in Proc |-> "idle"]
  /\ job = [p \in Proc |-> None]
  /\ base = [p \in Proc |-> None]

Begin(p) ==
  \/ StartCompile(p) \/ StartMlCheck(p) \/ StartAttest(p) \/ StartPublish(p)
  \/ StartDeprecate(p) \/ StartRevoke(p) \/ StartRollback(p)

Step(p) ==
  \/ PutKew(p) \/ VerifyKew(p)
  \/ CheckSidecar(p) \/ WriteSidecar(p) \/ ReadSidecar(p)
  \/ ReadHead(p) \/ CheckSlot(p) \/ WriteEvent(p)
  \/ PutPointer(p) \/ CheckRevocation(p) \/ WriteRevocation(p)

Next == \E p \in Proc : Begin(p) \/ Step(p) \/ Crash(p) \/ CrashInWrite(p)

Spec == Init /\ [][Next]_vars

(* A started process is scheduled until it ends; nobody has to start one.  *)
FairSpec == Spec /\ \A p \in Proc : WF_vars(Step(p))

=============================================================================
