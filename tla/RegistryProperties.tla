------------------------- MODULE RegistryProperties -------------------------
(***************************************************************************)
(* What the registry promises. The first group holds whatever the          *)
(* processes do: unlocked writers, commands killed anywhere. The second    *)
(* holds when operators run one command at a time (Serial), killed or not. *)
(* The third also needs every started command to run to its end.           *)
(***************************************************************************)
EXTENDS Registry

(* The type of every variable of the registry (the files of the local-FS   *)
(* tree) and of the `ke` processes.                                        *)
TypeOK ==
  /\ kew \in [Hash -> (SUBSET AttestationType) \cup {None, Torn}]
  /\ events \in [Hash -> SUBSET Event]
  /\ torn \in [Hash -> SUBSET TornEvent]
  /\ consistency \in [Hash -> {"present", None, Torn}]
  /\ revocation \in [Hash -> Record \cup {None, Torn}]
  /\ tags \in [Tag -> Hash \cup {None, Torn}]
  /\ pc \in [Proc -> PC]
  /\ job \in [Proc -> Job \cup {None}]
  /\ base \in [Proc -> Event \cup {None}]

-----------------------------------------------------------------------------
(* Whatever the processes do.                                              *)

(* The event that has to be in the log before an event of each kind.       *)
Prerequisite ==
  [ structurally_verified |-> "draft", ml_checked |-> "structurally_verified",
    expert_attested |-> "ml_checked", published |-> "expert_attested",
    deprecated |-> "published", revoked |-> "published",
    tag_moved |-> "published" ]

Earlier(h, kind, seq) == \E s \in Slots(h) : s[2] = kind /\ s[1] < seq

(* No interleaving and no crash skips an authority: the log of an artifact *)
(* holds an event of a kind only above the event of the authority before   *)
(* it, so nothing is published that was not attested, ML-checked and       *)
(* structurally verified, although every command chains onto a head it     *)
(* reads after, and apart from, its check of the state (`head_event`).     *)
EveryEventWasEarned ==
  \A h \in Hash : \A s \in Slots(h) :
    s[2] # "draft" => Earlier(h, Prerequisite[s[2]], s[1])

(* ml_check.rs stores the evidence before the event it justifies: an       *)
(* artifact is never ml_checked with no consistency sidecar on disk.       *)
MlCheckedHasEvidence ==
  \A h \in Hash :
    (\E s \in Slots(h) : s[2] = "ml_checked") => consistency[h] # None

(* revoke.rs stores the sidecar after the event: a revocation record is    *)
(* never on disk for an artifact whose log has no revoked event.           *)
RecordHasRevokedEvent ==
  \A h \in Hash :
    revocation[h] # None => \E s \in Slots(h) : s[2] = "revoked"

(* A tag, moved by publish.rs or rollback.rs, only ever names an artifact  *)
(* that has been published, wherever its writers were interrupted.         *)
TagsNameOncePublished ==
  \A t \in Tag :
    tags[t] \in Hash => \E s \in Slots(tags[t]) : s[2] = "published"

(* append_event never makes an event file disappear: a race can replace    *)
(* what a file says, never the fact that an event of that kind was         *)
(* appended at that sequence number.                                       *)
EventNamesStay == [][\A h \in Hash : Slots(h) \subseteq Slots(h)']_vars

(* A process that may still append the ml_checked event of h, its sidecar  *)
(* check behind it.                                                        *)
MlCheckInFlight(h) ==
  \E p \in Proc : /\ pc[p] \notin {"idle", "put_sidecar"}
                  /\ job[p].cmd = "ml_check" /\ job[p].hash = h

(* The sidecar is there, its event is not, and no process is about to      *)
(* write it.                                                               *)
InterruptedMlCheck(h) ==
  /\ consistency[h] # None
  /\ ~ \E s \in Slots(h) : s[2] = "ml_checked"
  /\ ~ MlCheckInFlight(h)

(* ml_check.rs is not resumable: when it was stopped between its sidecar   *)
(* and its event, put_consistency refuses every retry and the artifact     *)
(* never becomes ml_checked.                                               *)
InterruptedMlCheckIsFinal ==
  [][\A h \in Hash : InterruptedMlCheck(h) => InterruptedMlCheck(h)']_vars

-----------------------------------------------------------------------------
(* One command at a time, each of which may be stopped anywhere.           *)

(* The decodable events are a chain with one event per sequence number     *)
(* whose every link is an edge of the lifecycle table, or a tag move that  *)
(* keeps Published (mod.rs: `can_transition`, `build_tag_moved_event`).    *)
LegalLink(d, e) ==
  /\ e.seq = d.seq + 1 /\ e.link = ChainHash(d) /\ e.prior = d.new
  /\ \/ TableEdge(d.new, e.new) /\ e.kind = EventKind[e.new]
     \/ e.kind = TagMoved /\ d.new = "Published" /\ e.new = "Published"

LogFollowsTable ==
  \A h \in Hash :
    /\ \A d, e \in events[h] : d.seq = e.seq => d = e
    /\ \A e \in events[h] :
         IF e.seq = 0
         THEN e.kind = "draft" /\ e.new = "Draft" /\ e.link = None
         ELSE \E d \in events[h] : LegalLink(d, e)

(* publish.rs and rollback.rs: a tag is set only to an artifact that is    *)
(* Published when it is set, so never to a deprecated or revoked one.      *)
TagsMoveToPublished ==
  [][\A t \in Tag :
       tags'[t] # tags[t] /\ tags'[t] # Torn =>
         StateIs(tags'[t], "Published")]_vars

(* publish.rs verifies the stored artifact before it builds the event:     *)
(* when the published event is written, the attestations on disk still     *)
(* satisfy the policy the command resolved.                                *)
PublishesVerifiedSet ==
  \A p \in Proc :
    pc[p] \in {"head", "append", "write"} /\ job[p].cmd = "publish" =>
      SetVerifies(kew[job[p].hash], job[p].types, KindOf[job[p].hash])

(* The files implement the abstract lifecycle: an artifact's state is what *)
(* the last decodable event of its log says, as current_state has it.      *)
StateOf(h) ==
  IF events[h] = {} THEN None
  ELSE (CHOOSE e \in events[h] : IsHead(h, e)).new

Abstract ==
  INSTANCE ArtifactLifecycle
    WITH state <- [h \in Hash |-> StateOf(h)],
         pointer <- tags, record <- revocation

(* Every file-system call of every command, completed or cut short, is a   *)
(* step of the abstract lifecycle or leaves it unchanged.                  *)
ImplementsLifecycle == Abstract!Spec

-----------------------------------------------------------------------------
(* One command at a time, each of which runs to its end.                   *)

Quiet == \A p \in Proc : pc[p] = "idle"

(* Between commands no artifact is left half way: a stored artifact is     *)
(* past Draft, its state is readable, and its consistency sidecar is there *)
(* exactly once it has been ml_checked, so every command can be retried.   *)
NothingIsHalfDone ==
  Quiet => \A h \in Hash : kew[h] # None =>
    /\ \E state \in LifecycleState \ {"Draft"} : StateIs(h, state)
    /\ consistency[h] # None <=> \E s \in Slots(h) : s[2] = "ml_checked"

-----------------------------------------------------------------------------
(* Properties that documents or comments of the repository state and that  *)
(* an interleaving, a crash or a recompilation breaks.                     *)

(* backend.rs, append_event: "Refuses to overwrite an existing seq         *)
(* (append-only)": one sequence number is used by one event file.          *)
OneEventPerSeq ==
  \A h \in Hash : \A r, s \in Slots(h) : r[1] = s[1] => r = s

(* ADR 0012: "Published bytes never change."                               *)
PublishedBytesNeverChange ==
  [][\A h \in Hash :
       StateIs(h, "Published") => kew'[h] = kew[h]]_vars

-----------------------------------------------------------------------------
(* Progress, when every started command is scheduled and none is stopped.  *)

(* revoke.rs: the event, once written, is followed by the policy record,   *)
(* by this command or by one that raced with it.                           *)
RevocationsGetRecorded ==
  \A h \in Hash :
    (\E s \in Slots(h) : s[2] = "revoked") ~> revocation[h] \in Record

(* publish.rs and rollback.rs: a command whose event was written does move *)
(* its tag, whatever other commands do to the log meanwhile.               *)
AppendedMovesMoveTheTag ==
  \A h \in Hash, t \in Tag :
    (\E p \in Proc : pc[p] = "point" /\ job[p].hash = h /\ job[p].tag = t)
      ~> tags[t] = h

(* No command waits for another: each that starts ends.                    *)
CommandsEnd == \A p \in Proc : pc[p] # "idle" ~> pc[p] = "idle"

=============================================================================
