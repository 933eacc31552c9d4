-------------------------- MODULE ReaderProperties --------------------------
(***************************************************************************)
(* What a reader's answer is worth while commands write: what it still     *)
(* says of the registry when it is returned, and ever after.               *)
(***************************************************************************)
EXTENDS RegistryReaders, RegistryProperties

(* What the answer of r says, when it has one that names a state.          *)
Says(r) == answer[r] # None /\ answer[r].state # None

-----------------------------------------------------------------------------
(* Whatever the processes do.                                              *)

(* The artifacts a reply holds out as published: a verified one, the nodes *)
(* of a graph export, what a tag or a regime was resolved to.              *)
HeldOut(reply) ==
  IF reply = None THEN {}
  ELSE reply.exported \cup
       { h \in {reply.hash} : \/ reply.what = "verified"
                              \/ reply.what = "record" /\
                                 reply.how \in {"tag", "regime"} }

(* verify_artifact, graph_export.rs and resolve by tag and by regime:      *)
(* whatever other commands did between the reads, an artifact no authority *)
(* ever published is not verified, not exported, and not found under a tag *)
(* or for its regime.                                                      *)
HeldOutWasPublished ==
  \A r \in Reader : \A h \in HeldOut(answer[r]) :
    \E s \in Slots(h) : s[2] = "published"

-----------------------------------------------------------------------------
(* One command at a time, each of which may be stopped anywhere.           *)

(* read_registry_evidence reads the log twice: the status may be older     *)
(* than the head hash beside it, never newer. (It is the state of an event *)
(* at or below the head, which is still in the log.)                       *)
StatusNeverLeadsHead ==
  \A r \in Reader :
    Says(r) /\ answer[r].head # None =>
      \E d \in events[answer[r].hash] :
        d.seq <= answer[r].head.seq /\ StatusFor(d) = answer[r].state

Standing(state) ==
  CASE state = "Published" -> 1 [] state = "Deprecated" -> 2
    [] state = "Revoked" -> 3 [] OTHER -> 0

(* What a reader was told can be overtaken, never taken back: a log goes   *)
(* on from the state it was answered with, to be published, deprecated or  *)
(* revoked, and no rollback or recompilation leads the other way.          *)
AnswersAreNotTakenBack ==
  \A r \in Reader : Says(r) =>
    \A state \in LifecycleState :
      StateIs(answer[r].hash, state) =>
        Standing(answer[r].state) <= Standing(state)

(* A revocation record is surfaced "exactly when the state is Revoked" and *)
(* is written once: one that was handed to a consumer is the one on disk   *)
(* for good, and came with the state Revoked.                              *)
RecordsHandedOutAreFinal ==
  \A r \in Reader :
    answer[r] # None /\ answer[r].record # None =>
      /\ answer[r].state = "Revoked"
      /\ revocation[answer[r].hash] = answer[r].record

-----------------------------------------------------------------------------
(* A property that a document of the repository states and that a command  *)
(* between two reads breaks.                                               *)

(* ADR 0016: a consumer can detect staleness by "comparing the embedded    *)
(* event-head hash against a freshly-fetched live head": evidence that     *)
(* says Published under the live head is of a published artifact.          *)
FreshPublishedIsPublished ==
  \A r \in Reader :
    LET h == answer[r].hash IN
    Says(r) /\ answer[r].state = "Published" /\ answer[r].head # None
      => (Readable(h) /\ answer[r].head = HeadOf(h) => StateIs(h, "Published"))

=============================================================================
