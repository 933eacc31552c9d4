-------------------------- MODULE ArtifactLifecycle --------------------------
(***************************************************************************)
(* What the registry is for, with no files, events or processes: each      *)
(* artifact has one lifecycle state, changed only along the edges of the   *)
(* table; a tag is pointed at an artifact while that is Published; the     *)
(* policy of a revoked artifact is recorded once.                          *)
(***************************************************************************)
EXTENDS Lifecycle

CONSTANTS Hash, Tag, None, Torn

VARIABLES state, pointer, record

vars == <<state, pointer, record>>

Init ==
  /\ state = [h \in Hash |-> None]
  /\ pointer = [t \in Tag |-> None]
  /\ record = [h \in Hash |-> None]

(* The first event of an artifact.                                         *)
Create(h) ==
  /\ state[h] = None
  /\ state' = [state EXCEPT ![h] = "Draft"]
  /\ UNCHANGED <<pointer, record>>

(* An edge of the lifecycle table, its evidence established.               *)
Advance(h, new) ==
  /\ TableEdge(state[h], new)
  /\ state' = [state EXCEPT ![h] = new]
  /\ UNCHANGED <<pointer, record>>

(* Publication and rollback; a pointer file may be damaged on the way.     *)
PointTag(t, h) ==
  /\ state[h] = "Published"
  /\ pointer' \in { [pointer EXCEPT ![t] = x] : x \in {h, Torn} }
  /\ UNCHANGED <<state, record>>

RecordPolicy(h) ==
  /\ state[h] = "Revoked"
  /\ record[h] = None
  /\ record' \in
       { [record EXCEPT ![h] = r] :
           r \in [ policy : RevocationPolicy, class : SUBSET ReasonClass ]
                 \cup {Torn} }
  /\ UNCHANGED <<state, pointer>>

Next ==
  \/ \E h \in Hash : Create(h) \/ RecordPolicy(h)
  \/ \E h \in Hash, new \in LifecycleState : Advance(h, new)
  \/ \E h \in Hash, t \in Tag : PointTag(t, h)

Spec == Init /\ [][Next]_vars

=============================================================================
