--------------------------- MODULE RegistryProofs ---------------------------
(***************************************************************************)
(* Proofs of what the registry promises: any number of artifacts, tags and *)
(* processes, logs of any length, commands stopped anywhere, inside a      *)
(* write or between two. First whatever the processes do, unlocked, then   *)
(* when operators run one command at a time.                               *)
(*                                                                         *)
(* The argument of the first part, where Serial, Crashes and TornCalls     *)
(* stay arbitrary: names of event files never vanish and a sidecar, once   *)
(* there, stays, so what a command has established by its checks -- that   *)
(* the event its own event needs is in the log, that the head it chains    *)
(* onto is above it, that the evidence is on disk -- cannot be undone by   *)
(* another process, even though the state it checked may well be.          *)
(***************************************************************************)
EXTENDS RegistryProperties, TLAPS

-----------------------------------------------------------------------------
(* The inductive invariant.                                                *)

Has(h, kind) == \E s \in Slots(h) : s[2] = kind
UpTo(h, kind, seq) == \E s \in Slots(h) : s[2] = kind /\ s[1] <= seq

(* The calls each command makes.                                           *)
Path ==
  [ compile |-> {"put_kew", "append", "write"},
    ml_check |-> {"put_sidecar", "write_sidecar", "read_sidecar", "head",
                  "append", "write"},
    attest |-> {"put_kew", "head", "append", "write"},
    publish |-> {"verify", "head", "append", "write", "point"},
    deprecate |-> {"head", "append", "write"},
    revoke |-> {"head", "append", "write", "put_revocation",
                "write_revocation"},
    rollback |-> {"head", "append", "write", "point"} ]

(* The kind of event each command has seen in the log.                     *)
Need ==
  [ compile |-> "draft", ml_check |-> "structurally_verified",
    attest |-> "ml_checked", publish |-> "expert_attested",
    deprecate |-> "published", revoke |-> "published",
    rollback |-> "published" ]

(* A state some event produced has the event that first produced it.       *)
StatesHaveEvents ==
  \A h \in Hash : \A e \in events[h] : UpTo(h, EventKind[e.new], e.seq)

(* The process has a predecessor for its event.                            *)
HasBase(p) ==
  /\ pc[p] \in {"append", "write"}
  /\ job[p].cmd # "compile" \/ base[p] # None

(* What a running command knows, and keeps knowing.                        *)
Knows(p) ==
  /\ pc[p] \in {"idle", "put_kew"} => base[p] = None
  /\ pc[p] # "idle" =>
       LET h == job[p].hash
           cmd == job[p].cmd
       IN  /\ job[p] \in Job
           /\ pc[p] \in Path[cmd]
           /\ cmd # "compile" => Has(h, Need[cmd])
           /\ HasBase(p) => /\ base[p] \in Event
                            /\ UpTo(h, Need[cmd], base[p].seq)
                            /\ UpTo(h, EventKind[base[p].new], base[p].seq)
           /\ cmd = "ml_check" /\ pc[p] \notin {"put_sidecar", "write_sidecar"}
                => consistency[h] # None
           /\ pc[p] \in {"put_revocation", "write_revocation"}
                => Has(h, "revoked")
           /\ pc[p] = "point" => Has(h, "published")

LogInv == EveryEventWasEarned /\ StatesHaveEvents

SidecarInv ==
  MlCheckedHasEvidence /\ RecordHasRevokedEvent /\ TagsNameOncePublished

Inv == TypeOK /\ LogInv /\ SidecarInv /\ \A p \in Proc : Knows(p)

-----------------------------------------------------------------------------
(* What a write does to the names of the event files.                      *)

(* slot is added to the names of the files of h; others stay as they are.  *)
Added(h, slot) ==
  \A g \in Hash : Slots(g)' = IF g = h THEN Slots(g) \cup {slot} ELSE Slots(g)

(* Every event of a log was there before, or is e in the log of h.         *)
Bounded(h, e) ==
  \A g \in Hash : events'[g] \subseteq
    IF g = h THEN events[g] \cup {e} ELSE events[g]

LEMMA StoreAdds ==
  ASSUME TypeOK, NEW h \in Hash, NEW e \in Event, StoreEvent(h, e)
  PROVE  Added(h, SlotOf(e)) /\ Bounded(h, e)
<1>1. \A g \in Hash :
        /\ events'[g] = IF g = h THEN Vacated(events[g], SlotOf(e)) \cup {e}
                        ELSE events[g]
        /\ torn'[g] = IF g = h THEN Vacated(torn[g], SlotOf(e)) ELSE torn[g]
  BY DEF TypeOK, StoreEvent
<1>2. Bounded(h, e)
  BY <1>1 DEF Bounded, Vacated
<1>3. \A g \in Hash : g # h => Slots(g)' = Slots(g)
  BY <1>1 DEF Slots, Files
<1>4. Slots(h)' = Slots(h) \cup {SlotOf(e)}
  <2>1. Slots(h)' = {SlotOf(f) : f \in events'[h] \cup torn'[h]}
    BY DEF Slots, Files
  <2>2. events'[h] \cup torn'[h]
          = Vacated(events[h] \cup torn[h], SlotOf(e)) \cup {e}
    BY <1>1 DEF Vacated
  <2> QED BY <2>1, <2>2 DEF Slots, Files, Vacated
<1> QED BY <1>2, <1>3, <1>4 DEF Added

LEMMA TearAdds ==
  ASSUME TypeOK, NEW h \in Hash, NEW e \in Event, TearEvent(h, e)
  PROVE  Added(h, SlotOf(e)) /\ \A g \in Hash : events'[g] \subseteq events[g]
<1> DEFINE t == [ seq |-> e.seq, kind |-> e.kind, version |-> e.version ]
<1>1. \A g \in Hash :
        /\ events'[g] = IF g = h THEN Vacated(events[g], SlotOf(e))
                        ELSE events[g]
        /\ torn'[g] = IF g = h THEN Vacated(torn[g], SlotOf(e)) \cup {t}
                      ELSE torn[g]
  BY DEF TypeOK, TearEvent
<1>2. \A g \in Hash : events'[g] \subseteq events[g]
  BY <1>1 DEF Vacated
<1>3. \A g \in Hash : g # h => Slots(g)' = Slots(g)
  BY <1>1 DEF Slots, Files
<1>4. Slots(h)' = Slots(h) \cup {SlotOf(e)}
  <2>1. Slots(h)' = {SlotOf(f) : f \in events'[h] \cup torn'[h]}
    BY DEF Slots, Files
  <2>2. events'[h] \cup torn'[h]
          = Vacated(events[h] \cup torn[h], SlotOf(e)) \cup {t}
    BY <1>1 DEF Vacated
  <2>3. SlotOf(t) = SlotOf(e)
    BY DEF SlotOf
  <2> QED BY <2>1, <2>2, <2>3 DEF Slots, Files, Vacated
<1> QED BY <1>2, <1>3, <1>4 DEF Added

-----------------------------------------------------------------------------
(* The event a command writes.                                             *)

LEMMA VersionType ==
  ASSUME TypeOK, NEW h \in Hash, NEW slot
  PROVE  VersionAt(h, slot) \in Nat
<1>1. CASE slot \in Slots(h)
  <2>1. \E f \in Files(h) : SlotOf(f) = slot
    BY <1>1 DEF Slots
  <2>2. \A f \in Files(h) : f.version \in Nat
    BY DEF TypeOK, Files, Event, TornEvent
  <2> DEFINE c == CHOOSE f \in Files(h) : SlotOf(f) = slot
  <2>3. c \in Files(h)
    BY <2>1
  <2>4. c.version \in Nat
    BY <2>2, <2>3
  <2> QED BY <1>1, <2>4 DEF VersionAt
<1>2. CASE slot \notin Slots(h)
  BY <1>2 DEF VersionAt
<1> QED BY <1>1, <1>2

(* The kind of event each command appends on a predecessor.                *)
Appends ==
  [ compile |-> "structurally_verified", ml_check |-> "ml_checked",
    attest |-> "expert_attested", publish |-> "published",
    deprecate |-> "deprecated", revoke |-> "revoked",
    rollback |-> TagMoved ]

(* e is the event p writes, its version left open.                         *)
IsEventOf(p, e) ==
  /\ e \in Event
  /\ HasBase(p) =>
       /\ e.seq = base[p].seq + 1
       /\ e.kind = Appends[job[p].cmd]
       /\ IF job[p].cmd = "rollback" THEN e.new = base[p].new
          ELSE EventKind[e.new] = e.kind
  /\ ~ HasBase(p) => e.seq = 0 /\ e.kind = "draft" /\ e.new = "Draft"

LEMMA NewEventIsEventOf ==
  ASSUME TypeOK, NEW p \in Proc, Knows(p), pc[p] \in {"append", "write"}
  PROVE  IsEventOf(p, NewEvent(p)) /\ job[p].hash \in Hash
<1> DEFINE h == job[p].hash
           b == base[p]
<1>1. h \in Hash /\ job[p].cmd \in Command
  BY DEF Knows, Job
<1>2. \A slot : VersionAt(h, slot) \in Nat
  BY <1>1, VersionType
<1>3. CASE ~ HasBase(p)
  <2>1. NewEvent(p) = DraftEvent(h)
    BY <1>3 DEF HasBase, NewEvent
  <2>2. DraftEvent(h) \in Event
    BY <1>2 DEF DraftEvent, Event, Kind, LifecycleState
  <2> QED BY <1>1, <1>3, <2>1, <2>2 DEF IsEventOf, DraftEvent
<1>4. CASE HasBase(p)
  <2>1. b \in Event
    BY <1>4 DEF Knows
  <2>2. \A kind \in Kind, new \in LifecycleState :
          /\ Chained(h, b, kind, new) \in Event
          /\ Chained(h, b, kind, new).seq = b.seq + 1
          /\ Chained(h, b, kind, new).kind = kind
          /\ Chained(h, b, kind, new).new = new
    BY <1>2, <2>1 DEF Chained, ChainHash, Link, Event
  <2>3. CASE job[p].cmd = "rollback"
    <3>1. NewEvent(p) = Chained(h, b, TagMoved, b.new)
      BY <2>3 DEF NewEvent, TagMovedEvent
    <3>2. TagMoved \in Kind /\ b.new \in LifecycleState
      BY <2>1 DEF Kind, TagMoved, Event
    <3> QED BY <1>1, <1>4, <2>2, <2>3, <3>1, <3>2 DEF IsEventOf, Appends
  <2>4. CASE job[p].cmd # "rollback"
    <3>1. PICK new \in LifecycleState :
            /\ NewEvent(p) = Chained(h, b, EventKind[new], new)
            /\ EventKind[new] = Appends[job[p].cmd]
      BY <1>1, <1>4, <2>4
      DEF HasBase, NewEvent, TransitionEvent, TargetState, EventKind,
          LifecycleState, Command, Appends
    <3>2. EventKind[new] \in Kind
      BY DEF EventKind, Kind, LifecycleState
    <3> QED BY <1>1, <1>4, <2>2, <2>4, <3>1, <3>2 DEF IsEventOf
  <2> QED BY <2>3, <2>4
<1> QED BY <1>3, <1>4

LEMMA WrittenIsEventOf ==
  ASSUME TypeOK, NEW p \in Proc, Knows(p), pc[p] \in {"append", "write"},
         NEW e \in Written(job[p].hash, NewEvent(p))
  PROVE  IsEventOf(p, e)
<1>1. IsEventOf(p, NewEvent(p)) /\ job[p].hash \in Hash
  BY NewEventIsEventOf
<1>2. CASE e = NewEvent(p)
  BY <1>1, <1>2
<1>3. CASE e \in events[job[p].hash] /\ SlotOf(e) = SlotOf(NewEvent(p))
           /\ e.new = NewEvent(p).new
  <2>1. e \in Event
    BY <1>1, <1>3 DEF TypeOK
  <2>2. e.seq = NewEvent(p).seq /\ e.kind = NewEvent(p).kind
    BY <1>3 DEF SlotOf
  <2> QED BY <1>1, <1>3, <2>1, <2>2 DEF IsEventOf
<1> QED BY <1>2, <1>3 DEF Written

-----------------------------------------------------------------------------
(* What every step leaves in place, and what it may do to a process.       *)

Grows ==
  \A h \in Hash : /\ Slots(h) \subseteq Slots(h)'
                  /\ consistency[h] # None => consistency'[h] # None

OnlyMoves(p) ==
  \A q \in Proc \ {p} :
    pc'[q] = pc[q] /\ job'[q] = job[q] /\ base'[q] = base[q]

LEMMA KnowledgeStays ==
  ASSUME Grows, NEW p \in Proc, Knows(p),
         pc'[p] = pc[p], job'[p] = job[p], base'[p] = base[p]
  PROVE  Knows(p)'
<1> SUFFICES ASSUME pc[p] # "idle" PROVE Knows(p)'
  BY DEF Knows
<1>1. job[p].hash \in Hash
  BY DEF Knows, Job
<1>2. /\ \A kind : Has(job[p].hash, kind) => Has(job[p].hash, kind)'
      /\ \A kind, seq : UpTo(job[p].hash, kind, seq)
                          => UpTo(job[p].hash, kind, seq)'
  BY <1>1 DEF Grows, Has, UpTo
<1> QED BY <1>1, <1>2 DEF Grows, Knows, HasBase, Has, UpTo

LEMMA GotoMoves ==
  ASSUME TypeOK, NEW p \in Proc, NEW label \in PC, Goto(p, label)
  PROVE  /\ pc' \in [Proc -> PC] /\ job' = job /\ base' = base
         /\ OnlyMoves(p) /\ pc'[p] = label
BY DEF TypeOK, Goto, OnlyMoves

LEMMA StopMoves ==
  ASSUME TypeOK, NEW p \in Proc, Stop(p)
  PROVE  /\ pc' \in [Proc -> PC]
         /\ job' \in [Proc -> Job \cup {None}]
         /\ base' \in [Proc -> Event \cup {None}]
         /\ OnlyMoves(p) /\ pc'[p] = "idle" /\ Knows(p)'
BY DEF TypeOK, Stop, OnlyMoves, Knows, PC

LEMMA StartMoves ==
  ASSUME TypeOK, NEW p \in Proc, NEW cmd \in Command, NEW h \in Hash,
         NEW tag \in Tag \cup {None}, NEW types \in SUBSET AttestationType,
         NEW record \in Record \cup {None}, NEW label \in PC,
         Start(p, cmd, h, tag, types, record, label)
  PROVE  /\ UNCHANGED store
         /\ pc' \in [Proc -> PC]
         /\ job' \in [Proc -> Job \cup {None}]
         /\ base' = base
         /\ OnlyMoves(p) /\ pc'[p] = label
         /\ job'[p] \in Job /\ job'[p].cmd = cmd /\ job'[p].hash = h
<1> DEFINE j == [ cmd |-> cmd, hash |-> h, tag |-> tag, types |-> types,
                  record |-> record ]
<1>1. j \in Job /\ j.cmd = cmd /\ j.hash = h
  BY DEF Job
<1>2. /\ pc' = [pc EXCEPT ![p] = label] /\ job' = [job EXCEPT ![p] = j]
      /\ UNCHANGED base /\ UNCHANGED store
  BY DEF Start
<1> QED BY <1>1, <1>2 DEF TypeOK, OnlyMoves

(* What has to be shown of a step of p.                                    *)
Keeps(p) ==
  /\ TypeOK' /\ LogInv' /\ SidecarInv'
  /\ Grows /\ OnlyMoves(p) /\ Knows(p)'

LEMMA StoreUnchanged ==
  ASSUME Inv, UNCHANGED store
  PROVE  LogInv' /\ SidecarInv' /\ Grows /\ \A h \in Hash : Slots(h)' = Slots(h)
<1>1. \A h : Slots(h)' = Slots(h)
  BY DEF store, Slots, Files
<1> QED
  BY <1>1 DEF store, Inv, LogInv, SidecarInv, Grows, EveryEventWasEarned,
              Earlier, StatesHaveEvents, UpTo, MlCheckedHasEvidence,
              RecordHasRevokedEvent, TagsNameOncePublished

LEMMA QuietStep ==
  ASSUME Inv, NEW p \in Proc, UNCHANGED store, OnlyMoves(p), Knows(p)',
         pc' \in [Proc -> PC], job' \in [Proc -> Job \cup {None}],
         base' \in [Proc -> Event \cup {None}]
  PROVE  Keeps(p)
<1>1. TypeOK'
  BY DEF Inv, TypeOK, store
<1> QED BY <1>1, StoreUnchanged DEF Keeps

-----------------------------------------------------------------------------
(* Writing, or tearing, the event of a command.                            *)

LEMMA NewSlotIsEarned ==
  ASSUME Inv, NEW p \in Proc, pc[p] = "write", NEW e, IsEventOf(p, e),
         NEW h \in Hash, h = job[p].hash, Added(h, SlotOf(e))
  PROVE  e.kind # "draft" =>
           Earlier(h, Prerequisite[e.kind], e.seq)'
<1> SUFFICES ASSUME e.kind # "draft"
             PROVE  Earlier(h, Prerequisite[e.kind], e.seq)'
  OBVIOUS
<1>1. Knows(p) /\ h \in Hash /\ job[p].cmd \in Command
  BY DEF Inv, Knows, Job
<1>2. HasBase(p)
  BY DEF IsEventOf
<1>3. /\ base[p].seq \in Nat /\ e.seq = base[p].seq + 1
      /\ UpTo(h, Need[job[p].cmd], base[p].seq)
      /\ e.kind = Appends[job[p].cmd]
  BY <1>1, <1>2 DEF Knows, IsEventOf, Event
<1>4. Prerequisite[e.kind] = Need[job[p].cmd]
  BY <1>1, <1>3 DEF Prerequisite, Need, Appends, Command, TagMoved
<1>5. PICK s \in Slots(h) : s[2] = Need[job[p].cmd] /\ s[1] <= base[p].seq
  BY <1>3 DEF UpTo
<1>6. s[1] \in Nat
  BY <1>1, <1>5 DEF Inv, TypeOK, Slots, Files, SlotOf, Event, TornEvent
<1>7. s \in Slots(h)' /\ s[1] < e.seq
  BY <1>1, <1>3, <1>5, <1>6 DEF Added
<1> QED BY <1>4, <1>5, <1>7 DEF Earlier

LEMMA NewStateHasEvent ==
  ASSUME Inv, NEW p \in Proc, pc[p] = "write", NEW e, IsEventOf(p, e),
         NEW h \in Hash, h = job[p].hash, Added(h, SlotOf(e))
  PROVE  UpTo(h, EventKind[e.new], e.seq)'
<1>1. Knows(p) /\ h \in Hash /\ e.seq \in Nat
  BY DEF Inv, Knows, Job, IsEventOf, Event
<1>2. SlotOf(e) \in Slots(h)' /\ Slots(h) \subseteq Slots(h)'
  BY <1>1 DEF Added
<1>3. CASE e.kind = EventKind[e.new]
  BY <1>1, <1>2, <1>3 DEF UpTo, SlotOf
<1>4. CASE e.kind # EventKind[e.new]
  <2>1. HasBase(p) /\ e.new = base[p].new /\ e.seq = base[p].seq + 1
    BY <1>4 DEF IsEventOf, EventKind
  <2>2. UpTo(h, EventKind[base[p].new], base[p].seq) /\ base[p].seq \in Nat
    BY <1>1, <2>1 DEF Knows, Event
  <2>3. PICK s \in Slots(h) :
          s[2] = EventKind[base[p].new] /\ s[1] <= base[p].seq
    BY <2>2 DEF UpTo
  <2>4. s[1] \in Nat
    BY <1>1, <2>3 DEF Inv, TypeOK, Slots, Files, SlotOf, Event, TornEvent
  <2>5. s[1] <= e.seq
    BY <2>1, <2>2, <2>3, <2>4
  <2> QED BY <1>2, <2>1, <2>3, <2>5 DEF UpTo
<1> QED BY <1>3, <1>4

LEMMA WriteKeepsInvariants ==
  ASSUME Inv, NEW p \in Proc, pc[p] = "write", NEW e, IsEventOf(p, e),
         NEW h \in Hash, h = job[p].hash, Added(h, SlotOf(e)), Bounded(h, e),
         UNCHANGED <<kew, consistency, revocation, tags>>
  PROVE  LogInv' /\ SidecarInv' /\ Grows
<1>1. Knows(p) /\ h \in Hash /\ job[p].cmd \in Command
  BY DEF Inv, Knows, Job
<1>2. Grows
  BY <1>1 DEF Added, Grows
<1>3. EveryEventWasEarned'
  <2> SUFFICES ASSUME NEW g \in Hash, NEW s \in Slots(g)', s[2] # "draft"
               PROVE  Earlier(g, Prerequisite[s[2]], s[1])'
    BY DEF EveryEventWasEarned
  <2>1. CASE s \in Slots(g)
    <3>1. Earlier(g, Prerequisite[s[2]], s[1])
      BY <2>1 DEF Inv, LogInv, EveryEventWasEarned
    <3> QED BY <1>2, <3>1 DEF Earlier, Grows
  <2>2. CASE s \notin Slots(g)
    <3>1. g = h /\ s = SlotOf(e)
      BY <2>2 DEF Added
    <3>2. s[1] = e.seq /\ s[2] = e.kind
      BY <3>1 DEF SlotOf
    <3> QED BY <3>1, <3>2, NewSlotIsEarned
  <2> QED BY <2>1, <2>2
<1>4. StatesHaveEvents'
  <2> SUFFICES ASSUME NEW g \in Hash, NEW d \in events'[g]
               PROVE  UpTo(g, EventKind[d.new], d.seq)'
    BY DEF StatesHaveEvents
  <2>1. CASE d \in events[g]
    <3>1. UpTo(g, EventKind[d.new], d.seq)
      BY <2>1 DEF Inv, LogInv, StatesHaveEvents
    <3> QED BY <1>2, <3>1 DEF UpTo, Grows
  <2>2. CASE d \notin events[g]
    <3>1. g = h /\ d = e
      BY <2>2 DEF Bounded
    <3> QED BY <3>1, NewStateHasEvent
  <2> QED BY <2>1, <2>2
<1>5. MlCheckedHasEvidence'
  <2> SUFFICES ASSUME NEW g \in Hash, NEW s \in Slots(g)',
                      s[2] = "ml_checked"
               PROVE  consistency[g] # None
    BY DEF MlCheckedHasEvidence
  <2>1. CASE s \in Slots(g)
    BY <2>1 DEF Inv, SidecarInv, MlCheckedHasEvidence
  <2>2. CASE s \notin Slots(g)
    <3>1. g = h /\ e.kind = "ml_checked"
      BY <2>2 DEF Added, SlotOf
    <3>2. job[p].cmd = "ml_check"
      BY <1>1, <3>1 DEF IsEventOf, Appends, Command, TagMoved
    <3> QED BY <1>1, <3>1, <3>2 DEF Knows
  <2> QED BY <2>1, <2>2
<1>6. RecordHasRevokedEvent' /\ TagsNameOncePublished'
  BY <1>2 DEF Inv, SidecarInv, RecordHasRevokedEvent, TagsNameOncePublished,
              Grows
<1> QED BY <1>2, <1>3, <1>4, <1>5, <1>6 DEF LogInv, SidecarInv

-----------------------------------------------------------------------------
(* A command that goes on.                                                 *)

LEMMA GotoKnows ==
  ASSUME Inv, Grows, NEW p \in Proc, pc[p] # "idle",
         NEW h \in Hash, h = job[p].hash,
         NEW label \in PC, Goto(p, label), label \in Path[job[p].cmd],
         label \notin {"idle", "put_kew"},
         label \in {"append", "write"} => pc[p] = "append" \/
                                          (job[p].cmd = "compile" /\ base[p] = None),
         job[p].cmd = "ml_check" /\ label \notin {"put_sidecar", "write_sidecar"}
           => consistency'[h] # None,
         label \in {"put_revocation", "write_revocation"} => Has(h, "revoked")',
         label = "point" => Has(h, "published")'
  PROVE  Knows(p)'
<1>1. Knows(p)
  BY DEF Inv
<1>2. /\ pc'[p] = label /\ job' = job /\ base' = base
  BY GotoMoves DEF Inv
<1>3. Slots(h) \subseteq Slots(h)'
  BY DEF Grows
<1>4. (job[p].cmd # "compile" => Has(h, Need[job[p].cmd]))'
  BY <1>1, <1>2, <1>3 DEF Knows, Has
<1>5. ASSUME HasBase(p)'
      PROVE  (/\ base[p] \in Event
              /\ UpTo(h, Need[job[p].cmd], base[p].seq)
              /\ UpTo(h, EventKind[base[p].new], base[p].seq))'
  <2>1. HasBase(p)
    BY <1>1, <1>2, <1>5 DEF HasBase, Knows
  <2> QED BY <1>1, <1>2, <1>3, <2>1 DEF Knows, UpTo
<1>6. (job[p].hash = h /\ pc[p] = label /\ job[p] \in Job)'
  BY <1>1, <1>2 DEF Knows
<1> QED BY <1>2, <1>4, <1>5, <1>6 DEF Knows

(* A step that changes no file and goes on, or stops.                      *)
LEMMA QuietGoto ==
  ASSUME Inv, UNCHANGED store, NEW p \in Proc, NEW label \in PC,
         Goto(p, label), Knows(p)'
  PROVE  Keeps(p)
<1>1. /\ pc' \in [Proc -> PC] /\ job' = job /\ base' = base /\ OnlyMoves(p)
  BY GotoMoves DEF Inv
<1> QED BY <1>1, QuietStep DEF Inv, TypeOK

LEMMA QuietStop ==
  ASSUME Inv, UNCHANGED store, NEW p \in Proc, Stop(p)
  PROVE  Keeps(p)
<1>1. /\ pc' \in [Proc -> PC] /\ job' \in [Proc -> Job \cup {None}]
      /\ base' \in [Proc -> Event \cup {None}] /\ OnlyMoves(p) /\ Knows(p)'
  BY StopMoves DEF Inv
<1> QED BY <1>1, QuietStep

(* The calls that only read.                                               *)
LEMMA VerifyKewKeeps ==
  ASSUME Inv, NEW p \in Proc, VerifyKew(p)
  PROVE  Keeps(p)
<1>1. UNCHANGED store /\ pc[p] = "verify" /\ (Goto(p, "head") \/ Stop(p))
  BY DEF VerifyKew, GotoIf
<1>2. Knows(p) /\ job[p].cmd = "publish" /\ job[p].hash \in Hash
  BY <1>1 DEF Inv, Knows, Path, Job, Command
<1>3. CASE Goto(p, "head")
  <2>1. Grows /\ "head" \in PC /\ "head" \in Path[job[p].cmd]
    BY <1>1, <1>2, StoreUnchanged DEF PC, Path
  <2>2. Knows(p)'
    BY <1>1, <1>2, <1>3, <2>1, GotoKnows
  <2> QED BY <1>1, <1>3, <2>1, <2>2, QuietGoto
<1> QED BY <1>1, <1>3, QuietStop

LEMMA CheckSidecarKeeps ==
  ASSUME Inv, NEW p \in Proc, CheckSidecar(p)
  PROVE  Keeps(p)
<1>1. UNCHANGED store /\ pc[p] = "put_sidecar"
      /\ (Goto(p, "write_sidecar") \/ Stop(p))
  BY DEF CheckSidecar, GotoIf
<1>2. Knows(p) /\ job[p].cmd = "ml_check" /\ job[p].hash \in Hash
  BY <1>1 DEF Inv, Knows, Path, Job, Command
<1>3. CASE Goto(p, "write_sidecar")
  <2>1. Grows /\ "write_sidecar" \in PC /\ "write_sidecar" \in Path[job[p].cmd]
    BY <1>1, <1>2, StoreUnchanged DEF PC, Path
  <2>2. Knows(p)'
    BY <1>1, <1>2, <1>3, <2>1, GotoKnows
  <2> QED BY <1>1, <1>3, <2>1, <2>2, QuietGoto
<1> QED BY <1>1, <1>3, QuietStop

LEMMA ReadSidecarKeeps ==
  ASSUME Inv, NEW p \in Proc, ReadSidecar(p)
  PROVE  Keeps(p)
<1>1. UNCHANGED store /\ pc[p] = "read_sidecar" /\ (Goto(p, "head") \/ Stop(p))
  BY DEF ReadSidecar, GotoIf
<1>2. /\ Knows(p) /\ job[p].cmd = "ml_check" /\ job[p].hash \in Hash
      /\ consistency[job[p].hash] # None
  BY <1>1 DEF Inv, Knows, Path, Job, Command
<1>3. CASE Goto(p, "head")
  <2>1. Grows /\ "head" \in PC /\ "head" \in Path[job[p].cmd]
    BY <1>1, <1>2, StoreUnchanged DEF PC, Path
  <2>2. consistency'[job[p].hash] # None
    BY <1>1, <1>2 DEF store
  <2>3. Knows(p)'
    BY <1>1, <1>2, <1>3, <2>1, <2>2, GotoKnows
  <2> QED BY <1>1, <1>3, <2>1, <2>3, QuietGoto
<1> QED BY <1>1, <1>3, QuietStop

LEMMA CheckSlotKeeps ==
  ASSUME Inv, NEW p \in Proc, CheckSlot(p)
  PROVE  Keeps(p)
<1>1. UNCHANGED store /\ pc[p] = "append" /\ (Goto(p, "write") \/ Stop(p))
  BY DEF CheckSlot, GotoIf
<1>2. /\ Knows(p) /\ job[p].cmd \in Command /\ job[p].hash \in Hash
      /\ job[p].cmd = "ml_check" => consistency[job[p].hash] # None
  BY <1>1 DEF Inv, Knows, Job
<1>3. CASE Goto(p, "write")
  <2>1. Grows /\ "write" \in PC /\ "write" \in Path[job[p].cmd]
    BY <1>1, <1>2, StoreUnchanged DEF PC, Path, Command
  <2>2. job[p].cmd = "ml_check" => consistency'[job[p].hash] # None
    BY <1>1, <1>2 DEF store
  <2>3. Knows(p)'
    BY <1>1, <1>2, <1>3, <2>1, <2>2, GotoKnows
  <2> QED BY <1>1, <1>3, <2>1, <2>3, QuietGoto
<1> QED BY <1>1, <1>3, QuietStop

LEMMA CheckRevocationKeeps ==
  ASSUME Inv, NEW p \in Proc, CheckRevocation(p)
  PROVE  Keeps(p)
<1> DEFINE h == job[p].hash
<1>1. UNCHANGED store /\ pc[p] = "put_revocation"
      /\ (Goto(p, "write_revocation") \/ Stop(p))
  BY DEF CheckRevocation, GotoIf
<1>2. /\ Knows(p) /\ job[p].cmd = "revoke" /\ h \in Hash /\ Has(h, "revoked")
  BY <1>1 DEF Inv, Knows, Path, Job, Command
<1>3. CASE Goto(p, "write_revocation")
  <2>1. /\ Grows /\ "write_revocation" \in PC
        /\ "write_revocation" \in Path[job[p].cmd]
    BY <1>1, <1>2, StoreUnchanged DEF PC, Path
  <2>2. \A g \in Hash : Has(g, "revoked") => Has(g, "revoked")'
    BY <2>1 DEF Grows, Has
  <2>3. Knows(p)'
    BY <1>1, <1>2, <1>3, <2>1, <2>2, GotoKnows
  <2> QED BY <1>1, <1>3, <2>1, <2>3, QuietGoto
<1> QED BY <1>1, <1>3, QuietStop

LEMMA ReadHeadKeeps ==
  ASSUME Inv, NEW p \in Proc, ReadHead(p)
  PROVE  Keeps(p)
<1>1. UNCHANGED store /\ pc[p] = "head"
  BY DEF ReadHead
<1>2. PICK h \in Hash : h = job[p].hash
  BY <1>1 DEF Inv, Knows, Job
<1>3. /\ Knows(p) /\ job[p] \in Job /\ job[p].cmd # "compile"
      /\ pc[p] \in Path[job[p].cmd] /\ Has(h, Need[job[p].cmd])
      /\ job[p].cmd = "ml_check" => consistency[h] # None
  BY <1>1, <1>2 DEF Inv, Knows, Path
<1>4. CASE Stop(p)
  BY <1>1, <1>4, QuietStop
<1>5. ASSUME NEW e \in events[h], Readable(h), IsHead(h, e),
             base' = [base EXCEPT ![p] = e],
             pc' = [pc EXCEPT ![p] = "append"], UNCHANGED job
      PROVE  Keeps(p)
  <2>1. e \in Event
    BY <1>2 DEF Inv, TypeOK
  <2>2. /\ pc' \in [Proc -> PC] /\ base' \in [Proc -> Event \cup {None}]
        /\ job' \in [Proc -> Job \cup {None}] /\ OnlyMoves(p)
        /\ pc'[p] = "append" /\ base'[p] = e /\ job'[p] = job[p]
    BY <1>5, <2>1 DEF Inv, TypeOK, PC, OnlyMoves
  <2>3. UpTo(h, Need[job[p].cmd], e.seq)
    <3>1. PICK s \in Slots(h) : s[2] = Need[job[p].cmd]
      BY <1>3 DEF Has
    <3>2. PICK d \in events[h] : s = SlotOf(d)
      BY <1>5, <3>1 DEF Slots, Files, Readable
    <3>3. s[1] <= e.seq
      BY <1>5, <3>2 DEF IsHead, SlotOf
    <3> QED BY <3>1, <3>3 DEF UpTo
  <2>4. UpTo(h, EventKind[e.new], e.seq)
    BY DEF Inv, LogInv, StatesHaveEvents
  <2>5. Slots(h)' = Slots(h) /\ consistency' = consistency
    BY <1>1, StoreUnchanged DEF store
  <2>6. (job[p].hash = h /\ job[p] \in Job /\ pc[p] = "append"
           /\ pc[p] \in Path[job[p].cmd] /\ Has(h, Need[job[p].cmd]))'
    BY <1>2, <1>3, <2>2, <2>5 DEF Has, Path, Job, Command
  <2>7. (/\ base[p] \in Event
         /\ UpTo(h, Need[job[p].cmd], base[p].seq)
         /\ UpTo(h, EventKind[base[p].new], base[p].seq))'
    BY <2>1, <2>2, <2>3, <2>4, <2>5 DEF UpTo
  <2>8. (job[p].cmd = "ml_check" => consistency[h] # None)'
    BY <1>3, <2>2, <2>5
  <2>9. Knows(p)'
    BY <2>6, <2>7, <2>8 DEF Knows
  <2> QED BY <1>1, <2>2, <2>9, QuietStep
<1> QED BY <1>2, <1>4, <1>5 DEF ReadHead

(* The calls that write a file other than an event.                        *)
LEMMA PutKewKeeps ==
  ASSUME Inv, NEW p \in Proc, PutKew(p)
  PROVE  Keeps(p)
<1>1. /\ pc[p] = "put_kew"
      /\ kew' = [kew EXCEPT ![job[p].hash] = job[p].types]
      /\ UNCHANGED <<events, torn, consistency, revocation, tags>>
  BY DEF PutKew
<1>2. PICK h \in Hash : h = job[p].hash
  BY <1>1 DEF Inv, Knows, Job
<1>3. /\ Knows(p) /\ job[p] \in Job /\ job[p].cmd \in {"compile", "attest"}
      /\ base[p] = None /\ job[p].types \in SUBSET AttestationType
  BY <1>1 DEF Inv, Knows, Path, Job, Command
<1>4. \A g : Slots(g)' = Slots(g)
  BY <1>1 DEF Slots, Files
<1>5. LogInv' /\ SidecarInv' /\ Grows
  BY <1>1, <1>4
  DEF Inv, LogInv, SidecarInv, Grows, EveryEventWasEarned, Earlier,
      StatesHaveEvents, UpTo, MlCheckedHasEvidence, RecordHasRevokedEvent,
      TagsNameOncePublished
<1>6. kew' \in [Hash -> (SUBSET AttestationType) \cup {None, Torn}]
  BY <1>1, <1>3 DEF Inv, TypeOK
<1>7. CASE Stop(p)
  <2>1. /\ pc' \in [Proc -> PC] /\ job' \in [Proc -> Job \cup {None}]
        /\ base' \in [Proc -> Event \cup {None}] /\ OnlyMoves(p) /\ Knows(p)'
    BY <1>7, StopMoves DEF Inv
  <2>2. TypeOK'
    BY <1>1, <1>6, <2>1 DEF Inv, TypeOK
  <2> QED BY <1>5, <2>1, <2>2 DEF Keeps
<1>8. ASSUME NEW label \in PC, Goto(p, label),
             \/ label = "append" /\ job[p].cmd = "compile"
             \/ label = "head" /\ job[p].cmd = "attest"
      PROVE  Keeps(p)
  <2>1. /\ pc' \in [Proc -> PC] /\ job' = job /\ base' = base /\ OnlyMoves(p)
    BY <1>8, GotoMoves DEF Inv
  <2>2. label \in Path[job[p].cmd]
    BY <1>8 DEF Path
  <2>3. Knows(p)'
    BY <1>1, <1>2, <1>3, <1>5, <1>8, <2>2, GotoKnows
  <2>4. TypeOK'
    BY <1>1, <1>6, <2>1 DEF Inv, TypeOK
  <2> QED BY <1>5, <2>1, <2>3, <2>4 DEF Keeps
<1>9. \/ Stop(p)
      \/ Goto(p, "append") /\ job[p].cmd = "compile"
      \/ Goto(p, "head") /\ job[p].cmd = "attest"
  BY <1>3 DEF PutKew, GotoIf
<1> QED BY <1>7, <1>8, <1>9 DEF PC

LEMMA WriteSidecarKeeps ==
  ASSUME Inv, NEW p \in Proc, WriteSidecar(p)
  PROVE  Keeps(p)
<1>1. /\ pc[p] = "write_sidecar" /\ Goto(p, "read_sidecar")
      /\ consistency' = [consistency EXCEPT ![job[p].hash] = "present"]
      /\ UNCHANGED <<kew, events, torn, revocation, tags>>
  BY DEF WriteSidecar
<1>2. PICK h \in Hash : h = job[p].hash
  BY <1>1 DEF Inv, Knows, Job
<1>3. Knows(p) /\ job[p].cmd = "ml_check"
  BY <1>1 DEF Inv, Knows, Path, Job, Command
<1>4. \A g : Slots(g)' = Slots(g)
  BY <1>1 DEF Slots, Files
<1>5. /\ consistency' \in [Hash -> {"present", None, Torn}]
      /\ \A g \in Hash : consistency[g] # None => consistency'[g] # None
      /\ consistency'[h] # None
  BY <1>1, <1>2, RegistryAssumption DEF Inv, TypeOK
<1>6. LogInv' /\ SidecarInv' /\ Grows
  BY <1>1, <1>4, <1>5
  DEF Inv, LogInv, SidecarInv, Grows, EveryEventWasEarned, Earlier,
      StatesHaveEvents, UpTo, MlCheckedHasEvidence, RecordHasRevokedEvent,
      TagsNameOncePublished
<1>7. "read_sidecar" \in PC /\ "read_sidecar" \in Path[job[p].cmd]
  BY <1>3 DEF PC, Path
<1>8. pc' \in [Proc -> PC] /\ job' = job /\ base' = base /\ OnlyMoves(p)
  BY <1>1, <1>7, GotoMoves DEF Inv
<1>9. Knows(p)'
  BY <1>1, <1>2, <1>3, <1>5, <1>6, <1>7, GotoKnows
<1>10. TypeOK'
  BY <1>1, <1>5, <1>8 DEF Inv, TypeOK
<1> QED BY <1>6, <1>8, <1>9, <1>10 DEF Keeps

LEMMA PutPointerKeeps ==
  ASSUME Inv, NEW p \in Proc, NEW target \in {job[p].hash, Torn},
         pc[p] = "point", tags' = [tags EXCEPT ![job[p].tag] = target],
         Stop(p), UNCHANGED <<kew, events, torn, consistency, revocation>>
  PROVE  Keeps(p)
<1>1. PICK h \in Hash : h = job[p].hash
  BY DEF Inv, Knows, Job
<1>2. Has(h, "published")
  BY <1>1 DEF Inv, Knows
<1>3. \A g : Slots(g)' = Slots(g)
  BY DEF Slots, Files
<1>4. tags' \in [Tag -> Hash \cup {None, Torn}]
  BY <1>1 DEF Inv, TypeOK
<1>5. TagsNameOncePublished'
  <2> SUFFICES ASSUME NEW t \in Tag, tags'[t] \in Hash
               PROVE  \E s \in Slots(tags[t])' : s[2] = "published"
    BY DEF TagsNameOncePublished
  <2>1. CASE tags'[t] = tags[t]
    <3>1. \E s \in Slots(tags[t]) : s[2] = "published"
      BY <2>1 DEF Inv, SidecarInv, TagsNameOncePublished
    <3>2. Slots(tags[t])' = Slots(tags[t])
      BY <2>1 DEF Slots, Files
    <3> QED BY <3>1, <3>2
  <2>2. CASE tags'[t] # tags[t]
    <3>1. tags'[t] = h
      BY <1>1, <2>2, RegistryAssumption DEF Inv, TypeOK
    <3>2. Slots(tags[t])' = Slots(h)
      BY <3>1 DEF Slots, Files
    <3> QED BY <1>2, <3>2 DEF Has
  <2> QED BY <2>1, <2>2
<1>6. LogInv' /\ MlCheckedHasEvidence' /\ RecordHasRevokedEvent' /\ Grows
  BY <1>3
  DEF Inv, LogInv, SidecarInv, Grows, EveryEventWasEarned, Earlier,
      StatesHaveEvents, UpTo, MlCheckedHasEvidence, RecordHasRevokedEvent
<1>7. /\ pc' \in [Proc -> PC] /\ job' \in [Proc -> Job \cup {None}]
      /\ base' \in [Proc -> Event \cup {None}] /\ OnlyMoves(p) /\ Knows(p)'
  BY StopMoves DEF Inv
<1>8. TypeOK'
  BY <1>4, <1>7 DEF Inv, TypeOK
<1> QED BY <1>5, <1>6, <1>7, <1>8 DEF Keeps, SidecarInv

LEMMA WriteRevocationKeeps ==
  ASSUME Inv, NEW p \in Proc, NEW record \in {job[p].record, Torn},
         pc[p] = "write_revocation",
         revocation' = [revocation EXCEPT ![job[p].hash] = record],
         Stop(p), UNCHANGED <<kew, events, torn, consistency, tags>>
  PROVE  Keeps(p)
<1>1. PICK h \in Hash : h = job[p].hash
  BY DEF Inv, Knows, Job
<1>2. Has(h, "revoked") /\ job[p] \in Job
  BY <1>1 DEF Inv, Knows
<1>3. \A g : Slots(g)' = Slots(g)
  BY DEF Slots, Files
<1>4. revocation' \in [Hash -> Record \cup {None, Torn}]
  BY <1>1, <1>2 DEF Inv, TypeOK, Job
<1>5. RecordHasRevokedEvent'
  BY <1>1, <1>2, <1>3
  DEF Inv, TypeOK, SidecarInv, RecordHasRevokedEvent, Has
<1>6. LogInv' /\ MlCheckedHasEvidence' /\ TagsNameOncePublished' /\ Grows
  BY <1>3
  DEF Inv, LogInv, SidecarInv, Grows, EveryEventWasEarned, Earlier,
      StatesHaveEvents, UpTo, MlCheckedHasEvidence, TagsNameOncePublished
<1>7. /\ pc' \in [Proc -> PC] /\ job' \in [Proc -> Job \cup {None}]
      /\ base' \in [Proc -> Event \cup {None}] /\ OnlyMoves(p) /\ Knows(p)'
  BY StopMoves DEF Inv
<1>8. TypeOK'
  BY <1>4, <1>7 DEF Inv, TypeOK
<1> QED BY <1>5, <1>6, <1>7, <1>8 DEF Keeps, SidecarInv

(* The calls that write an event, to its end or not.                       *)
LEMMA StoreType ==
  ASSUME TypeOK, NEW h \in Hash, NEW e \in Event,
         StoreEvent(h, e) \/ TearEvent(h, e)
  PROVE  events' \in [Hash -> SUBSET Event] /\ torn' \in [Hash -> SUBSET TornEvent]
<1>1. /\ Vacated(events[h], SlotOf(e)) \cup {e} \in SUBSET Event
      /\ Vacated(events[h], SlotOf(e)) \in SUBSET Event
      /\ Vacated(torn[h], SlotOf(e)) \in SUBSET TornEvent
  BY DEF TypeOK, Vacated
<1>2. [ seq |-> e.seq, kind |-> e.kind, version |-> e.version ] \in TornEvent
  BY DEF Event, TornEvent
<1> QED BY <1>1, <1>2 DEF TypeOK, StoreEvent, TearEvent

LEMMA WriteEventKeeps ==
  ASSUME Inv, NEW p \in Proc, WriteEvent(p)
  PROVE  Keeps(p)
<1>1. pc[p] = "write" /\ UNCHANGED <<kew, consistency, revocation, tags>>
  BY DEF WriteEvent
<1>2. PICK h \in Hash : h = job[p].hash
  BY <1>1 DEF Inv, Knows, Job
<1>3. Knows(p) /\ job[p] \in Job /\ job[p].cmd \in Command
  BY <1>1 DEF Inv, Knows, Job
<1>4. PICK e \in Written(job[p].hash, NewEvent(p)) :
        /\ StoreEvent(job[p].hash, e)
        /\ \/ /\ job[p].cmd = "compile" /\ base[p] = None
              /\ base' = [base EXCEPT ![p] = e]
              /\ pc' = [pc EXCEPT ![p] = "append"] /\ UNCHANGED job
           \/ job[p].cmd \in {"publish", "rollback"} /\ Goto(p, "point")
           \/ job[p].cmd = "revoke" /\ Goto(p, "put_revocation")
           \/ Stop(p)
  BY <1>3, Zenon DEF WriteEvent
<1>5. IsEventOf(p, e) /\ e \in Event
  BY <1>1, <1>3, WrittenIsEventOf DEF Inv, IsEventOf
<1>6. Added(h, SlotOf(e)) /\ Bounded(h, e)
  BY <1>2, <1>4, <1>5, StoreAdds DEF Inv
<1>7. LogInv' /\ SidecarInv' /\ Grows
  BY <1>1, <1>2, <1>5, <1>6, WriteKeepsInvariants
<1>8. events' \in [Hash -> SUBSET Event] /\ torn' \in [Hash -> SUBSET TornEvent]
  BY <1>2, <1>4, <1>5, StoreType DEF Inv
<1>9. SlotOf(e) \in Slots(h)'
  BY <1>6 DEF Added
<1>10. ASSUME /\ pc' \in [Proc -> PC] /\ job' \in [Proc -> Job \cup {None}]
              /\ base' \in [Proc -> Event \cup {None}]
              /\ OnlyMoves(p) /\ Knows(p)'
       PROVE  Keeps(p)
  <2>1. TypeOK'
    BY <1>1, <1>8, <1>10 DEF Inv, TypeOK
  <2> QED BY <1>7, <1>10, <2>1 DEF Keeps
<1>11. CASE Stop(p)
  BY <1>10, <1>11, StopMoves DEF Inv
<1>12. CASE /\ job[p].cmd = "compile" /\ base[p] = None
            /\ base' = [base EXCEPT ![p] = e]
            /\ pc' = [pc EXCEPT ![p] = "append"] /\ UNCHANGED job
  <2>1. /\ pc' \in [Proc -> PC] /\ base' \in [Proc -> Event \cup {None}]
        /\ job' \in [Proc -> Job \cup {None}] /\ OnlyMoves(p)
        /\ pc'[p] = "append" /\ base'[p] = e /\ job'[p] = job[p]
    BY <1>5, <1>12 DEF Inv, TypeOK, PC, OnlyMoves
  <2>2. e.seq \in Nat /\ e.kind = "draft" /\ EventKind[e.new] = "draft"
    BY <1>5, <1>12 DEF IsEventOf, HasBase, Event, EventKind
  <2>3. (job[p].hash = h /\ job[p] \in Job /\ pc[p] = "append"
           /\ job[p].cmd = "compile" /\ pc[p] \in Path[job[p].cmd])'
    BY <1>2, <1>3, <1>12, <2>1 DEF Path
  <2>4. UpTo(h, "draft", base[p].seq)'
    BY <1>9, <2>1, <2>2 DEF UpTo, SlotOf
  <2>5. (/\ base[p] \in Event
         /\ UpTo(h, Need[job[p].cmd], base[p].seq)
         /\ UpTo(h, EventKind[base[p].new], base[p].seq))'
    BY <1>5, <2>1, <2>2, <2>3, <2>4 DEF Need
  <2>6. Knows(p)'
    BY <2>3, <2>5 DEF Knows
  <2> QED BY <1>10, <2>1, <2>6
<1>13. CASE job[p].cmd \in {"publish", "rollback"} /\ Goto(p, "point")
  <2>1. Has(h, "published")'
    <3>1. CASE job[p].cmd = "publish"
      <4>1. e.kind = "published"
        BY <1>1, <1>5, <3>1 DEF IsEventOf, HasBase, Appends
      <4> QED BY <1>9, <4>1 DEF Has, SlotOf
    <3>2. CASE job[p].cmd = "rollback"
      <4>1. Has(h, "published")
        BY <1>1, <1>2, <1>3, <3>2 DEF Knows, Need
      <4> QED BY <1>7, <4>1 DEF Has, Grows
    <3> QED BY <1>13, <3>1, <3>2
  <2>2. "point" \in PC /\ "point" \in Path[job[p].cmd]
    BY <1>13 DEF PC, Path
  <2>3. Knows(p)'
    BY <1>1, <1>2, <1>7, <1>13, <2>1, <2>2, GotoKnows
  <2>4. /\ pc' \in [Proc -> PC] /\ job' = job /\ base' = base /\ OnlyMoves(p)
    BY <1>13, <2>2, GotoMoves DEF Inv
  <2> QED BY <1>10, <2>3, <2>4 DEF Inv, TypeOK
<1>14. CASE job[p].cmd = "revoke" /\ Goto(p, "put_revocation")
  <2>1. e.kind = "revoked"
    BY <1>1, <1>5, <1>14 DEF IsEventOf, HasBase, Appends
  <2>2. Has(h, "revoked")'
    BY <1>9, <2>1 DEF Has, SlotOf
  <2>3. "put_revocation" \in PC /\ "put_revocation" \in Path[job[p].cmd]
    BY <1>14 DEF PC, Path
  <2>4. Knows(p)'
    BY <1>1, <1>2, <1>7, <1>14, <2>2, <2>3, GotoKnows
  <2>5. /\ pc' \in [Proc -> PC] /\ job' = job /\ base' = base /\ OnlyMoves(p)
    BY <1>14, <2>3, GotoMoves DEF Inv
  <2> QED BY <1>10, <2>4, <2>5 DEF Inv, TypeOK
<1> QED BY <1>4, <1>11, <1>12, <1>13, <1>14

(* A command that is stopped.                                              *)
LEMMA TornKewKeeps ==
  ASSUME Inv, NEW p \in Proc, NEW h \in Hash,
         kew' = [kew EXCEPT ![h] = Torn], Stop(p),
         UNCHANGED <<events, torn, consistency, revocation, tags>>
  PROVE  Keeps(p)
<1>1. \A g : Slots(g)' = Slots(g)
  BY DEF Slots, Files
<1>2. LogInv' /\ SidecarInv' /\ Grows
  BY <1>1
  DEF Inv, LogInv, SidecarInv, Grows, EveryEventWasEarned, Earlier,
      StatesHaveEvents, UpTo, MlCheckedHasEvidence, RecordHasRevokedEvent,
      TagsNameOncePublished
<1>3. /\ pc' \in [Proc -> PC] /\ job' \in [Proc -> Job \cup {None}]
      /\ base' \in [Proc -> Event \cup {None}] /\ OnlyMoves(p) /\ Knows(p)'
  BY StopMoves DEF Inv
<1>4. TypeOK'
  BY <1>3 DEF Inv, TypeOK
<1> QED BY <1>2, <1>3, <1>4 DEF Keeps

LEMMA TornSidecarKeeps ==
  ASSUME Inv, NEW p \in Proc, NEW h \in Hash,
         consistency' = [consistency EXCEPT ![h] = Torn], Stop(p),
         UNCHANGED <<kew, events, torn, revocation, tags>>
  PROVE  Keeps(p)
<1>1. \A g : Slots(g)' = Slots(g)
  BY DEF Slots, Files
<1>2. /\ consistency' \in [Hash -> {"present", None, Torn}]
      /\ \A g \in Hash : consistency[g] # None => consistency'[g] # None
  BY RegistryAssumption DEF Inv, TypeOK
<1>3. LogInv' /\ SidecarInv' /\ Grows
  BY <1>1, <1>2
  DEF Inv, LogInv, SidecarInv, Grows, EveryEventWasEarned, Earlier,
      StatesHaveEvents, UpTo, MlCheckedHasEvidence, RecordHasRevokedEvent,
      TagsNameOncePublished
<1>4. /\ pc' \in [Proc -> PC] /\ job' \in [Proc -> Job \cup {None}]
      /\ base' \in [Proc -> Event \cup {None}] /\ OnlyMoves(p) /\ Knows(p)'
  BY StopMoves DEF Inv
<1>5. TypeOK'
  BY <1>2, <1>4 DEF Inv, TypeOK
<1> QED BY <1>3, <1>4, <1>5 DEF Keeps

LEMMA TornEventKeeps ==
  ASSUME Inv, NEW p \in Proc, pc[p] = "write", NEW h \in Hash, h = job[p].hash,
         TearEvent(h, NewEvent(p)), Stop(p),
         UNCHANGED <<kew, consistency, revocation, tags>>
  PROVE  Keeps(p)
<1> DEFINE e == NewEvent(p)
<1>1. IsEventOf(p, e) /\ e \in Event
  BY NewEventIsEventOf DEF Inv, IsEventOf
<1>2. Added(h, SlotOf(e)) /\ Bounded(h, e)
  BY <1>1, TearAdds DEF Inv, Bounded
<1>3. LogInv' /\ SidecarInv' /\ Grows
  BY <1>1, <1>2, WriteKeepsInvariants
<1>4. events' \in [Hash -> SUBSET Event] /\ torn' \in [Hash -> SUBSET TornEvent]
  BY <1>1, StoreType DEF Inv
<1>5. /\ pc' \in [Proc -> PC] /\ job' \in [Proc -> Job \cup {None}]
      /\ base' \in [Proc -> Event \cup {None}] /\ OnlyMoves(p) /\ Knows(p)'
  BY StopMoves DEF Inv
<1>6. TypeOK'
  BY <1>4, <1>5 DEF Inv, TypeOK
<1> QED BY <1>3, <1>5, <1>6 DEF Keeps

LEMMA CrashInWriteKeeps ==
  ASSUME Inv, NEW p \in Proc, CrashInWrite(p)
  PROVE  Keeps(p)
<1>1. Stop(p) /\ pc[p] # "idle"
  BY DEF CrashInWrite
<1>2. job[p].hash \in Hash
  BY <1>1 DEF Inv, Knows, Job
<1>3. CASE /\ kew' = [kew EXCEPT ![job[p].hash] = Torn]
           /\ UNCHANGED <<events, torn, consistency, revocation, tags>>
  BY <1>1, <1>2, <1>3, TornKewKeeps
<1>4. CASE /\ consistency' = [consistency EXCEPT ![job[p].hash] = Torn]
           /\ UNCHANGED <<kew, events, torn, revocation, tags>>
  BY <1>1, <1>2, <1>4, TornSidecarKeeps
<1>5. CASE /\ pc[p] = "write" /\ TearEvent(job[p].hash, NewEvent(p))
           /\ UNCHANGED <<kew, consistency, revocation, tags>>
  BY <1>1, <1>2, <1>5, TornEventKeeps
<1>6. CASE /\ pc[p] = "point" /\ tags' = [tags EXCEPT ![job[p].tag] = Torn]
           /\ UNCHANGED <<kew, events, torn, consistency, revocation>>
  BY <1>1, <1>6, PutPointerKeeps
<1>7. CASE /\ pc[p] = "write_revocation"
           /\ revocation' = [revocation EXCEPT ![job[p].hash] = Torn]
           /\ UNCHANGED <<kew, events, torn, consistency, tags>>
  BY <1>1, <1>7, WriteRevocationKeeps
<1> QED BY <1>3, <1>4, <1>5, <1>6, <1>7 DEF CrashInWrite

-----------------------------------------------------------------------------
(* A command that starts knows what its check of the state has shown.      *)

LEMMA StateHasEvent ==
  ASSUME Inv, NEW h \in Hash, NEW state, StateIs(h, state)
  PROVE  Has(h, EventKind[state])
BY DEF StateIs, Inv, LogInv, StatesHaveEvents, UpTo, Has

LEMMA StartKeeps ==
  ASSUME Inv, NEW p \in Proc, NEW cmd \in Command, NEW h \in Hash,
         NEW tag \in Tag \cup {None}, NEW types \in SUBSET AttestationType,
         NEW record \in Record \cup {None}, NEW label \in PC,
         Start(p, cmd, h, tag, types, record, label),
         label \in Path[cmd] \cap {"put_kew", "verify", "put_sidecar", "head"},
         cmd # "compile" => Has(h, Need[cmd]),
         cmd = "ml_check" => label = "put_sidecar"
  PROVE  Keeps(p)
<1>1. pc[p] = "idle"
  BY DEF Start, MayStart
<1>2. base[p] = None
  BY <1>1 DEF Inv, Knows
<1>3. /\ UNCHANGED store
      /\ pc' \in [Proc -> PC] /\ job' \in [Proc -> Job \cup {None}]
      /\ base' = base /\ OnlyMoves(p) /\ pc'[p] = label
      /\ job'[p] \in Job /\ job'[p].cmd = cmd /\ job'[p].hash = h
  BY StartMoves DEF Inv
<1>4. Slots(h)' = Slots(h)
  BY <1>3, StoreUnchanged
<1>5. (job[p] \in Job /\ job[p].cmd = cmd /\ job[p].hash = h /\ pc[p] = label
         /\ base[p] = None /\ (cmd # "compile" => Has(h, Need[cmd])))'
  BY <1>2, <1>3, <1>4 DEF Has
<1>6. Knows(p)'
  BY <1>5 DEF Knows, HasBase
<1> QED BY <1>3, <1>6, QuietStep DEF Inv, TypeOK

LEMMA RevokedWasPublished ==
  ASSUME Inv, NEW h \in Hash, Has(h, "deprecated")
  PROVE  Has(h, "published")
BY DEF Inv, LogInv, EveryEventWasEarned, Earlier, Prerequisite, Has

(* The policy `ke revoke` records is one of the three, and at least as     *)
(* strict as the floor of the reason it was given (revocation.rs,          *)
(* `recorded_policy`): AuditOnly is never recorded for a compromised key.  *)
LEMMA DecisionMeetsFloor ==
  ASSUME NEW class \in ReasonClass, NEW configured \in SUBSET RevocationPolicy
  PROVE  /\ RevocationDecision(class, configured) \in RevocationPolicy
         /\ StrictnessRank[RevocationDecision(class, configured)]
              >= StrictnessRank[RevocationFloor[class]]
<1> DEFINE floor == RevocationFloor[class]
           raised == { c \in configured :
                         StrictnessRank[c] > StrictnessRank[floor] }
<1>1. floor \in RevocationPolicy
  BY DEF RevocationFloor, ReasonClass, RevocationPolicy
<1>2. \A c \in RevocationPolicy : StrictnessRank[c] \in Nat
  BY DEF StrictnessRank, RevocationPolicy
<1>3. CASE raised = {}
  <2>1. RevocationDecision(class, configured) = floor
    BY <1>3 DEF RevocationDecision
  <2> QED BY <1>1, <1>2, <2>1
<1>4. CASE raised # {}
  <2>1. RevocationDecision(class, configured) \in raised
    BY <1>4 DEF RevocationDecision
  <2> QED BY <1>1, <1>2, <2>1
<1> QED BY <1>3, <1>4

LEMMA RecordedPolicyType ==
  ASSUME NEW configured \in SUBSET RevocationPolicy,
         NEW reason \in SUBSET ReasonClass,
         RevokeInputsAccepted(configured, reason)
  PROVE  RecordedPolicy(configured, reason) \in RevocationPolicy
<1>1. CASE reason = {}
  <2>1. configured # {}
    BY <1>1 DEF RevokeInputsAccepted
  <2> QED BY <1>1, <2>1 DEF RecordedPolicy
<1>2. CASE reason # {}
  <2> DEFINE given == CHOOSE class \in reason : TRUE
  <2>1. given \in ReasonClass
    BY <1>2
  <2>2. RevocationDecision(given, configured) \in RevocationPolicy
    BY <2>1, DecisionMeetsFloor
  <2> QED BY <1>2, <2>2 DEF RecordedPolicy
<1> QED BY <1>1, <1>2

LEMMA BeginKeeps ==
  ASSUME Inv, NEW p \in Proc, Begin(p)
  PROVE  Keeps(p)
<1>1. CASE StartCompile(p)
  <2>1. PICK h \in Hash : Start(p, "compile", h, None, {}, None, "put_kew")
    BY <1>1 DEF StartCompile
  <2>2. "put_kew" \in PC /\ "put_kew" \in Path["compile"] /\ "compile" \in Command
    BY DEF PC, Path, Command
  <2> QED BY <2>1, <2>2, StartKeeps
<1>2. CASE StartMlCheck(p)
  <2>1. PICK h \in Hash :
          /\ StateIs(h, "StructurallyVerified")
          /\ Start(p, "ml_check", h, None, {}, None, "put_sidecar")
    BY <1>2 DEF StartMlCheck, CurrentStateIs
  <2>2. Has(h, Need["ml_check"])
    BY <2>1, StateHasEvent DEF EventKind, Need
  <2>3. /\ "put_sidecar" \in PC /\ "put_sidecar" \in Path["ml_check"]
        /\ "ml_check" \in Command
    BY DEF PC, Path, Command
  <2> QED BY <2>1, <2>2, <2>3, StartKeeps
<1>3. CASE StartAttest(p)
  <2>1. PICK h \in Hash, types \in AttestSets :
          /\ StateIs(h, "MlChecked")
          /\ Start(p, "attest", h, None, types, None, "put_kew")
    BY <1>3 DEF StartAttest, CurrentStateIs
  <2>2. Has(h, Need["attest"])
    BY <2>1, StateHasEvent DEF EventKind, Need
  <2>3. /\ "put_kew" \in PC /\ "put_kew" \in Path["attest"]
        /\ "attest" \in Command /\ types \in SUBSET AttestationType
    BY RegistryAssumption DEF PC, Path, Command
  <2> QED BY <2>1, <2>2, <2>3, StartKeeps
<1>4. CASE StartPublish(p)
  <2>1. PICK h \in Hash, tag \in Tag :
          \E required \in {PolicyForKind(KindOf[h])} \cup Bundles :
            /\ StateIs(h, "ExpertAttested")
            /\ Start(p, "publish", h, tag, required, None, "verify")
    BY <1>4 DEF StartPublish, CurrentStateIs
  <2> PICK required \in {PolicyForKind(KindOf[h])} \cup Bundles :
            /\ StateIs(h, "ExpertAttested")
            /\ Start(p, "publish", h, tag, required, None, "verify")
    BY <2>1
  <2>2. Has(h, Need["publish"])
    BY <2>1, StateHasEvent DEF EventKind, Need
  <2>3. required \in SUBSET AttestationType
    BY <2>1, RegistryAssumption DEF PolicyForKind, AttestationType
  <2>4. "verify" \in PC /\ "verify" \in Path["publish"] /\ "publish" \in Command
    BY DEF PC, Path, Command
  <2> QED BY <2>1, <2>2, <2>3, <2>4, StartKeeps
<1>5. CASE StartDeprecate(p)
  <2>1. PICK h \in Hash :
          /\ StateIs(h, "Published")
          /\ Start(p, "deprecate", h, None, {}, None, "head")
    BY <1>5 DEF StartDeprecate, CurrentStateIs
  <2>2. Has(h, Need["deprecate"])
    BY <2>1, StateHasEvent DEF EventKind, Need
  <2>3. /\ "head" \in PC /\ "head" \in Path["deprecate"]
        /\ "deprecate" \in Command
    BY DEF PC, Path, Command
  <2> QED BY <2>1, <2>2, <2>3, StartKeeps
<1>6. CASE StartRevoke(p)
  <2>1. PICK h \in Hash, args \in RevokeArgs, from \in LifecycleState :
          /\ RevokeInputsAccepted(args[1], args[2])
          /\ StateIs(h, from) /\ from \in {"Published", "Deprecated"}
          /\ Start(p, "revoke", h, None, {},
                   [ policy |-> RecordedPolicy(args[1], args[2]),
                     class |-> args[2] ], "head")
    BY <1>6 DEF StartRevoke, CurrentStateIs
  <2>2. Has(h, Need["revoke"])
    <3>1. CASE from = "Published"
      BY <2>1, <3>1, StateHasEvent DEF EventKind, Need
    <3>2. CASE from = "Deprecated"
      <4>1. Has(h, "deprecated")
        BY <2>1, <3>2, StateHasEvent DEF EventKind
      <4> QED BY <4>1, RevokedWasPublished DEF Need
    <3> QED BY <2>1, <3>1, <3>2
  <2>3. [ policy |-> RecordedPolicy(args[1], args[2]), class |-> args[2] ]
          \in Record
    BY <2>1, RecordedPolicyType, RegistryAssumption DEF Record
  <2>4. "head" \in PC /\ "head" \in Path["revoke"] /\ "revoke" \in Command
    BY DEF PC, Path, Command
  <2> QED BY <2>1, <2>2, <2>3, <2>4, StartKeeps
<1>7. CASE StartRollback(p)
  <2>1. PICK h \in Hash, tag \in Tag :
          /\ StateIs(h, "Published")
          /\ Start(p, "rollback", h, tag, {}, None, "head")
    BY <1>7 DEF StartRollback, CurrentStateIs, IsRollbackEligible
  <2>2. Has(h, Need["rollback"])
    BY <2>1, StateHasEvent DEF EventKind, Need
  <2>3. "head" \in PC /\ "head" \in Path["rollback"] /\ "rollback" \in Command
    BY DEF PC, Path, Command
  <2> QED BY <2>1, <2>2, <2>3, StartKeeps
<1> QED BY <1>1, <1>2, <1>3, <1>4, <1>5, <1>6, <1>7 DEF Begin

-----------------------------------------------------------------------------
(* The invariant is inductive.                                             *)

LEMMA StepKeeps ==
  ASSUME Inv, NEW p \in Proc, Step(p)
  PROVE  Keeps(p)
<1>1. CASE PutPointer(p)
  BY <1>1, PutPointerKeeps DEF PutPointer
<1>2. CASE WriteRevocation(p)
  BY <1>2, WriteRevocationKeeps DEF WriteRevocation
<1> QED
  BY <1>1, <1>2, PutKewKeeps, VerifyKewKeeps, CheckSidecarKeeps,
     WriteSidecarKeeps, ReadSidecarKeeps, ReadHeadKeeps, CheckSlotKeeps,
     WriteEventKeeps, CheckRevocationKeeps
  DEF Step

LEMMA NextKeeps ==
  ASSUME Inv, NEW p \in Proc, Begin(p) \/ Step(p) \/ Crash(p) \/ CrashInWrite(p)
  PROVE  Keeps(p)
<1>1. CASE Crash(p)
  BY <1>1, QuietStop DEF Crash
<1> QED BY <1>1, BeginKeeps, StepKeeps, CrashInWriteKeeps

LEMMA InitInv == Init => Inv
<1> SUFFICES ASSUME Init PROVE Inv
  OBVIOUS
<1>1. \A h \in Hash : Slots(h) = {} /\ events[h] = {}
  BY DEF Init, Slots, Files
<1>2. TypeOK
  BY DEF Init, TypeOK, PC
<1>3. LogInv /\ SidecarInv
  BY <1>1, RegistryAssumption
  DEF Init, LogInv, SidecarInv, EveryEventWasEarned, StatesHaveEvents,
      MlCheckedHasEvidence, RecordHasRevokedEvent, TagsNameOncePublished
<1>4. \A p \in Proc : Knows(p)
  BY DEF Init, Knows
<1> QED BY <1>2, <1>3, <1>4 DEF Inv

LEMMA StutterKeeps ==
  ASSUME Inv, UNCHANGED vars
  PROVE  Inv' /\ Grows
<1>1. LogInv' /\ SidecarInv' /\ Grows
  BY StoreUnchanged DEF vars, store
<1>2. TypeOK'
  BY DEF Inv, TypeOK, vars
<1>3. ASSUME NEW p \in Proc PROVE Knows(p)'
  BY <1>1, KnowledgeStays DEF Inv, vars
<1> QED BY <1>1, <1>2, <1>3 DEF Inv

LEMMA InvIsInductive == Inv /\ [Next]_vars => Inv' /\ Grows
<1> SUFFICES ASSUME Inv, [Next]_vars PROVE Inv' /\ Grows
  OBVIOUS
<1>1. CASE Next
  <2>1. PICK p \in Proc :
          Begin(p) \/ Step(p) \/ Crash(p) \/ CrashInWrite(p)
    BY <1>1 DEF Next
  <2>2. Keeps(p)
    BY <2>1, NextKeeps
  <2>3. ASSUME NEW q \in Proc PROVE Knows(q)'
    <3>1. CASE q = p
      BY <2>2, <3>1 DEF Keeps
    <3>2. CASE q # p
      BY <2>2, <3>2, KnowledgeStays DEF Keeps, OnlyMoves, Inv
    <3> QED BY <3>1, <3>2
  <2> QED BY <2>2, <2>3 DEF Keeps, Inv
<1>2. CASE UNCHANGED vars
  BY <1>2, StutterKeeps
<1> QED BY <1>1, <1>2

-----------------------------------------------------------------------------
(* An interrupted `ke ml_check`: who could still append its event.         *)

(* Only a process that is at its write adds a name, the one of its event.  *)
AddsNames(p) ==
  \/ \A h \in Hash : Slots(h)' = Slots(h)
  \/ /\ pc[p] = "write"
     /\ \E e \in Event : IsEventOf(p, e) /\ Added(job[p].hash, SlotOf(e))

LEMMA OnlyWritersAddNames ==
  ASSUME Inv, NEW p \in Proc, Begin(p) \/ Step(p) \/ Crash(p) \/ CrashInWrite(p)
  PROVE  AddsNames(p)
<1>1. UNCHANGED <<events, torn>> => AddsNames(p)
  BY DEF AddsNames, Slots, Files
<1>2. pc[p] = "write" =>
        /\ job[p].hash \in Hash
        /\ IsEventOf(p, NewEvent(p))
        /\ \A e \in Written(job[p].hash, NewEvent(p)) : IsEventOf(p, e)
  BY NewEventIsEventOf, WrittenIsEventOf DEF Inv
<1>3. CASE WriteEvent(p)
  <2>1. PICK e \in Written(job[p].hash, NewEvent(p)) :
          StoreEvent(job[p].hash, e)
    BY <1>3 DEF WriteEvent
  <2>2. pc[p] = "write" /\ IsEventOf(p, e) /\ e \in Event
    BY <1>2, <1>3 DEF WriteEvent, IsEventOf
  <2>3. Added(job[p].hash, SlotOf(e))
    BY <1>2, <2>1, <2>2, StoreAdds DEF Inv
  <2> QED BY <2>2, <2>3 DEF AddsNames
<1>4. CASE CrashInWrite(p)
  <2>1. CASE pc[p] = "write" /\ TearEvent(job[p].hash, NewEvent(p))
    <3>1. NewEvent(p) \in Event
      BY <1>2, <2>1 DEF IsEventOf
    <3>2. Added(job[p].hash, SlotOf(NewEvent(p)))
      BY <1>2, <2>1, <3>1, TearAdds DEF Inv
    <3> QED BY <1>2, <2>1, <3>1, <3>2 DEF AddsNames
  <2>2. CASE UNCHANGED <<events, torn>>
    BY <1>1, <2>2
  <2> QED BY <1>4, <2>1, <2>2 DEF CrashInWrite
<1>5. CASE Begin(p)
  BY <1>1, <1>5
  DEF Begin, Start, store, StartCompile, StartMlCheck, StartAttest,
      StartPublish, StartDeprecate, StartRevoke, StartRollback
<1>6. CASE Step(p) /\ ~ WriteEvent(p)
  BY <1>1, <1>6
  DEF Step, store, PutKew, VerifyKew, CheckSidecar, WriteSidecar, ReadSidecar,
      ReadHead, CheckSlot, PutPointer, CheckRevocation, WriteRevocation
<1>7. CASE Crash(p)
  BY <1>1, <1>7 DEF Crash, store
<1> QED BY <1>3, <1>4, <1>5, <1>6, <1>7

(* A step of a command ends it or keeps it at its job; it leaves the check *)
(* of the consistency sidecar behind only when there is none.              *)
LEMMA StepControl ==
  ASSUME TypeOK, NEW p \in Proc, Step(p)
  PROVE  /\ pc[p] # "idle"
         /\ \/ pc'[p] = "idle"
            \/ /\ job'[p] = job[p]
               /\ pc[p] = "put_sidecar" => consistency[job[p].hash] = None
<1> USE DEF TypeOK, GotoIf, Goto, Stop
<1>1. CASE PutKew(p) \/ VerifyKew(p)
  BY <1>1 DEF PutKew, VerifyKew
<1>2. CASE CheckSidecar(p)
  BY <1>2 DEF CheckSidecar
<1>3. CASE WriteSidecar(p) \/ ReadSidecar(p)
  BY <1>3 DEF WriteSidecar, ReadSidecar
<1>4. CASE ReadHead(p)
  BY <1>4 DEF ReadHead
<1>5. CASE CheckSlot(p)
  BY <1>5 DEF CheckSlot
<1>6. CASE WriteEvent(p)
  BY <1>6 DEF WriteEvent
<1>7. CASE PutPointer(p) \/ CheckRevocation(p) \/ WriteRevocation(p)
  BY <1>7 DEF PutPointer, CheckRevocation, WriteRevocation
<1> QED BY <1>1, <1>2, <1>3, <1>4, <1>5, <1>6, <1>7 DEF Step

LEMMA InterruptedMlCheckStays ==
  ASSUME Inv, NEW p \in Proc, Begin(p) \/ Step(p) \/ Crash(p) \/ CrashInWrite(p),
         NEW h \in Hash, InterruptedMlCheck(h)
  PROVE  InterruptedMlCheck(h)'
<1>1. Grows /\ OnlyMoves(p)
  BY NextKeeps DEF Keeps
<1>2. consistency'[h] # None
  BY <1>1 DEF Grows, InterruptedMlCheck
<1>3. ~ \E s \in Slots(h)' : s[2] = "ml_checked"
  <2>1. CASE Slots(h)' = Slots(h)
    BY <2>1 DEF InterruptedMlCheck
  <2>2. CASE pc[p] = "write" /\ Slots(h)' # Slots(h)
    <3>1. PICK e \in Event : IsEventOf(p, e) /\ Added(job[p].hash, SlotOf(e))
      BY <2>2, OnlyWritersAddNames DEF AddsNames
    <3>2. job[p].hash = h /\ Slots(h)' = Slots(h) \cup {SlotOf(e)}
      BY <2>2, <3>1 DEF Added
    <3>3. job[p].cmd \in Command
      BY <2>2 DEF Inv, Knows, Job
    <3>4. job[p].cmd # "ml_check"
      BY <2>2, <3>2 DEF InterruptedMlCheck, MlCheckInFlight
    <3>5. e.kind # "ml_checked"
      BY <3>1, <3>3, <3>4 DEF IsEventOf, Appends, Command, TagMoved
    <3> QED BY <3>2, <3>5 DEF SlotOf, InterruptedMlCheck
  <2> QED BY <2>1, <2>2, OnlyWritersAddNames DEF AddsNames
<1>4. ASSUME NEW q \in Proc, pc'[q] \notin {"idle", "put_sidecar"},
             job'[q].cmd = "ml_check", job'[q].hash = h
      PROVE  FALSE
  <2>1. CASE q # p
    BY <1>1, <1>4, <2>1 DEF OnlyMoves, InterruptedMlCheck, MlCheckInFlight
  <2>2. CASE q = p /\ Step(p)
    <3>1. /\ pc[p] # "idle" /\ job'[p] = job[p]
          /\ pc[p] = "put_sidecar" => consistency[job[p].hash] = None
      BY <1>4, <2>2, StepControl DEF Inv
    <3> QED BY <1>4, <2>2, <3>1 DEF InterruptedMlCheck, MlCheckInFlight
  <2>3. CASE q = p /\ (Crash(p) \/ CrashInWrite(p))
    BY <1>4, <2>3 DEF Crash, CrashInWrite, Stop, Inv, TypeOK
  <2>4. CASE q = p /\ Begin(p)
    BY <1>4, <2>4
    DEF Begin, Start, Inv, TypeOK, StartCompile, StartMlCheck, StartAttest,
        StartPublish, StartDeprecate, StartRevoke, StartRollback
  <2> QED BY <2>1, <2>2, <2>3, <2>4
<1>5. ~ MlCheckInFlight(h)'
  BY <1>4 DEF MlCheckInFlight
<1> QED BY <1>2, <1>3, <1>5 DEF InterruptedMlCheck

-----------------------------------------------------------------------------
(* The theorems.                                                           *)

(* The strengthened invariant holds in every reachable state: it is what   *)
(* each running command may rely on while others write (no `ke` command    *)
(* takes a lock).                                                          *)
THEOREM Invariance == Spec => []Inv
<1>1. Inv /\ [Next]_vars => Inv'
  BY InvIsInductive
<1> QED BY InitInv, <1>1, PTL DEF Spec

(* Every file and every process variable keeps its type, for any number of *)
(* processes and logs of any length.                                       *)
THEOREM TypeCorrectness == Spec => []TypeOK
<1>1. Inv => TypeOK
  BY DEF Inv
<1> QED BY Invariance, <1>1, PTL

(* No interleaving of unlocked commands and no crash lets an artifact skip *)
(* an authority on its way to Published, Deprecated or Revoked.            *)
THEOREM AuthoritiesAreNotSkipped == Spec => []EveryEventWasEarned
<1>1. Inv => EveryEventWasEarned
  BY DEF Inv, LogInv
<1> QED BY Invariance, <1>1, PTL

(* The evidence is on disk before the event, the event before the record,  *)
(* and the publication before the tag: the order of the writes in          *)
(* ml_check.rs, revoke.rs, publish.rs and rollback.rs.                     *)
THEOREM EvidencePrecedesEvent == Spec => []MlCheckedHasEvidence
<1>1. Inv => MlCheckedHasEvidence
  BY DEF Inv, SidecarInv
<1> QED BY Invariance, <1>1, PTL

THEOREM EventPrecedesRecord == Spec => []RecordHasRevokedEvent
<1>1. Inv => RecordHasRevokedEvent
  BY DEF Inv, SidecarInv
<1> QED BY Invariance, <1>1, PTL

THEOREM PublicationPrecedesTag == Spec => []TagsNameOncePublished
<1>1. Inv => TagsNameOncePublished
  BY DEF Inv, SidecarInv
<1> QED BY Invariance, <1>1, PTL

(* No step of any command, completed or cut short, makes the name of an    *)
(* event file disappear.                                                   *)
THEOREM EventNamesNeverVanish == Spec => EventNamesStay
<1>1. Inv /\ [Next]_vars => [\A h \in Hash : Slots(h) \subseteq Slots(h)']_vars
  BY InvIsInductive DEF Grows
<1> QED BY Invariance, <1>1, PTL DEF Spec, EventNamesStay

(* A `ke ml_check` stopped between its sidecar and its event can never be  *)
(* completed: put_consistency refuses each retry, and nothing else appends *)
(* the ml_checked event.                                                   *)
THEOREM InterruptionIsFinal == Spec => InterruptedMlCheckIsFinal
<1> DEFINE Final == \A h \in Hash : InterruptedMlCheck(h) => InterruptedMlCheck(h)'
<1>1. Inv /\ [Next]_vars => [Final]_vars
  <2>1. ASSUME Inv, Next PROVE Final
    BY <2>1, InterruptedMlCheckStays DEF Next
  <2> QED BY <2>1
<1> QED BY Invariance, <1>1, PTL DEF Spec, InterruptedMlCheckIsFinal

-----------------------------------------------------------------------------
(* One command at a time (Serial).                                         *)
(*                                                                         *)
(* The argument: while one command runs, nobody else writes, so the state  *)
(* it checked is still the state of the log when it reads its head, when   *)
(* it checks the name of its event and when it writes it. A command that   *)
(* is stopped leaves a log that either is as it was, or has its event, or  *)
(* is truncated for good; each of them is again a log that follows the     *)
(* lifecycle table. Hence the last part: the files implement the abstract  *)
(* lifecycle.                                                              *)
(*                                                                         *)
(* The inductive invariant, beside Inv.                                    *)

(* At most one command runs.                                               *)
Alone == \A p, q \in Proc : pc[p] # "idle" /\ pc[q] # "idle" => p = q

(* A log that has any file has the file of its first event.                *)
LogStarts == \A h \in Hash : Slots(h) # {} => <<0, "draft">> \in Slots(h)

(* The states each command starts from.                                    *)
From ==
  [ compile |-> {"Draft"}, ml_check |-> {"StructurallyVerified"},
    attest |-> {"MlChecked"}, publish |-> {"ExpertAttested"},
    deprecate |-> {"Published"}, revoke |-> {"Published", "Deprecated"},
    rollback |-> {"Published"} ]

(* The calls a transition command makes before it reads its head.          *)
Preparing == { "verify", "put_sidecar", "write_sidecar", "read_sidecar", "head" }

(* e is the last event of the readable log of h.                           *)
Last(h, e) == Readable(h) /\ e \in events[h] /\ IsHead(h, e)

(* What a running command may count on while nobody else writes.           *)
Counts(p) ==
  pc[p] # "idle" =>
    LET h == job[p].hash
        cmd == job[p].cmd
    IN  /\ pc[p] \in Preparing \/ (pc[p] = "put_kew" /\ cmd = "attest")
             => \E state \in From[cmd] : StateIs(h, state)
        /\ HasBase(p) => Last(h, base[p]) /\ base[p].new \in From[cmd]
        /\ pc[p] = "write" => SlotOf(NewEvent(p)) \notin Slots(h)
        /\ pc[p] = "point" => StateIs(h, "Published")
        /\ pc[p] \in {"put_revocation", "write_revocation"}
             => StateIs(h, "Revoked")
        /\ pc[p] = "write_revocation" => revocation[h] = None
        /\ cmd = "publish" /\ pc[p] \in {"head", "append", "write"}
             => SetVerifies(kew[h], job[p].types, KindOf[h])

LogSerial == LogStarts /\ LogFollowsTable

SerialInv == Inv /\ LogSerial /\ Alone /\ \A p \in Proc : Counts(p)

-----------------------------------------------------------------------------
(* The three things that happen to a log.                                  *)

(* Its first event is stored.                                              *)
Created(h, e) ==
  /\ Slots(h) = {} /\ torn' = torn
  /\ events' = [events EXCEPT ![h] = {e}]
  /\ e \in Event /\ e.seq = 0 /\ e.kind = "draft" /\ e.new = "Draft"
  /\ e.link = None

(* An event is stored on top of the last one, along an edge of the table.  *)
Extended(h, b, e) ==
  /\ Last(h, b) /\ e \in Event /\ LegalLink(b, e)
  /\ events' = [events EXCEPT ![h] = @ \cup {e}] /\ torn' = torn

(* A truncated event file is left under a name nothing had.                *)
Truncated(h) == events' = events /\ \A g \in Hash : g # h => torn'[g] = torn[g]

LEMMA WrittenIsNew ==
  ASSUME NEW h, NEW e, SlotOf(e) \notin Slots(h)
  PROVE  /\ Written(h, e) = {e}
         /\ Vacated(events[h], SlotOf(e)) = events[h]
         /\ Vacated(torn[h], SlotOf(e)) = torn[h]
BY DEF Written, Vacated, Slots, Files

LEMMA UnchangedLog ==
  ASSUME LogSerial, UNCHANGED <<events, torn>>
  PROVE  /\ LogSerial'
         /\ \A h : Readable(h)' <=> Readable(h)
         /\ \A h, state : StateIs(h, state)' <=> StateIs(h, state)
         /\ \A h, e : Last(h, e)' <=> Last(h, e)
         /\ \A h : Slots(h)' = Slots(h)
<1>1. \A h : Slots(h)' = Slots(h)
  BY DEF Slots, Files
<1>2. \A h : Readable(h)' <=> Readable(h)
  BY DEF Readable
<1>3. /\ \A h, state : StateIs(h, state)' <=> StateIs(h, state)
      /\ \A h, e : Last(h, e)' <=> Last(h, e)
  BY <1>2 DEF StateIs, Last, IsHead
<1>4. LogSerial'
  BY <1>1 DEF LogSerial, LogStarts, LogFollowsTable, LegalLink
<1>. QED BY <1>1, <1>2, <1>3, <1>4

LEMMA CreatedKeeps ==
  ASSUME TypeOK, LogSerial, NEW h \in Hash, NEW e, Created(h, e)
  PROVE  LogSerial' /\ Last(h, e)' /\ \A g \in Hash \ {h} : events'[g] = events[g]
<1>1. /\ events'[h] = {e} /\ torn'[h] = {}
      /\ \A g \in Hash \ {h} : events'[g] = events[g] /\ torn'[g] = torn[g]
  BY DEF TypeOK, Created, Slots, Files
<1>2. LogFollowsTable'
  BY <1>1 DEF LogSerial, LogFollowsTable, LegalLink, Created
<1>3. LogStarts'
  <2>1. Slots(h)' = {<<0, "draft">>}
    BY <1>1 DEF Slots, Files, SlotOf, Created
  <2>2. \A g \in Hash \ {h} : Slots(g)' = Slots(g)
    BY <1>1 DEF Slots, Files
  <2>. QED BY <2>1, <2>2 DEF LogSerial, LogStarts
<1>4. Last(h, e)'
  BY <1>1 DEF Last, IsHead, Readable, Created
<1>. QED BY <1>1, <1>2, <1>3, <1>4 DEF LogSerial

LEMMA ExtendedKeeps ==
  ASSUME TypeOK, LogSerial, NEW h \in Hash, NEW b, NEW e, Extended(h, b, e)
  PROVE  LogSerial' /\ Last(h, e)' /\ \A g \in Hash \ {h} : events'[g] = events[g]
<1>1. /\ events'[h] = events[h] \cup {e} /\ torn'[h] = {}
      /\ \A g \in Hash \ {h} : events'[g] = events[g] /\ torn'[g] = torn[g]
  BY DEF TypeOK, Extended, Last, Readable
<1>2. /\ b \in events[h] /\ b.seq \in Nat /\ e.seq = b.seq + 1
      /\ \A d \in events[h] : d.seq \in Nat /\ d.seq <= b.seq
  BY DEF TypeOK, Extended, Last, IsHead, LegalLink, Event
<1>3. \A d \in events[h] : d.seq < e.seq
  BY <1>2
<1>4. LogFollowsTable'
  <2>. SUFFICES ASSUME NEW g \in Hash
                PROVE (/\ \A d, c \in events[g] : d.seq = c.seq => d = c
                       /\ \A c \in events[g] :
                            IF c.seq = 0
                            THEN c.kind = "draft" /\ c.new = "Draft" /\ c.link = None
                            ELSE \E d \in events[g] : LegalLink(d, c))'
    BY DEF LogFollowsTable
  <2>1. CASE g # h
    BY <1>1, <2>1 DEF LogSerial, LogFollowsTable, LegalLink
  <2>2. CASE g = h
    <3>1. (\A d, c \in events[h] : d.seq = c.seq => d = c)'
      BY <1>1, <1>2, <1>3 DEF LogSerial, LogFollowsTable
    <3>2. ASSUME NEW c \in events[h]
          PROVE  IF c.seq = 0
                 THEN c.kind = "draft" /\ c.new = "Draft" /\ c.link = None
                 ELSE \E d \in events'[h] : LegalLink(d, c)
      BY <1>1 DEF LogSerial, LogFollowsTable
    <3>3. e.seq # 0 /\ LegalLink(b, e) /\ b \in events'[h]
      BY <1>1, <1>2 DEF Extended
    <3>. QED BY <1>1, <2>2, <3>1, <3>2, <3>3 DEF LegalLink
  <2>. QED BY <2>1, <2>2
<1>5. LogStarts'
  <2>1. \A g \in Hash \ {h} : Slots(g)' = Slots(g)
    BY <1>1 DEF Slots, Files
  <2>2. Slots(h) \subseteq Slots(h)' /\ SlotOf(b) \in Slots(h)
    BY <1>1, <1>2 DEF Slots, Files, Extended, Last, Readable
  <2>. QED BY <2>1, <2>2 DEF LogSerial, LogStarts
<1>6. Last(h, e)'
  <2>1. Readable(h)'
    BY <1>1, <1>4 DEF LogFollowsTable, LegalLink, Readable
  <2>2. e \in events'[h] /\ \A d \in events'[h] : d.seq <= e.seq
    BY <1>1, <1>2, <1>3
  <2>. QED BY <2>1, <2>2 DEF Last, IsHead
<1>. QED BY <1>1, <1>4, <1>5, <1>6 DEF LogSerial

LEMMA TornLog ==
  ASSUME TypeOK, LogSerial, NEW h \in Hash, NEW e \in Event,
         SlotOf(e) \notin Slots(h), TearEvent(h, e),
         Slots(h) = {} => SlotOf(e) = <<0, "draft">>
  PROVE  LogSerial' /\ Truncated(h)
<1>1. events' = events /\ \A g \in Hash : g # h => torn'[g] = torn[g]
  BY WrittenIsNew DEF TypeOK, TearEvent
<1>2. LogFollowsTable'
  BY <1>1 DEF LogSerial, LogFollowsTable, LegalLink
<1>3. Added(h, SlotOf(e))
  BY TearAdds
<1>4. LogStarts'
  BY <1>3 DEF LogSerial, LogStarts, Added
<1>. QED BY <1>1, <1>2, <1>4 DEF LogSerial, Truncated

-----------------------------------------------------------------------------
(* The event of a command that runs alone.                                 *)

LEMMA DraftIsFirst ==
  ASSUME SerialInv, NEW p \in Proc, pc[p] = "write", ~ HasBase(p)
  PROVE  /\ job[p].hash \in Hash /\ job[p].cmd = "compile" /\ base[p] = None
         /\ NewEvent(p) = DraftEvent(job[p].hash)
         /\ Slots(job[p].hash) = {}
         /\ StoreEvent(job[p].hash, NewEvent(p))
              => Created(job[p].hash, NewEvent(p))
<1>1. job[p].hash \in Hash /\ job[p].cmd = "compile" /\ base[p] = None
  BY DEF SerialInv, Inv, Knows, Job, HasBase
<1>. DEFINE h == job[p].hash
<1>2. NewEvent(p) = DraftEvent(h)
  BY <1>1 DEF NewEvent
<1>3. NewEvent(p) \in Event
  BY NewEventIsEventOf DEF SerialInv, Inv, IsEventOf
<1>4. SlotOf(NewEvent(p)) = <<0, "draft">> /\ SlotOf(NewEvent(p)) \notin Slots(h)
  BY <1>2 DEF DraftEvent, SlotOf, SerialInv, Counts
<1>5. Slots(h) = {}
  BY <1>1, <1>4 DEF SerialInv, LogSerial, LogStarts
<1>6. ASSUME StoreEvent(h, NewEvent(p))
      PROVE  Created(h, NewEvent(p))
  <2>1. events[h] = {} /\ torn[h] = {}
    BY <1>5 DEF Slots, Files
  <2>2. /\ Vacated(events[h], SlotOf(NewEvent(p))) = {}
        /\ Vacated(torn[h], SlotOf(NewEvent(p))) = torn[h]
    BY <2>1 DEF Vacated
  <2>3. events' = [events EXCEPT ![h] = {NewEvent(p)}] /\ torn' = torn
    BY <1>1, <1>6, <2>2 DEF StoreEvent, SerialInv, Inv, TypeOK
  <2>. QED BY <1>2, <1>3, <1>5, <2>3 DEF Created, DraftEvent
<1>. QED BY <1>1, <1>2, <1>5, <1>6

LEMMA ChainIsLegal ==
  ASSUME SerialInv, NEW p \in Proc, pc[p] \in {"append", "write"}, HasBase(p)
  PROVE  /\ job[p].hash \in Hash
         /\ NewEvent(p) \in Event
         /\ Last(job[p].hash, base[p])
         /\ LegalLink(base[p], NewEvent(p))
<1>. DEFINE b == base[p]
            h == job[p].hash
<1>1. /\ Last(h, b) /\ b.new \in From[job[p].cmd]
      /\ h \in Hash /\ job[p].cmd \in Command
  BY DEF SerialInv, Counts, Inv, Knows, Job, HasBase
<1>2. NewEvent(p) \in Event
  BY NewEventIsEventOf DEF SerialInv, Inv, IsEventOf
<1>3. ASSUME NEW kind, NEW new, NewEvent(p) = Chained(h, b, kind, new),
             \/ TableEdge(b.new, new) /\ kind = EventKind[new]
             \/ kind = TagMoved /\ b.new = "Published" /\ new = "Published"
      PROVE  LegalLink(b, NewEvent(p))
  BY <1>3 DEF Chained, LegalLink
<1>4. CASE job[p].cmd = "rollback"
  <2>1. b.new = "Published" /\ NewEvent(p) = Chained(h, b, TagMoved, b.new)
    BY <1>1, <1>4 DEF From, NewEvent, TagMovedEvent
  <2>. QED BY <1>1, <1>2, <1>3, <2>1
<1>5. CASE job[p].cmd = "compile"
  <2>1. NewEvent(p) = Chained(h, b, EventKind["StructurallyVerified"],
                              "StructurallyVerified")
    BY <1>5 DEF NewEvent, HasBase, TransitionEvent
  <2>2. TableEdge(b.new, "StructurallyVerified")
    BY <1>1, <1>5 DEF From, TableEdge, CanTransition, Precondition
  <2>. QED BY <1>1, <1>2, <1>3, <2>1, <2>2
<1>6. CASE job[p].cmd \notin {"compile", "rollback"}
  <2>1. NewEvent(p) = Chained(h, b, EventKind[TargetState[job[p].cmd]],
                              TargetState[job[p].cmd])
    BY <1>6 DEF NewEvent, TransitionEvent
  <2>2. TableEdge(b.new, TargetState[job[p].cmd])
    BY <1>1, <1>6 DEF From, TableEdge, CanTransition, Precondition,
                      TargetState, Command
  <2>. QED BY <1>1, <1>2, <1>3, <2>1, <2>2
<1>. QED BY <1>4, <1>5, <1>6

LEMMA ChainIsNew ==
  ASSUME SerialInv, NEW p \in Proc, pc[p] \in {"append", "write"}, HasBase(p)
  PROVE  SlotOf(NewEvent(p)) \notin Slots(job[p].hash)
<1>. DEFINE h == job[p].hash
            b == base[p]
<1>1. Last(h, b) /\ LegalLink(b, NewEvent(p)) /\ h \in Hash
  BY ChainIsLegal
<1>2. /\ torn[h] = {} /\ b.seq \in Nat /\ NewEvent(p).seq = b.seq + 1
      /\ \A d \in events[h] : d.seq \in Nat /\ d.seq <= b.seq
  BY <1>1 DEF Last, Readable, IsHead, LegalLink, SerialInv, Inv, TypeOK, Event
<1>. QED BY <1>2 DEF Slots, Files, SlotOf

LEMMA StoredExtends ==
  ASSUME SerialInv, NEW p \in Proc, pc[p] = "write", HasBase(p),
         StoreEvent(job[p].hash, NewEvent(p))
  PROVE  Extended(job[p].hash, base[p], NewEvent(p))
<1>. DEFINE h == job[p].hash
            e == NewEvent(p)
<1>1. h \in Hash /\ e \in Event /\ Last(h, base[p]) /\ LegalLink(base[p], e)
  BY ChainIsLegal
<1>2. Vacated(events[h], SlotOf(e)) = events[h] /\ Vacated(torn[h], SlotOf(e)) = torn[h]
  BY ChainIsNew, WrittenIsNew
<1>3. events' = [events EXCEPT ![h] = events[h] \cup {e}] /\ torn' = torn
  BY <1>1, <1>2 DEF StoreEvent, SerialInv, Inv, TypeOK
<1>. QED BY <1>1, <1>3 DEF Extended

LEMMA LastIsUnique ==
  ASSUME TypeOK, NEW h \in Hash, NEW d, NEW e, Last(h, d), Last(h, e)
  PROVE  d = e
<1>1. d.seq \in Nat /\ e.seq \in Nat /\ d.seq <= e.seq /\ e.seq <= d.seq
  BY DEF TypeOK, Last, IsHead, Event
<1>2. d.seq = e.seq
  BY <1>1
<1>. QED BY <1>2 DEF Last, Readable

-----------------------------------------------------------------------------
(* What every step does to the logs, and what the process that takes it    *)
(* may count on after it.                                                  *)

LogStep(p) ==
  \/ UNCHANGED <<events, torn>>
  \/ Truncated(job[p].hash)
  \/ \E e : Created(job[p].hash, e)
  \/ \E e : Extended(job[p].hash, base[p], e)

SerialKeeps(p) == LogSerial' /\ LogStep(p) /\ Counts(p)'

LEMMA StoppedCounts ==
  ASSUME SerialInv, NEW p \in Proc, Stop(p)
  PROVE  Counts(p)'
BY StopMoves DEF SerialInv, Inv, Counts

LEMMA QuietStopKeeps ==
  ASSUME SerialInv, NEW p \in Proc, Stop(p), UNCHANGED <<events, torn>>
  PROVE  SerialKeeps(p)
BY UnchangedLog, StoppedCounts DEF SerialKeeps, LogStep, SerialInv

LEMMA StartCounts ==
  ASSUME SerialInv, NEW p \in Proc, NEW cmd \in Command, NEW h \in Hash,
         NEW tag \in Tag \cup {None}, NEW types \in SUBSET AttestationType,
         NEW record \in Record \cup {None}, NEW label \in PC,
         Start(p, cmd, h, tag, types, record, label),
         label \in Preparing \cup {"put_kew"},
         label = "head" => cmd # "publish",
         cmd # "compile" => \E state \in From[cmd] : StateIs(h, state),
         cmd = "compile" => label = "put_kew"
  PROVE  SerialKeeps(p)
<1>1. /\ UNCHANGED store
      /\ pc'[p] = label /\ job'[p].cmd = cmd /\ job'[p].hash = h
  BY StartMoves DEF SerialInv, Inv
<1>2. UNCHANGED <<events, torn>>
  BY <1>1 DEF store
<1>3. LogSerial' /\ \A state : StateIs(h, state)' <=> StateIs(h, state)
  BY <1>2, UnchangedLog DEF SerialInv
<1>4. Counts(p)'
  BY <1>1, <1>3 DEF Counts, HasBase, Preparing
<1>. QED BY <1>2, <1>3, <1>4 DEF SerialKeeps, LogStep

LEMMA BeginCounts ==
  ASSUME SerialInv, NEW p \in Proc, Begin(p)
  PROVE  SerialKeeps(p)
<1>. USE DEF PC, Command, Preparing, From, CurrentStateIs
<1>1. CASE StartCompile(p)
  BY <1>1, StartCounts DEF StartCompile
<1>2. CASE StartMlCheck(p)
  BY <1>2, StartCounts DEF StartMlCheck
<1>3. CASE StartAttest(p)
  BY <1>3, StartCounts, RegistryAssumption DEF StartAttest
<1>4. CASE StartPublish(p)
  <2>1. PICK h \in Hash, tag \in Tag :
          \E required \in {PolicyForKind(KindOf[h])} \cup Bundles :
            /\ StateIs(h, "ExpertAttested")
            /\ Start(p, "publish", h, tag, required, None, "verify")
    BY <1>4 DEF StartPublish
  <2>2. PICK required \in {PolicyForKind(KindOf[h])} \cup Bundles :
            /\ StateIs(h, "ExpertAttested")
            /\ Start(p, "publish", h, tag, required, None, "verify")
    BY <2>1
  <2>3. required \in SUBSET AttestationType
    BY RegistryAssumption DEF PolicyForKind, AttestationType
  <2>. QED BY <2>2, <2>3, StartCounts
<1>5. CASE StartDeprecate(p)
  BY <1>5, StartCounts DEF StartDeprecate
<1>6. CASE StartRevoke(p)
  <2>1. PICK h \in Hash, args \in RevokeArgs, from \in {"Published", "Deprecated"} :
          /\ RevokeInputsAccepted(args[1], args[2])
          /\ StateIs(h, from)
          /\ Start(p, "revoke", h, None, {},
                   [ policy |-> RecordedPolicy(args[1], args[2]),
                     class |-> args[2] ], "head")
    BY <1>6 DEF StartRevoke
  <2>2. [ policy |-> RecordedPolicy(args[1], args[2]), class |-> args[2] ]
          \in Record
    BY <2>1, RecordedPolicyType, RegistryAssumption DEF Record
  <2>. QED BY <2>1, <2>2, StartCounts
<1>7. CASE StartRollback(p)
  <2>1. PICK h \in Hash, tag \in Tag :
          /\ StateIs(h, "Published")
          /\ Start(p, "rollback", h, tag, {}, None, "head")
    BY <1>7 DEF StartRollback, IsRollbackEligible
  <2>. QED BY <2>1, StartCounts
<1>. QED BY <1>1, <1>2, <1>3, <1>4, <1>5, <1>6, <1>7 DEF Begin

(* The calls that leave the log as it is.                                  *)
LEMMA ReadingCounts ==
  ASSUME SerialInv, NEW p \in Proc,
         \/ PutKew(p) \/ VerifyKew(p) \/ CheckSidecar(p) \/ WriteSidecar(p)
         \/ ReadSidecar(p) \/ PutPointer(p) \/ CheckRevocation(p)
         \/ WriteRevocation(p)
  PROVE  SerialKeeps(p)
<1>1. UNCHANGED <<events, torn>>
  BY DEF PutKew, VerifyKew, CheckSidecar, WriteSidecar, ReadSidecar,
         PutPointer, CheckRevocation, WriteRevocation, store
<1>2. LogSerial' /\ \A h, state : StateIs(h, state)' <=> StateIs(h, state)
  BY <1>1, UnchangedLog DEF SerialInv
<1>3. CASE Stop(p)
  BY <1>1, <1>3, QuietStopKeeps
<1>4. CASE ~ Stop(p)
  <2>1. /\ Counts(p) /\ Knows(p) /\ TypeOK
        /\ pc[p] # "idle" => job[p].cmd \in Command
    BY DEF SerialInv, Inv, Knows, Job
  <2>. PICK h : h = job[p].hash
    OBVIOUS
  <2>2. \/ pc[p] = "put_kew" /\ Goto(p, "append") /\ job[p].cmd = "compile"
        \/ pc[p] = "put_kew" /\ Goto(p, "head") /\ job[p].cmd # "compile"
        \/ /\ pc[p] = "verify" /\ Goto(p, "head") /\ UNCHANGED kew
           /\ SetVerifies(kew[h], job[p].types, KindOf[h])
        \/ pc[p] = "put_sidecar" /\ Goto(p, "write_sidecar")
        \/ pc[p] = "write_sidecar" /\ Goto(p, "read_sidecar")
        \/ pc[p] = "read_sidecar" /\ Goto(p, "head")
        \/ /\ pc[p] = "put_revocation" /\ Goto(p, "write_revocation")
           /\ UNCHANGED revocation /\ revocation[h] = None
    BY <1>4 DEF PutKew, VerifyKew, CheckSidecar, WriteSidecar, ReadSidecar,
         PutPointer, CheckRevocation, WriteRevocation, GotoIf, store
  <2>3. ASSUME NEW label, Goto(p, label)
        PROVE  /\ pc'[p] = label /\ job'[p] = job[p] /\ base'[p] = base[p]
               /\ job'[p].hash = h
    BY <2>1, <2>3 DEF Goto, TypeOK
  <2>4. pc[p] \in Path[job[p].cmd] /\ (pc[p] = "put_kew" => base[p] = None)
    BY <2>1, <2>2 DEF Knows
  <2>5. Counts(p)'
    <3>. USE DEF Counts, HasBase, Preparing, Path, Command
    <3>1. CASE pc[p] = "put_kew" /\ Goto(p, "append") /\ job[p].cmd = "compile"
      BY <1>2, <2>1, <2>3, <2>4, <3>1
    <3>2. CASE pc[p] = "put_kew" /\ Goto(p, "head") /\ job[p].cmd # "compile"
      BY <1>2, <2>1, <2>3, <2>4, <3>2
    <3>3. CASE /\ pc[p] = "verify" /\ Goto(p, "head") /\ UNCHANGED kew
               /\ SetVerifies(kew[h], job[p].types, KindOf[h])
      BY <1>2, <2>1, <2>3, <2>4, <3>3 DEF SetVerifies
    <3>4. CASE \/ pc[p] = "put_sidecar" /\ Goto(p, "write_sidecar")
               \/ pc[p] = "write_sidecar" /\ Goto(p, "read_sidecar")
               \/ pc[p] = "read_sidecar" /\ Goto(p, "head")
      BY <1>2, <2>1, <2>3, <2>4, <3>4
    <3>5. CASE /\ pc[p] = "put_revocation" /\ Goto(p, "write_revocation")
               /\ UNCHANGED revocation /\ revocation[h] = None
      BY <1>2, <2>1, <2>3, <2>4, <3>5
    <3>. QED BY <2>2, <3>1, <3>2, <3>3, <3>4, <3>5
  <2>. QED BY <1>1, <1>2, <2>5 DEF SerialKeeps, LogStep
<1>. QED BY <1>3, <1>4

(* The head that is read is in the state that was checked.                 *)
LEMMA ReadHeadCounts ==
  ASSUME SerialInv, NEW p \in Proc, ReadHead(p)
  PROVE  SerialKeeps(p)
<1>. PICK h : h = job[p].hash
  OBVIOUS
<1>1. pc[p] = "head" /\ UNCHANGED store /\ UNCHANGED <<events, torn>>
  BY DEF ReadHead, store
<1>2. h \in Hash /\ TypeOK /\ Counts(p) /\ job[p].cmd \in Command
  BY <1>1 DEF SerialInv, Inv, Knows, Job
<1>3. CASE Stop(p)
  BY <1>1, <1>3, QuietStopKeeps
<1>4. CASE ~ Stop(p)
  <2>1. PICK e \in events[h] :
          /\ Readable(h) /\ IsHead(h, e) /\ base' = [base EXCEPT ![p] = e]
          /\ pc' = [pc EXCEPT ![p] = "append"] /\ UNCHANGED job
    BY <1>4 DEF ReadHead
  <2>2. pc'[p] = "append" /\ base'[p] = e /\ job'[p] = job[p]
    BY <1>2, <2>1 DEF TypeOK
  <2>3. e.new \in From[job[p].cmd]
    <3>1. PICK state \in From[job[p].cmd] : StateIs(h, state)
      BY <1>1, <1>2 DEF Counts, Preparing
    <3>2. PICK d \in events[h] : Last(h, d) /\ d.new = state
      BY <3>1 DEF StateIs, Last
    <3>. QED BY <1>2, <2>1, <3>1, <3>2, LastIsUnique DEF Last
  <2>4. LogSerial' /\ Last(h, e)' /\ kew' = kew
    BY <1>1, <2>1, UnchangedLog DEF SerialInv, Last, store
  <2>5. job[p].cmd = "publish" => SetVerifies(kew[h], job[p].types, KindOf[h])
    BY <1>1, <1>2 DEF Counts
  <2>6. Counts(p)'
    BY <2>2, <2>3, <2>4, <2>5 DEF Counts, Preparing, SetVerifies
  <2>. QED BY <1>1, <2>4, <2>6 DEF SerialKeeps, LogStep
<1>. QED BY <1>3, <1>4

LEMMA CheckSlotCounts ==
  ASSUME SerialInv, NEW p \in Proc, CheckSlot(p)
  PROVE  SerialKeeps(p)
<1>. PICK h : h = job[p].hash
  OBVIOUS
<1>1. /\ pc[p] = "append" /\ UNCHANGED store /\ UNCHANGED <<events, torn>>
      /\ GotoIf(p, SlotOf(NewEvent(p)) \notin Slots(h), "write")
  BY DEF CheckSlot, store
<1>2. h \in Hash /\ TypeOK /\ Counts(p)
  BY <1>1 DEF SerialInv, Inv, Knows, Job
<1>3. CASE Stop(p)
  BY <1>1, <1>3, QuietStopKeeps
<1>4. CASE ~ Stop(p)
  <2>1. SlotOf(NewEvent(p)) \notin Slots(h) /\ Goto(p, "write")
    BY <1>1, <1>4 DEF GotoIf
  <2>2. pc'[p] = "write" /\ job' = job /\ base' = base
    BY <1>2, <2>1 DEF Goto, TypeOK
  <2>3. NewEvent(p)' = NewEvent(p) /\ Slots(h)' = Slots(h)
    BY <1>1, <2>2
    DEF NewEvent, DraftEvent, TransitionEvent, TagMovedEvent, Chained,
        VersionAt, Slots, Files
  <2>4. LogSerial' /\ \A e : Last(h, e)' <=> Last(h, e)
    BY <1>1, UnchangedLog DEF SerialInv
  <2>5. SlotOf(NewEvent(p))' \notin Slots(h)'
    BY <2>1, <2>3 DEF SlotOf
  <2>6. HasBase(p)' => HasBase(p)
    BY <1>1, <2>2 DEF HasBase
  <2>7. kew' = kew
    BY <1>1 DEF store
  <2>8. Counts(p)'
    BY <1>1, <1>2, <2>2, <2>4, <2>5, <2>6, <2>7
    DEF Counts, Preparing, SetVerifies
  <2>. QED BY <1>1, <2>4, <2>8 DEF SerialKeeps, LogStep
<1>. QED BY <1>3, <1>4

(* The first event is stored, and the command goes on from it.             *)
LEMMA WriteDraftCounts ==
  ASSUME SerialInv, NEW p \in Proc, WriteEvent(p), ~ HasBase(p)
  PROVE  SerialKeeps(p)
<1>. PICK h, e : h = job[p].hash /\ e = NewEvent(p)
  OBVIOUS
<1>1. pc[p] = "write" /\ TypeOK /\ \E d \in Written(h, e) : StoreEvent(h, d)
  BY DEF WriteEvent, SerialInv, Inv
<1>2. h \in Hash /\ job[p].cmd = "compile" /\ base[p] = None /\ Slots(h) = {}
      /\ (StoreEvent(h, e) => Created(h, e))
  BY <1>1, DraftIsFirst
<1>3. Written(h, e) = {e}
  BY <1>2, WrittenIsNew
<1>4. Created(h, e)
  BY <1>1, <1>2, <1>3
<1>5. LogSerial' /\ Last(h, e)' /\ e.new = "Draft" /\ e \in Event
  BY <1>1, <1>2, <1>4, CreatedKeeps DEF Created, SerialInv
<1>6. /\ base' = [base EXCEPT ![p] = e] /\ UNCHANGED job
      /\ pc' = [pc EXCEPT ![p] = "append"]
  BY <1>2, <1>3 DEF WriteEvent, CanTransition
<1>7. pc'[p] = "append" /\ base'[p] = e /\ job'[p] = job[p]
  BY <1>1, <1>6 DEF TypeOK
<1>8. Counts(p)'
  BY <1>2, <1>5, <1>7 DEF Counts, Preparing, From
<1>. QED BY <1>4, <1>5, <1>8 DEF SerialKeeps, LogStep

(* An event is stored on the state that was checked.                       *)
LEMMA WriteChainedCounts ==
  ASSUME SerialInv, NEW p \in Proc, WriteEvent(p), HasBase(p)
  PROVE  SerialKeeps(p)
<1>. PICK h, e : h = job[p].hash /\ e = NewEvent(p)
  OBVIOUS
<1>1. /\ pc[p] = "write" /\ TypeOK /\ Counts(p) /\ base[p].new \in From[job[p].cmd]
      /\ \E d \in Written(h, e) : StoreEvent(h, d)
  BY DEF WriteEvent, SerialInv, Inv, Counts
<1>2. h \in Hash /\ Written(h, e) = {e}
  BY <1>1, ChainIsLegal, ChainIsNew, WrittenIsNew
<1>3. Extended(h, base[p], e)
  BY <1>1, <1>2, StoredExtends
<1>4. LogSerial' /\ Last(h, e)'
  BY <1>1, <1>2, <1>3, ExtendedKeeps DEF SerialInv
<1>5. LogStep(p)
  BY <1>3 DEF LogStep
<1>6. CASE Stop(p)
  BY <1>4, <1>5, <1>6, StoppedCounts DEF SerialKeeps
<1>7. CASE job[p].cmd \in {"publish", "rollback"} /\ Goto(p, "point")
  <2>1. pc'[p] = "point" /\ job'[p] = job[p]
    BY <1>1, <1>7 DEF Goto, TypeOK
  <2>2. e.new = "Published"
    BY <1>1, <1>7 DEF NewEvent, TransitionEvent, TagMovedEvent, Chained,
                      TargetState, From
  <2>3. StateIs(h, "Published")'
    BY <1>4, <2>2 DEF Last, StateIs
  <2>. QED BY <1>4, <1>5, <2>1, <2>3 DEF SerialKeeps, Counts, HasBase, Preparing
<1>8. CASE job[p].cmd = "revoke" /\ Goto(p, "put_revocation")
  <2>1. pc'[p] = "put_revocation" /\ job'[p] = job[p]
    BY <1>1, <1>8 DEF Goto, TypeOK
  <2>2. e.new = "Revoked"
    BY <1>8 DEF NewEvent, TransitionEvent, Chained, TargetState
  <2>3. StateIs(h, "Revoked")'
    BY <1>4, <2>2 DEF Last, StateIs
  <2>. QED BY <1>4, <1>5, <2>1, <2>3 DEF SerialKeeps, Counts, HasBase, Preparing
<1>9. \/ Stop(p)
      \/ job[p].cmd \in {"publish", "rollback"} /\ Goto(p, "point")
      \/ job[p].cmd = "revoke" /\ Goto(p, "put_revocation")
  <2>1. ~ (job[p].cmd = "compile" /\ base[p] = None)
    BY DEF HasBase
  <2>. QED BY <2>1, Zenon DEF WriteEvent
<1>. QED BY <1>6, <1>7, <1>8, <1>9

(* A command that is stopped between two calls or inside one.              *)
LEMMA CrashCounts ==
  ASSUME SerialInv, NEW p \in Proc, Crash(p) \/ CrashInWrite(p)
  PROVE  SerialKeeps(p)
<1>1. Stop(p)
  BY DEF Crash, CrashInWrite
<1>2. CASE UNCHANGED <<events, torn>>
  BY <1>1, <1>2, QuietStopKeeps
<1>3. CASE pc[p] = "write" /\ TearEvent(job[p].hash, NewEvent(p))
  <2>. DEFINE e == NewEvent(p)
  <2>. PICK h : h = job[p].hash
    OBVIOUS
  <2>1. TypeOK /\ Knows(p) /\ h \in Hash /\ SlotOf(e) \notin Slots(h)
    BY <1>3 DEF SerialInv, Inv, Counts, Knows, Job
  <2>2. e \in Event
    BY <1>3, <2>1, NewEventIsEventOf DEF IsEventOf
  <2>3. Slots(h) = {} => SlotOf(e) = <<0, "draft">>
    <3>1. CASE HasBase(p)
      BY <1>3, <3>1, ChainIsLegal DEF Last, Slots, Files
    <3>2. CASE ~ HasBase(p)
      BY <1>3, <3>2, DraftIsFirst DEF DraftEvent, SlotOf
    <3>. QED BY <3>1, <3>2
  <2>4. LogSerial' /\ Truncated(h)
    BY <1>3, <2>1, <2>2, <2>3, TornLog DEF SerialInv
  <2>. QED BY <1>1, <2>4, StoppedCounts DEF SerialKeeps, LogStep
<1>. QED BY <1>2, <1>3 DEF Crash, CrashInWrite, store

LEMMA NextCounts ==
  ASSUME SerialInv, NEW p \in Proc, Begin(p) \/ Step(p) \/ Crash(p) \/ CrashInWrite(p)
  PROVE  SerialKeeps(p)
<1>1. CASE Step(p)
  BY <1>1, ReadingCounts, ReadHeadCounts, CheckSlotCounts, WriteDraftCounts,
     WriteChainedCounts DEF Step
<1>. QED BY <1>1, BeginCounts, CrashCounts

(* Nobody but the one who takes a step is inside a command.                *)
LEMMA OthersAreIdle ==
  ASSUME Serial, SerialInv, NEW p \in Proc,
         Begin(p) \/ Step(p) \/ Crash(p) \/ CrashInWrite(p)
  PROVE  \A q \in Proc \ {p} : pc[q] = "idle"
<1>1. CASE Begin(p)
  BY <1>1
  DEF Begin, Start, MayStart, StartCompile, StartMlCheck, StartAttest,
      StartPublish, StartDeprecate, StartRevoke, StartRollback
<1>2. CASE Step(p)
  BY <1>2, StepControl DEF SerialInv, Inv, Alone
<1>3. CASE Crash(p) \/ CrashInWrite(p)
  BY <1>3 DEF Crash, CrashInWrite, SerialInv, Alone
<1>. QED BY <1>1, <1>2, <1>3

LEMMA SerialInvIsInductive ==
  ASSUME Serial, SerialInv, [Next]_vars
  PROVE  SerialInv'
<1>1. Inv'
  BY InvIsInductive DEF SerialInv
<1>2. CASE Next
  <2>1. PICK p \in Proc : Begin(p) \/ Step(p) \/ Crash(p) \/ CrashInWrite(p)
    BY <1>2 DEF Next
  <2>2. SerialKeeps(p) /\ OnlyMoves(p)
    BY <2>1, NextCounts, NextKeeps DEF SerialInv, Keeps
  <2>3. \A q \in Proc \ {p} : pc'[q] = "idle"
    BY <2>1, <2>2, OthersAreIdle DEF OnlyMoves
  <2>4. \A q \in Proc : Counts(q)'
    BY <2>2, <2>3 DEF SerialKeeps, Counts
  <2>. QED BY <1>1, <2>2, <2>3, <2>4 DEF SerialInv, SerialKeeps, Alone
<1>3. CASE UNCHANGED vars
  <2>1. LogSerial' /\ \A h, state : StateIs(h, state)' <=> StateIs(h, state)
    BY <1>3, UnchangedLog DEF SerialInv, vars
  <2>2. \A h, e : Last(h, e)' <=> Last(h, e)
    BY <1>3, UnchangedLog DEF SerialInv, vars
  <2>3. \A p : NewEvent(p)' = NewEvent(p)
    BY <1>3
    DEF vars, NewEvent, DraftEvent, TransitionEvent, TagMovedEvent, Chained,
        VersionAt, Slots, Files
  <2>4. ASSUME NEW p \in Proc PROVE Counts(p)'
    <3>1. SlotOf(NewEvent(p))' = SlotOf(NewEvent(p))
          /\ Slots(job[p].hash)' = Slots(job[p].hash)
      BY <1>3, <2>3 DEF vars, SlotOf, Slots, Files
    <3>. QED BY <1>3, <2>1, <2>2, <3>1
         DEF vars, SerialInv, Counts, HasBase, SetVerifies
  <2>. QED BY <1>1, <1>3, <2>1, <2>4 DEF SerialInv, Alone, vars
<1>. QED BY <1>2, <1>3

LEMMA InitSerial == Init => SerialInv
<1>. SUFFICES ASSUME Init PROVE SerialInv
  OBVIOUS
<1>1. \A h \in Hash : Slots(h) = {} /\ events[h] = {}
  BY DEF Init, Slots, Files
<1>2. \A p \in Proc : pc[p] = "idle"
  BY DEF Init
<1>. QED
  BY <1>1, <1>2, InitInv
  DEF SerialInv, LogSerial, LogStarts, LogFollowsTable, Alone, Counts

(* A tag is written only where its command was led by a Published state.   *)
LEMMA TagMoves ==
  ASSUME SerialInv, NEW p \in Proc,
         Begin(p) \/ Step(p) \/ Crash(p) \/ CrashInWrite(p)
  PROVE  \/ UNCHANGED tags
         \/ /\ job[p].hash \in Hash /\ StateIs(job[p].hash, "Published")
            /\ pc[p] = "point"
            /\ \E target \in {job[p].hash, Torn} :
                 tags' = [tags EXCEPT ![job[p].tag] = target]
<1>1. CASE pc[p] = "point"
  <2>1. job[p].hash \in Hash /\ StateIs(job[p].hash, "Published")
    BY <1>1 DEF SerialInv, Counts, Inv, Knows, Job
  <2>2. UNCHANGED tags \/ \E target \in {job[p].hash, Torn} :
                            tags' = [tags EXCEPT ![job[p].tag] = target]
    <3>1. CASE PutPointer(p)
      BY <3>1 DEF PutPointer
    <3>2. CASE Step(p) /\ ~ PutPointer(p)
      BY <1>1, <3>2
      DEF Step, PutKew, VerifyKew, CheckSidecar, WriteSidecar, ReadSidecar,
          ReadHead, CheckSlot, WriteEvent, CheckRevocation, WriteRevocation
    <3>3. CASE Begin(p)
      BY <1>1, <3>3
      DEF Begin, Start, MayStart, StartCompile, StartMlCheck, StartAttest,
          StartPublish, StartDeprecate, StartRevoke, StartRollback
    <3>4. CASE Crash(p) \/ CrashInWrite(p)
      BY <3>4 DEF Crash, CrashInWrite, store
    <3>. QED BY <3>1, <3>2, <3>3, <3>4
  <2>. QED BY <1>1, <2>1, <2>2
<1>2. CASE pc[p] # "point"
  <2>1. CASE Begin(p)
    BY <2>1
    DEF Begin, Start, store, StartCompile, StartMlCheck, StartAttest,
        StartPublish, StartDeprecate, StartRevoke, StartRollback
  <2>2. CASE Step(p)
    BY <1>2, <2>2
    DEF Step, store, PutKew, VerifyKew, CheckSidecar, WriteSidecar,
        ReadSidecar, ReadHead, CheckSlot, WriteEvent, PutPointer,
        CheckRevocation, WriteRevocation
  <2>3. CASE Crash(p) \/ CrashInWrite(p)
    BY <1>2, <2>3 DEF Crash, CrashInWrite, store
  <2>. QED BY <2>1, <2>2, <2>3
<1>. QED BY <1>1, <1>2

-----------------------------------------------------------------------------
(* The theorems.                                                           *)

(* One command at a time, stopped anywhere: what the command at work has   *)
(* checked still holds when it acts on it, and every log follows the table *)
(* (mod.rs has no lock; one operator is what makes it hold).               *)
THEOREM SerialInvariance ==
  ASSUME Serial
  PROVE  Spec => []SerialInv
<1>1. SerialInv /\ [Next]_vars => SerialInv'
  BY SerialInvIsInductive
<1>. QED BY InitSerial, <1>1, PTL DEF Spec

(* The decodable events of every artifact are a chain, one event to each   *)
(* sequence number, and each link is an edge of the lifecycle table or a   *)
(* tag move that keeps Published.                                          *)
THEOREM LogsFollowTheTable ==
  ASSUME Serial
  PROVE  Spec => []LogFollowsTable
<1>1. SerialInv => LogFollowsTable
  BY DEF SerialInv, LogSerial
<1>. QED BY SerialInvariance, <1>1, PTL

(* publish.rs: until the published event is written, the attestations on   *)
(* disk satisfy the policy it resolved and verified them against.          *)
THEOREM PublicationStaysVerified ==
  ASSUME Serial
  PROVE  Spec => []PublishesVerifiedSet
<1>1. SerialInv => PublishesVerifiedSet
  BY DEF SerialInv, Counts, PublishesVerifiedSet
<1>. QED BY SerialInvariance, <1>1, PTL

(* publish.rs and rollback.rs: a tag moves only to an artifact that is     *)
(* Published at that moment.                                               *)
THEOREM TagsFollowPublication ==
  ASSUME Serial
  PROVE  Spec => TagsMoveToPublished
<1>. DEFINE Moves == \A t \in Tag : tags'[t] # tags[t] /\ tags'[t] # Torn
                                      => StateIs(tags'[t], "Published")
<1>1. SerialInv /\ [Next]_vars => [Moves]_vars
  <2>1. ASSUME SerialInv, Next PROVE Moves
    <3>1. PICK p \in Proc : Begin(p) \/ Step(p) \/ Crash(p) \/ CrashInWrite(p)
      BY <2>1 DEF Next
    <3>2. tags \in [Tag -> Hash \cup {None, Torn}]
      BY <2>1 DEF SerialInv, Inv, TypeOK
    <3>. QED BY <2>1, <3>1, <3>2, TagMoves
  <2>. QED BY <2>1
<1>. QED BY SerialInvariance, <1>1, PTL DEF Spec, TagsMoveToPublished

-----------------------------------------------------------------------------
(* One command at a time, each of which runs to its end: the second part   *)
(* of the invariant, beside SerialInv.                                     *)

(* An artifact nothing was done to, and one nothing is left to do for.     *)
Blank(h) == Slots(h) = {} /\ consistency[h] = None

Whole(h) ==
  /\ \E state \in LifecycleState \ {"Draft"} : StateIs(h, state)
  /\ consistency[h] # None <=> Has(h, "ml_checked")

Settled(h) == IF kew[h] = None THEN Blank(h) ELSE Whole(h)

(* The calls between two writes that belong together: the stored artifact  *)
(* and its first two events, the sidecar and its event.                    *)
Between(p) ==
  \/ job[p].cmd = "compile" /\ pc[p] \in {"append", "write"}
  \/ /\ job[p].cmd = "ml_check"
     /\ pc[p] \in {"read_sidecar", "head", "append", "write"}

Completes(p) ==
  pc[p] # "idle" /\ Between(p) =>
    LET h == job[p].hash IN
    /\ kew[h] # None
    /\ job[p].cmd = "ml_check" => consistency[h] = "present"
    /\ job[p].cmd = "compile" =>
         IF base[p] = None THEN Blank(h) \/ Whole(h)
         ELSE consistency[h] = None /\ ~ Has(h, "ml_checked")

AllSettled ==
  \A h \in Hash :
    Settled(h) \/ \E p \in Proc : pc[p] # "idle" /\ Between(p) /\ job[p].hash = h

CleanInv ==
  /\ \A h \in Hash : torn[h] = {}
  /\ AllSettled
  /\ \A p \in Proc : Completes(p)

(* An artifact is settled, or half done, by what is stored under it.       *)
LEMMA SettledIsStored ==
  ASSUME NEW g, kew'[g] = kew[g], consistency'[g] = consistency[g],
         events'[g] = events[g], torn'[g] = torn[g]
  PROVE  /\ Settled(g)' <=> Settled(g)
         /\ Whole(g)' <=> Whole(g)
         /\ Blank(g)' <=> Blank(g)
         /\ Has(g, "ml_checked")' <=> Has(g, "ml_checked")
<1>1. Slots(g)' = Slots(g) /\ (Readable(g)' <=> Readable(g))
  BY DEF Slots, Files, Readable
<1>2. \A state : StateIs(g, state)' <=> StateIs(g, state)
  BY <1>1 DEF StateIs, IsHead
<1>3. Has(g, "ml_checked")' <=> Has(g, "ml_checked")
  BY <1>1 DEF Has
<1>. QED BY <1>1, <1>2, <1>3 DEF Settled, Whole, Blank

LEMMA StateIsThere ==
  ASSUME NEW h \in Hash, NEW state, StateIs(h, state), Settled(h)
  PROVE  kew[h] # None /\ Whole(h)
BY DEF StateIs, Settled, Blank, Slots, Files

(* What a settled artifact becomes by an event on top of its log.          *)
LEMMA ExtendedIsWhole ==
  ASSUME SerialInv, NEW h \in Hash, NEW b, NEW e, Extended(h, b, e),
         UNCHANGED consistency
  PROVE  /\ \E state \in LifecycleState \ {"Draft"} : StateIs(h, state)'
         /\ Has(h, "ml_checked")' <=> Has(h, "ml_checked") \/ e.kind = "ml_checked"
<1>1. Last(h, e)' /\ e \in Event /\ LegalLink(b, e)
  BY ExtendedKeeps DEF SerialInv, Inv, Extended
<1>2. e.new \in LifecycleState \ {"Draft"}
  BY <1>1 DEF LegalLink, TableEdge, CanTransition, Event
<1>3. StateIs(h, e.new)'
  BY <1>1 DEF StateIs, Last
<1>4. Slots(h)' = Slots(h) \cup {SlotOf(e)}
  <2>1. events'[h] = events[h] \cup {e} /\ torn' = torn
    BY DEF Extended, SerialInv, Inv, TypeOK
  <2>. QED BY <2>1 DEF Slots, Files
<1>5. Has(h, "ml_checked")' <=> Has(h, "ml_checked") \/ e.kind = "ml_checked"
  <2>1. SlotOf(e)[2] = e.kind
    BY DEF SlotOf
  <2>. QED BY <1>4, <2>1 DEF Has
<1>. QED BY <1>2, <1>3, <1>5

(* The store as it was, and a command that stops, or goes on outside of    *)
(* its two writes.                                                         *)
LEMMA SettledStays ==
  ASSUME CleanInv, NEW p \in Proc, \A q \in Proc \ {p} : pc[q] = "idle",
         pc[p] = "idle" \/ ~ Between(p),
         UNCHANGED <<kew, consistency, events, torn>>
  PROVE  (\A h \in Hash : torn[h] = {} /\ Settled(h))'
<1>1. \A h \in Hash : torn[h] = {} /\ Settled(h)
  BY DEF CleanInv, AllSettled
<1>. QED BY <1>1, SettledIsStored

(* What is to be shown of a step of p.                                     *)
Clean(p) ==
  /\ \A h \in Hash : torn'[h] = {}
  /\ \A g \in Hash :
       Settled(g)' \/ (pc'[p] # "idle" /\ Between(p)' /\ job'[p].hash = g)
  /\ Completes(p)'

LEMMA BeginIsClean ==
  ASSUME SerialInv, CleanInv, NEW p \in Proc, Begin(p),
         \A q \in Proc \ {p} : pc[q] = "idle"
  PROVE  Clean(p)
<1>1. /\ pc[p] = "idle" /\ UNCHANGED store
      /\ \E cmd, h, tag, types, record, label :
           /\ Start(p, cmd, h, tag, types, record, label)
           /\ label \in {"put_kew", "put_sidecar", "verify", "head"}
           /\ cmd = "ml_check" => label = "put_sidecar"
  BY DEF Begin, Start, MayStart, StartCompile, StartMlCheck, StartAttest,
         StartPublish, StartDeprecate, StartRevoke, StartRollback
<1>2. /\ pc'[p] \in {"put_kew", "put_sidecar", "verify", "head"}
      /\ job'[p].cmd = "ml_check" => pc'[p] = "put_sidecar"
  BY <1>1 DEF Start, SerialInv, Inv, TypeOK
<1>3. (\A h \in Hash : torn[h] = {} /\ Settled(h))'
  BY <1>1, SettledStays DEF store
<1>. QED BY <1>2, <1>3 DEF Clean, Completes, Between

(* The calls that write no file.                                           *)
LEMMA ReadingIsClean ==
  ASSUME SerialInv, CleanInv, NEW p \in Proc,
         \A q \in Proc \ {p} : pc[q] = "idle",
         \/ VerifyKew(p) \/ CheckSidecar(p) \/ PutPointer(p)
         \/ CheckRevocation(p) \/ WriteRevocation(p)
  PROVE  Clean(p)
<1>1. /\ UNCHANGED <<kew, consistency, events, torn>>
      /\ pc[p] \in {"verify", "put_sidecar", "point", "put_revocation",
                    "write_revocation"}
      /\ \/ Stop(p)
         \/ pc[p] = "verify" /\ Goto(p, "head")
         \/ Goto(p, "write_sidecar")
         \/ Goto(p, "write_revocation")
  BY DEF VerifyKew, CheckSidecar, PutPointer, CheckRevocation, WriteRevocation,
         GotoIf, store
<1>2. ~ Between(p) /\ (pc[p] = "verify" => job[p].cmd = "publish")
  BY <1>1 DEF Between, SerialInv, Inv, Knows, Path, Job, Command
<1>3. (\A h \in Hash : torn[h] = {} /\ Settled(h))'
  BY <1>1, <1>2, SettledStays
<1>4. pc'[p] # "idle" => ~ Between(p)'
  BY <1>1, <1>2 DEF Between, Goto, Stop, SerialInv, Inv, TypeOK
<1>. QED BY <1>3, <1>4 DEF Clean, Completes

LEMMA PutKewIsClean ==
  ASSUME SerialInv, CleanInv, NEW p \in Proc, PutKew(p),
         \A q \in Proc \ {p} : pc[q] = "idle"
  PROVE  Clean(p)
<1>. PICK h : h = job[p].hash
  OBVIOUS
<1>1. /\ pc[p] = "put_kew" /\ kew' = [kew EXCEPT ![h] = job[p].types]
      /\ UNCHANGED <<consistency, events, torn>>
      /\ h \in Hash /\ job[p].types \in SUBSET AttestationType
      /\ job[p].cmd \in {"compile", "attest"} /\ base[p] = None /\ TypeOK
  BY DEF PutKew, SerialInv, Inv, Knows, Job, Path, Command
<1>2. \A g \in Hash : torn[g] = {} /\ Settled(g)
  BY <1>1 DEF CleanInv, AllSettled, Between
<1>3. kew'[h] # None /\ \A g \in Hash \ {h} : kew'[g] = kew[g]
  BY <1>1, AbsenceAssumption DEF TypeOK
<1>4. \A g \in Hash \ {h} : Settled(g)'
  BY <1>1, <1>2, <1>3, SettledIsStored
<1>5. (Whole(h)' <=> Whole(h)) /\ (Blank(h)' <=> Blank(h))
  <2>1. Slots(h)' = Slots(h) /\ \A state : StateIs(h, state)' <=> StateIs(h, state)
    BY <1>1, UnchangedLog DEF SerialInv
  <2>. QED BY <1>1, <2>1 DEF Whole, Blank, Has
<1>6. CASE job[p].cmd = "compile"
  <2>1. pc'[p] = "append" /\ job'[p] = job[p] /\ base'[p] = None
    BY <1>1, <1>6 DEF PutKew, Goto, TypeOK
  <2>2. Blank(h)' \/ Whole(h)'
    BY <1>1, <1>2, <1>5 DEF Settled
  <2>. QED BY <1>1, <1>2, <1>3, <1>4, <1>6, <2>1, <2>2
       DEF Clean, Completes, Between
<1>7. CASE job[p].cmd = "attest"
  <2>1. Whole(h)
    BY <1>1, <1>2, <1>7, StateIsThere DEF SerialInv, Counts
  <2>2. Settled(h)'
    BY <1>3, <1>5, <2>1 DEF Settled
  <2>3. pc'[p] # "idle" => ~ Between(p)'
    BY <1>1, <1>7 DEF PutKew, GotoIf, Goto, Stop, Between, TypeOK
  <2>. QED BY <1>1, <1>2, <1>4, <2>2, <2>3 DEF Clean, Completes
<1>. QED BY <1>1, <1>6, <1>7

(* ml_check, from its sidecar on.                                          *)
LEMMA SidecarIsClean ==
  ASSUME SerialInv, CleanInv, NEW p \in Proc, WriteSidecar(p) \/ ReadSidecar(p),
         \A q \in Proc \ {p} : pc[q] = "idle"
  PROVE  Clean(p)
<1>. PICK h : h = job[p].hash
  OBVIOUS
<1>1. /\ pc[p] \in {"write_sidecar", "read_sidecar"} /\ h \in Hash
      /\ job[p].cmd = "ml_check" /\ TypeOK /\ UNCHANGED <<kew, events, torn>>
      /\ \A g \in Hash \ {h} : consistency'[g] = consistency[g]
  BY DEF WriteSidecar, ReadSidecar, store, SerialInv, Inv, Knows, Job, Path,
         Command, TypeOK
<1>2. \A g \in Hash : torn[g] = {} /\ (g # h => Settled(g))
  BY <1>1 DEF CleanInv, AllSettled
<1>3. \A g \in Hash \ {h} : Settled(g)'
  BY <1>1, <1>2, SettledIsStored
<1>4. kew[h] # None
  <2>1. CASE pc[p] = "write_sidecar"
    <3>1. Settled(h)
      BY <1>1, <2>1 DEF CleanInv, AllSettled, Between
    <3>. QED BY <1>1, <2>1, <3>1, StateIsThere
         DEF SerialInv, Counts, Preparing
  <2>2. CASE pc[p] = "read_sidecar"
    BY <1>1, <2>2 DEF CleanInv, Completes, Between
  <2>. QED BY <1>1, <2>1, <2>2
<1>5. /\ consistency'[h] = "present" /\ job'[p] = job[p]
      /\ pc'[p] \in {"read_sidecar", "head"}
  <2>1. CASE WriteSidecar(p)
    BY <1>1, <2>1 DEF WriteSidecar, Goto, TypeOK
  <2>2. CASE ReadSidecar(p)
    <3>1. consistency[h] = "present"
      BY <1>1, <2>2 DEF ReadSidecar, CleanInv, Completes, Between
    <3>2. Goto(p, "head")
      BY <2>2, <3>1 DEF ReadSidecar, GotoIf, CanTransition
    <3>. QED BY <1>1, <2>2, <3>1, <3>2 DEF ReadSidecar, store, Goto, TypeOK
  <2>. QED BY <2>1, <2>2
<1>. QED BY <1>1, <1>2, <1>3, <1>4, <1>5 DEF Clean, Completes, Between

(* The head is there for every command that has checked a state.           *)
LEMMA ReadHeadIsClean ==
  ASSUME SerialInv, CleanInv, NEW p \in Proc, ReadHead(p),
         \A q \in Proc \ {p} : pc[q] = "idle"
  PROVE  Clean(p)
<1>. PICK h : h = job[p].hash
  OBVIOUS
<1>1. /\ pc[p] = "head" /\ h \in Hash /\ TypeOK /\ job[p].cmd \in Command
      /\ job[p].cmd # "compile" /\ UNCHANGED <<kew, consistency, events, torn>>
  BY DEF ReadHead, store, SerialInv, Inv, Knows, Path, Job, Command
<1>2. (pc'[p] = "append" /\ job'[p] = job[p]) \/ pc'[p] = "idle"
  BY <1>1 DEF ReadHead, Stop, TypeOK
<1>3. CASE job[p].cmd = "ml_check"
  <2>1. \E state : StateIs(h, state)
    BY <1>1 DEF SerialInv, Counts, Preparing
  <2>2. Readable(h) /\ events[h] # {}
    BY <2>1 DEF StateIs
  <2>3. pc'[p] = "append" /\ job'[p] = job[p]
    BY <1>1, <2>2 DEF ReadHead, TypeOK
  <2>4. kew[h] # None /\ consistency[h] = "present"
    BY <1>1, <1>3 DEF CleanInv, Completes, Between
  <2>5. \A g \in Hash : torn[g] = {} /\ (g # h => Settled(g))
    BY DEF CleanInv, AllSettled
  <2>6. \A g \in Hash \ {h} : Settled(g)'
    BY <1>1, <2>5, SettledIsStored
  <2>. QED BY <1>1, <1>3, <2>3, <2>4, <2>5, <2>6 DEF Clean, Completes, Between
<1>4. CASE job[p].cmd # "ml_check"
  <2>1. (\A g \in Hash : torn[g] = {} /\ Settled(g))'
    BY <1>1, <1>4, SettledStays DEF Between
  <2>2. pc'[p] # "idle" => ~ Between(p)'
    BY <1>1, <1>2, <1>4 DEF Between
  <2>. QED BY <2>1, <2>2 DEF Clean, Completes
<1>. QED BY <1>3, <1>4

(* Only the draft of an artifact that has one is refused.                  *)
LEMMA CheckSlotIsClean ==
  ASSUME SerialInv, CleanInv, NEW p \in Proc, CheckSlot(p),
         \A q \in Proc \ {p} : pc[q] = "idle"
  PROVE  Clean(p)
<1>. PICK h : h = job[p].hash
  OBVIOUS
<1>1. /\ pc[p] = "append" /\ h \in Hash /\ TypeOK
      /\ UNCHANGED <<kew, consistency, events, torn>>
      /\ GotoIf(p, SlotOf(NewEvent(p)) \notin Slots(h), "write")
  BY DEF CheckSlot, store, SerialInv, Inv, Knows, Job
<1>2. \A g \in Hash : torn[g] = {} /\ (g # h => Settled(g))
  BY DEF CleanInv, AllSettled
<1>3. /\ \A g \in Hash \ {h} : Settled(g)'
      /\ (Settled(h)' <=> Settled(h)) /\ (Whole(h)' <=> Whole(h))
      /\ (Blank(h)' <=> Blank(h))
      /\ (Has(h, "ml_checked")' <=> Has(h, "ml_checked"))
  BY <1>1, <1>2, SettledIsStored
<1>4. ASSUME Goto(p, "write"), Between(p)
      PROVE  Clean(p)
  <2>1. pc'[p] = "write" /\ job'[p] = job[p] /\ base'[p] = base[p]
    BY <1>1, <1>4 DEF Goto, TypeOK
  <2>2. Between(p)' /\ job'[p].hash = h
    BY <1>1, <1>4, <2>1 DEF Between
  <2>3. Completes(p)
    BY DEF CleanInv
  <2>4. Completes(p)'
    BY <1>1, <1>3, <1>4, <2>1, <2>3 DEF Completes
  <2>. QED BY <1>1, <1>2, <1>3, <2>1, <2>2, <2>4 DEF Clean
<1>5. CASE ~ Between(p)
  <2>1. (\A g \in Hash : torn[g] = {} /\ Settled(g))'
    BY <1>1, <1>5, SettledStays
  <2>2. (pc'[p] = "write" /\ job'[p] = job[p]) \/ pc'[p] = "idle"
    BY <1>1 DEF GotoIf, Goto, Stop, TypeOK
  <2>3. pc'[p] # "idle" => ~ Between(p)'
    BY <1>1, <1>5, <2>2 DEF Between
  <2>. QED BY <2>1, <2>3 DEF Clean, Completes
<1>6. CASE Between(p) /\ HasBase(p)
  BY <1>1, <1>4, <1>6, ChainIsNew DEF GotoIf
<1>7. CASE Between(p) /\ ~ HasBase(p)
  <2>1. job[p].cmd = "compile" /\ base[p] = None
    BY <1>1, <1>7 DEF HasBase
  <2>2. kew[h] # None /\ (Blank(h) \/ Whole(h))
    BY <1>1, <1>7, <2>1 DEF CleanInv, Completes
  <2>3. CASE SlotOf(NewEvent(p)) \notin Slots(h)
    BY <1>1, <1>4, <1>7, <2>3 DEF GotoIf
  <2>4. CASE SlotOf(NewEvent(p)) \in Slots(h)
    <3>1. Whole(h) /\ pc'[p] = "idle"
      BY <1>1, <2>2, <2>4 DEF Blank, GotoIf, Stop, TypeOK
    <3>2. Settled(h)'
      BY <1>1, <1>3, <2>2, <3>1 DEF Settled
    <3>. QED BY <1>1, <1>2, <1>3, <3>1, <3>2 DEF Clean, Completes
  <2>. QED BY <2>3, <2>4
<1>. QED BY <1>5, <1>6, <1>7

(* The draft goes where nothing was; its command goes on from it.          *)
LEMMA WriteDraftIsClean ==
  ASSUME SerialInv, CleanInv, NEW p \in Proc, WriteEvent(p), ~ HasBase(p),
         \A q \in Proc \ {p} : pc[q] = "idle"
  PROVE  Clean(p)
<1>. PICK h, e : h = job[p].hash /\ e = NewEvent(p)
  OBVIOUS
<1>1. /\ pc[p] = "write" /\ TypeOK /\ UNCHANGED <<kew, consistency>>
      /\ \E d \in Written(h, e) : StoreEvent(h, d)
  BY DEF WriteEvent, SerialInv, Inv
<1>2. h \in Hash /\ job[p].cmd = "compile" /\ base[p] = None /\ Slots(h) = {}
      /\ (StoreEvent(h, e) => Created(h, e))
  BY <1>1, DraftIsFirst
<1>3. Written(h, e) = {e}
  BY <1>2, WrittenIsNew
<1>4. Created(h, e)
  BY <1>1, <1>2, <1>3
<1>5. /\ torn' = torn /\ events'[h] = {e} /\ e \in Event /\ e.kind = "draft"
      /\ \A g \in Hash \ {h} : events'[g] = events[g]
  BY <1>1, <1>2, <1>4 DEF Created, TypeOK
<1>6. pc'[p] = "append" /\ base'[p] = e /\ job'[p] = job[p]
  BY <1>1, <1>2, <1>3 DEF WriteEvent, CanTransition, TypeOK
<1>7. \A g \in Hash : torn[g] = {} /\ (g # h => Settled(g))
  BY DEF CleanInv, AllSettled
<1>8. \A g \in Hash \ {h} : Settled(g)'
  BY <1>1, <1>5, <1>7, SettledIsStored
<1>9. kew[h] # None /\ consistency[h] = None
  <2>1. kew[h] # None /\ (Blank(h) \/ Whole(h))
    BY <1>1, <1>2 DEF CleanInv, Completes, Between
  <2>2. ~ Whole(h)
    BY <1>2 DEF Whole, StateIs, Slots, Files
  <2>. QED BY <2>1, <2>2 DEF Blank
<1>10. ~ Has(h, "ml_checked")'
  <2>1. torn'[h] = {}
    BY <1>2, <1>5, <1>7
  <2>2. Slots(h)' = {SlotOf(e)}
    BY <1>5, <2>1 DEF Slots, Files
  <2>3. SlotOf(e)[2] = e.kind
    BY DEF SlotOf
  <2>. QED BY <1>5, <2>2, <2>3 DEF Has
<1>11. base'[p] # None
  BY <1>5, <1>6, AbsenceAssumption
<1>. QED BY <1>1, <1>2, <1>5, <1>6, <1>7, <1>8, <1>9, <1>10, <1>11
     DEF Clean, Completes, Between

(* The event that completes what its command has to do for the artifact.   *)
LEMMA WriteChainedIsClean ==
  ASSUME SerialInv, CleanInv, NEW p \in Proc, WriteEvent(p), HasBase(p),
         \A q \in Proc \ {p} : pc[q] = "idle"
  PROVE  Clean(p)
<1>. PICK h, e : h = job[p].hash /\ e = NewEvent(p)
  OBVIOUS
<1>1. /\ pc[p] = "write" /\ TypeOK /\ UNCHANGED <<kew, consistency>>
      /\ \E d \in Written(h, e) : StoreEvent(h, d)
  BY DEF WriteEvent, SerialInv, Inv
<1>2. h \in Hash /\ Written(h, e) = {e} /\ Last(h, base[p])
  BY <1>1, ChainIsLegal, ChainIsNew, WrittenIsNew
<1>3. Extended(h, base[p], e)
  BY <1>1, <1>2, StoredExtends
<1>4. torn' = torn /\ \A g \in Hash \ {h} : events'[g] = events[g]
  BY <1>1, <1>2, <1>3 DEF Extended, TypeOK
<1>5. \A g \in Hash : torn[g] = {} /\ (g # h => Settled(g))
  BY DEF CleanInv, AllSettled
<1>6. \A g \in Hash \ {h} : Settled(g)'
  BY <1>1, <1>4, <1>5, SettledIsStored
<1>7. pc'[p] \in {"idle", "point", "put_revocation"}
  <2>1. ~ (job[p].cmd = "compile" /\ base[p] = None)
    BY DEF HasBase
  <2>2. \/ Stop(p) \/ Goto(p, "point") \/ Goto(p, "put_revocation")
    BY <2>1, Zenon DEF WriteEvent
  <2>. QED BY <1>1, <2>2 DEF Stop, Goto, TypeOK
<1>8. /\ \E state \in LifecycleState \ {"Draft"} : StateIs(h, state)'
      /\ Has(h, "ml_checked")' <=> Has(h, "ml_checked") \/ e.kind = "ml_checked"
  BY <1>1, <1>2, <1>3, ExtendedIsWhole
<1>9. e.kind = Appends[job[p].cmd] /\ job[p].cmd \in Command
  BY <1>1, NewEventIsEventOf DEF SerialInv, Inv, Knows, Job, IsEventOf
<1>10. kew[h] # None /\ (consistency[h] # None <=> Has(h, "ml_checked")')
  <2>1. CASE job[p].cmd = "compile"
    <3>1. kew[h] # None /\ consistency[h] = None /\ ~ Has(h, "ml_checked")
      BY <1>1, <2>1 DEF CleanInv, Completes, Between, HasBase
    <3>2. e.kind = "structurally_verified"
      BY <1>9, <2>1 DEF Appends
    <3>. QED BY <1>8, <3>1, <3>2
  <2>2. CASE job[p].cmd = "ml_check"
    <3>1. kew[h] # None /\ consistency[h] = "present"
      BY <1>1, <2>2 DEF CleanInv, Completes, Between
    <3>2. e.kind = "ml_checked"
      BY <1>9, <2>2 DEF Appends
    <3>. QED BY <1>8, <3>1, <3>2, RegistryAssumption
  <2>3. CASE job[p].cmd \notin {"compile", "ml_check"}
    <3>1. Settled(h)
      BY <1>1, <1>2, <2>3 DEF CleanInv, AllSettled, Between
    <3>2. StateIs(h, base[p].new)
      BY <1>2 DEF Last, StateIs
    <3>3. kew[h] # None /\ Whole(h)
      BY <1>2, <3>1, <3>2, StateIsThere
    <3>4. e.kind # "ml_checked"
      BY <1>9, <2>3 DEF Appends, Command, TagMoved
    <3>. QED BY <1>8, <3>3, <3>4 DEF Whole
  <2>. QED BY <2>1, <2>2, <2>3
<1>11. Settled(h)'
  BY <1>1, <1>8, <1>10 DEF Settled, Whole
<1>12. pc'[p] # "idle" => ~ Between(p)'
  BY <1>7 DEF Between
<1>. QED BY <1>2, <1>4, <1>5, <1>6, <1>11, <1>12 DEF Clean, Completes

LEMMA CleanInvIsInductive ==
  ASSUME Serial, ~ Crashes, SerialInv, CleanInv, [Next]_vars
  PROVE  CleanInv'
<1>1. CASE Next
  <2>1. PICK p \in Proc : Begin(p) \/ Step(p)
    BY <1>1 DEF Next, Crash, CrashInWrite
  <2>2. \A q \in Proc \ {p} : pc[q] = "idle"
    BY <2>1, OthersAreIdle
  <2>3. Clean(p)
    BY <2>1, <2>2, BeginIsClean, ReadingIsClean, PutKewIsClean, SidecarIsClean,
       ReadHeadIsClean, CheckSlotIsClean, WriteDraftIsClean, WriteChainedIsClean
    DEF Step
  <2>4. OnlyMoves(p)
    BY <2>1, NextKeeps DEF SerialInv, Keeps
  <2>5. \A q \in Proc : Completes(q)'
    BY <2>2, <2>3, <2>4 DEF Clean, Completes, OnlyMoves
  <2>. QED BY <2>3, <2>5 DEF Clean, CleanInv, AllSettled
<1>2. CASE UNCHANGED vars
  <2>1. /\ UNCHANGED <<kew, events, torn, consistency, pc, job, base>>
    BY <1>2 DEF vars
  <2>2. \A g : /\ Settled(g)' <=> Settled(g)
               /\ Whole(g)' <=> Whole(g)
               /\ Blank(g)' <=> Blank(g)
               /\ Has(g, "ml_checked")' <=> Has(g, "ml_checked")
    BY <2>1, SettledIsStored
  <2>3. \A p : Between(p)' <=> Between(p)
    BY <2>1 DEF Between
  <2>. QED BY <2>1, <2>2, <2>3 DEF CleanInv, AllSettled, Completes
<1>. QED BY <1>1, <1>2

LEMMA InitClean == Init => CleanInv
<1>. SUFFICES ASSUME Init PROVE CleanInv
  OBVIOUS
<1>1. \A h \in Hash : /\ Slots(h) = {} /\ torn[h] = {}
                      /\ kew[h] = None /\ consistency[h] = None
  BY DEF Init, Slots, Files
<1>2. \A p \in Proc : pc[p] = "idle"
  BY DEF Init
<1>. QED BY <1>1, <1>2 DEF CleanInv, AllSettled, Settled, Blank, Completes

(* One command at a time and none stopped: between commands every stored   *)
(* artifact is past Draft, its state is readable, and its sidecar is there *)
(* exactly when its ml_checked event is, so no command of compile.rs or    *)
(* ml_check.rs leaves anything to be repaired.                             *)
THEOREM NothingStaysHalfDone ==
  ASSUME Serial, ~ Crashes
  PROVE  Spec => []NothingIsHalfDone
<1>1. SerialInv /\ CleanInv /\ [Next]_vars => SerialInv' /\ CleanInv'
  BY SerialInvIsInductive, CleanInvIsInductive
<1>2. SerialInv /\ CleanInv => NothingIsHalfDone
  BY DEF CleanInv, AllSettled, NothingIsHalfDone, Quiet, Settled, Whole, Has
<1>. QED BY InitSerial, InitClean, <1>1, <1>2, PTL DEF Spec

-----------------------------------------------------------------------------
(* The files implement the abstract lifecycle (ArtifactLifecycle). An      *)
(* artifact's abstract state is what the last decodable event of its log   *)
(* says; the proof shows which file-system call is which abstract step,    *)
(* and that every other call, completed or cut short, changes nothing an   *)
(* observer of the lifecycle can see.                                      *)

(* The abstract table is the one the commands consult.                     *)
LEMMA SameTable ==
  \A from, to : Abstract!TableEdge(from, to) <=> TableEdge(from, to)
BY DEF TableEdge, CanTransition, Precondition, Abstract!TableEdge,
       Abstract!CanTransition, Abstract!Precondition

(* In a set of events numbered apart, the highest is the only head.        *)
LEMMA TopIsUnique ==
  ASSUME NEW S, NEW e \in S, \A d \in S : d.seq \in Nat,
         \A c, d \in S : c.seq = d.seq => c = d,
         \A d \in S : d.seq <= e.seq
  PROVE  (CHOOSE c \in S : \A d \in S : d.seq <= c.seq) = e
<1>. DEFINE top == CHOOSE c \in S : \A d \in S : d.seq <= c.seq
<1>1. top \in S /\ \A d \in S : d.seq <= top.seq
  OBVIOUS
<1>2. top.seq \in Nat /\ e.seq \in Nat /\ e.seq <= top.seq /\ top.seq <= e.seq
  BY <1>1
<1>3. top.seq = e.seq
  BY <1>2
<1>. QED BY <1>1, <1>3

LEMMA StateOfLast ==
  ASSUME TypeOK, NEW h \in Hash, NEW e, Last(h, e)
  PROVE  StateOf(h) = e.new
<1>1. \A d \in events[h] : d.seq \in Nat
  BY DEF TypeOK, Event
<1>2. (CHOOSE c \in events[h] : \A d \in events[h] : d.seq <= c.seq) = e
  BY <1>1, TopIsUnique DEF Last, Readable, IsHead
<1>. QED BY <1>2 DEF Last, StateOf, IsHead

LEMMA StateOfLastNext ==
  ASSUME TypeOK', NEW h \in Hash, NEW e, Last(h, e)'
  PROVE  StateOf(h)' = e.new
<1>1. \A d \in events'[h] : d.seq \in Nat
  BY DEF TypeOK, Event
<1>2. (CHOOSE c \in events'[h] : \A d \in events'[h] : d.seq <= c.seq) = e
  BY <1>1, TopIsUnique DEF Last, Readable, IsHead
<1>. QED BY <1>2 DEF Last, StateOf, IsHead

LEMMA StateIsStateOf ==
  ASSUME TypeOK, NEW h \in Hash, NEW state, StateIs(h, state)
  PROVE  StateOf(h) = state
BY StateOfLast DEF StateIs, Last

LEMMA SameEventsSameState ==
  ASSUME NEW h, events'[h] = events[h]
  PROVE  StateOf(h)' = StateOf(h)
BY DEF StateOf, IsHead

-----------------------------------------------------------------------------
(* One call writes one file, a revocation record only while there is none  *)
(* and the artifact reads Revoked.                                         *)

LEMMA OneFileAtATime ==
  ASSUME NEW p \in Proc, Begin(p) \/ Step(p) \/ Crash(p) \/ CrashInWrite(p)
  PROVE  /\ pc[p] = "point" => UNCHANGED <<events, revocation>>
         /\ pc[p] = "write_revocation" => UNCHANGED <<events, tags>>
         /\ pc[p] \notin {"point", "write_revocation"}
              => UNCHANGED <<tags, revocation>>
<1>1. CASE Begin(p)
  BY <1>1
  DEF Begin, Start, store, StartCompile, StartMlCheck, StartAttest,
      StartPublish, StartDeprecate, StartRevoke, StartRollback
<1>2. CASE Step(p)
  BY <1>2
  DEF Step, store, PutKew, VerifyKew, CheckSidecar, WriteSidecar, ReadSidecar,
      ReadHead, CheckSlot, WriteEvent, PutPointer, CheckRevocation,
      WriteRevocation
<1>3. CASE Crash(p) \/ CrashInWrite(p)
  BY <1>3 DEF Crash, CrashInWrite, store
<1>. QED BY <1>1, <1>2, <1>3

LEMMA RecordMoves ==
  ASSUME SerialInv, NEW p \in Proc,
         Begin(p) \/ Step(p) \/ Crash(p) \/ CrashInWrite(p)
  PROVE  \/ UNCHANGED revocation
         \/ /\ job[p].hash \in Hash /\ StateIs(job[p].hash, "Revoked")
            /\ pc[p] = "write_revocation" /\ revocation[job[p].hash] = None
            /\ \E record \in Record \cup {None, Torn} :
                 revocation' = [revocation EXCEPT ![job[p].hash] = record]
<1>1. CASE pc[p] = "write_revocation"
  <2>1. /\ job[p].hash \in Hash /\ StateIs(job[p].hash, "Revoked")
        /\ revocation[job[p].hash] = None /\ job[p].record \in Record \cup {None}
    BY <1>1 DEF SerialInv, Counts, Inv, Knows, Job
  <2>2. \/ UNCHANGED revocation
        \/ \E record \in {job[p].record, Torn} :
             revocation' = [revocation EXCEPT ![job[p].hash] = record]
    <3>1. CASE Begin(p)
      BY <1>1, <3>1
      DEF Begin, Start, MayStart, StartCompile, StartMlCheck, StartAttest,
          StartPublish, StartDeprecate, StartRevoke, StartRollback
    <3>2. CASE Step(p)
      BY <1>1, <3>2
      DEF Step, PutKew, VerifyKew, CheckSidecar, WriteSidecar, ReadSidecar,
          ReadHead, CheckSlot, WriteEvent, PutPointer, CheckRevocation,
          WriteRevocation
    <3>3. CASE Crash(p) \/ CrashInWrite(p)
      BY <3>3 DEF Crash, CrashInWrite, store
    <3>. QED BY <3>1, <3>2, <3>3
  <2>. QED BY <1>1, <2>1, <2>2
<1>2. CASE pc[p] # "write_revocation"
  BY <1>2, OneFileAtATime
<1>. QED BY <1>1, <1>2

-----------------------------------------------------------------------------
(* Which abstract step each call is.                                       *)

LEMMA CreatedMaps ==
  ASSUME SerialInv, TypeOK', NEW h \in Hash, NEW e, Created(h, e),
         UNCHANGED <<tags, revocation>>
  PROVE  Abstract!Create(h)
<1>1. Last(h, e)' /\ \A g \in Hash \ {h} : events'[g] = events[g]
  BY CreatedKeeps DEF SerialInv, Inv
<1>2. StateOf(h)' = "Draft"
  BY <1>1, StateOfLastNext DEF Created
<1>3. StateOf(h) = None
  BY DEF Created, StateOf, Slots, Files
<1>4. \A g \in Hash \ {h} : StateOf(g)' = StateOf(g)
  BY <1>1, SameEventsSameState
<1>5. [g \in Hash |-> StateOf(g)]'
        = [[g \in Hash |-> StateOf(g)] EXCEPT ![h] = "Draft"]
  BY <1>2, <1>4
<1>. QED BY <1>3, <1>5 DEF Abstract!Create

LEMMA ExtendedMaps ==
  ASSUME SerialInv, TypeOK', NEW h \in Hash, NEW b, NEW e, Extended(h, b, e),
         UNCHANGED <<tags, revocation>>
  PROVE  Abstract!Advance(h, e.new) \/ UNCHANGED Abstract!vars
<1>1. Last(h, e)' /\ \A g \in Hash \ {h} : events'[g] = events[g]
  BY ExtendedKeeps DEF SerialInv, Inv
<1>2. StateOf(h)' = e.new
  BY <1>1, StateOfLastNext
<1>3. StateOf(h) = b.new
  BY StateOfLast DEF Extended, SerialInv, Inv
<1>4. \A g \in Hash \ {h} : StateOf(g)' = StateOf(g)
  BY <1>1, SameEventsSameState
<1>5. [g \in Hash |-> StateOf(g)]'
        = [[g \in Hash |-> StateOf(g)] EXCEPT ![h] = e.new]
  BY <1>2, <1>4
<1>6. CASE TableEdge(b.new, e.new)
  BY <1>3, <1>5, <1>6, SameTable DEF Abstract!Advance
<1>7. CASE b.new = e.new
  <2>1. [g \in Hash |-> StateOf(g)]' = [g \in Hash |-> StateOf(g)]
    BY <1>2, <1>3, <1>4, <1>7
  <2>. QED BY <2>1 DEF Abstract!vars
<1>. QED BY <1>6, <1>7 DEF Extended, LegalLink

LEMMA TagMaps ==
  ASSUME SerialInv, NEW h \in Hash, StateIs(h, "Published"),
         NEW tag, NEW target \in {h, Torn},
         tags' = [tags EXCEPT ![tag] = target], UNCHANGED <<events, revocation>>
  PROVE  (\E t \in Tag : Abstract!PointTag(t, h)) \/ UNCHANGED Abstract!vars
<1>1. [g \in Hash |-> StateOf(g)]' = [g \in Hash |-> StateOf(g)]
  BY SameEventsSameState
<1>2. CASE tag \in Tag
  <2>1. StateOf(h) = "Published"
    BY StateIsStateOf DEF SerialInv, Inv
  <2>2. Abstract!PointTag(tag, h)
    BY <1>1, <2>1 DEF Abstract!PointTag
  <2>. QED BY <1>2, <2>2
<1>3. CASE tag \notin Tag
  <2>1. tags' = tags
    BY <1>3 DEF SerialInv, Inv, TypeOK
  <2>. QED BY <1>1, <2>1 DEF Abstract!vars
<1>. QED BY <1>2, <1>3

LEMMA RecordMaps ==
  ASSUME SerialInv, NEW h \in Hash, StateIs(h, "Revoked"), revocation[h] = None,
         NEW record \in Record \cup {None, Torn},
         revocation' = [revocation EXCEPT ![h] = record], UNCHANGED <<events, tags>>
  PROVE  Abstract!RecordPolicy(h) \/ UNCHANGED Abstract!vars
<1>1. [g \in Hash |-> StateOf(g)]' = [g \in Hash |-> StateOf(g)]
  BY SameEventsSameState
<1>2. CASE record \in Record \cup {Torn}
  <2>1. StateOf(h) = "Revoked"
    BY StateIsStateOf DEF SerialInv, Inv
  <2>2. record \in [ policy : Abstract!RevocationPolicy,
                     class : SUBSET Abstract!ReasonClass ] \cup {Torn}
    BY <1>2 DEF Record, RevocationPolicy, ReasonClass,
                Abstract!RevocationPolicy, Abstract!ReasonClass
  <2>. QED BY <1>1, <2>1, <2>2 DEF Abstract!RecordPolicy
<1>3. CASE record = None
  <2>1. revocation' = revocation
    BY <1>3 DEF SerialInv, Inv, TypeOK
  <2>. QED BY <1>1, <2>1 DEF Abstract!vars
<1>. QED BY <1>2, <1>3

LEMMA StepMaps ==
  ASSUME SerialInv, NEW p \in Proc,
         Begin(p) \/ Step(p) \/ Crash(p) \/ CrashInWrite(p)
  PROVE  Abstract!Next \/ UNCHANGED Abstract!vars
<1>. PICK h : h = job[p].hash
  OBVIOUS
<1>1. TypeOK' /\ LogStep(p)
  BY NextKeeps, NextCounts DEF SerialInv, Keeps, SerialKeeps
<1>2. CASE UNCHANGED <<tags, revocation>>
  <2>1. CASE events' = events
    <3>1. [g \in Hash |-> StateOf(g)]' = [g \in Hash |-> StateOf(g)]
      BY <2>1, SameEventsSameState
    <3>. QED BY <1>2, <3>1 DEF Abstract!vars
  <2>2. CASE events' # events
    <3>0. pc[p] = "write"
      <4>1. CASE Begin(p)
        BY <2>2, <4>1
        DEF Begin, Start, store, StartCompile, StartMlCheck, StartAttest,
            StartPublish, StartDeprecate, StartRevoke, StartRollback
      <4>2. CASE Step(p)
        BY <2>2, <4>2
        DEF Step, store, PutKew, VerifyKew, CheckSidecar, WriteSidecar,
            ReadSidecar, ReadHead, CheckSlot, WriteEvent, PutPointer,
            CheckRevocation, WriteRevocation
      <4>3. CASE Crash(p) \/ CrashInWrite(p)
        BY <2>2, <4>3 DEF Crash, CrashInWrite, store
      <4>. QED BY <4>1, <4>2, <4>3
    <3>1. h \in Hash
      BY <3>0 DEF SerialInv, Inv, Knows, Job
    <3>2. (\E e : Created(h, e)) \/ (\E e : Extended(h, base[p], e))
      BY <1>1, <2>2 DEF LogStep, Truncated
    <3>3. CASE \E e : Created(h, e)
      BY <1>1, <1>2, <3>1, <3>3, CreatedMaps DEF Abstract!Next
    <3>4. CASE \E e : Extended(h, base[p], e)
      <4>1. PICK e : Extended(h, base[p], e)
        BY <3>4
      <4>2. e.new \in Abstract!LifecycleState
        BY <4>1 DEF Extended, Event, LifecycleState, Abstract!LifecycleState
      <4>. QED BY <1>1, <1>2, <3>1, <4>1, <4>2, ExtendedMaps DEF Abstract!Next
    <3>. QED BY <3>2, <3>3, <3>4
  <2>. QED BY <2>1, <2>2
<1>3. CASE ~ UNCHANGED tags
  <2>1. PICK target \in {job[p].hash, Torn} :
          /\ job[p].hash \in Hash /\ StateIs(job[p].hash, "Published")
          /\ tags' = [tags EXCEPT ![job[p].tag] = target]
          /\ UNCHANGED <<events, revocation>>
    BY <1>3, TagMoves, OneFileAtATime
  <2>. QED BY <2>1, TagMaps DEF Abstract!Next
<1>4. CASE ~ UNCHANGED revocation
  <2>1. PICK record \in Record \cup {None, Torn} :
          /\ job[p].hash \in Hash /\ StateIs(job[p].hash, "Revoked")
          /\ revocation[job[p].hash] = None
          /\ revocation' = [revocation EXCEPT ![job[p].hash] = record]
          /\ UNCHANGED <<events, tags>>
    BY <1>4, RecordMoves, OneFileAtATime
  <2>. QED BY <2>1, RecordMaps DEF Abstract!Next
<1>. QED BY <1>2, <1>3, <1>4

-----------------------------------------------------------------------------
(* Every file-system call of every command, completed or cut short, is a   *)
(* step of the abstract lifecycle or leaves it unchanged: with one command *)
(* at a time, the files and their event logs implement the state machine   *)
(* that mod.rs documents.                                                  *)
THEOREM FilesImplementLifecycle ==
  ASSUME Serial
  PROVE  Spec => ImplementsLifecycle
<1>1. Init => Abstract!Init
  BY DEF Init, Abstract!Init, StateOf
<1>2. SerialInv /\ [Next]_vars => [Abstract!Next]_(Abstract!vars)
  <2>1. ASSUME SerialInv, Next
        PROVE  Abstract!Next \/ UNCHANGED Abstract!vars
    BY <2>1, StepMaps DEF Next
  <2>2. ASSUME UNCHANGED vars
        PROVE  UNCHANGED Abstract!vars
    <3>1. [g \in Hash |-> StateOf(g)]' = [g \in Hash |-> StateOf(g)]
      BY <2>2, SameEventsSameState DEF vars
    <3>. QED BY <2>2, <3>1 DEF vars, Abstract!vars
  <2>. QED BY <2>1, <2>2
<1>. QED BY SerialInvariance, <1>1, <1>2, PTL
     DEF Spec, ImplementsLifecycle, Abstract!Spec

=============================================================================
