--------------------------- MODULE RegistryReaders ---------------------------
(***************************************************************************)
(* The readers of the registry, beside the commands that change it:        *)
(* resolution (`ke query`, GET /resolve), the provenance export, POST      *)
(* /verify of the server, and the graph export. A reader takes no lock     *)
(* and no snapshot: it makes one file-system read after another while      *)
(* commands write. One action is one read together with the decision made  *)
(* on its result; listing a directory and decoding what it lists is one.   *)
(*                                                                         *)
(* Sets of addresses are walked in the order of their bytes, which is as   *)
(* good as any for model values: each step takes an arbitrary member.      *)
(***************************************************************************)
EXTENDS Registry

CONSTANTS
  Reader,   \* reading processes, and requests to the server
  Query,    \* regime-and-date pairs a reader may ask for
  Covers    \* the queries that the manifest of each artifact answers

ASSUME ReadersAssumption == Covers \in [Hash -> SUBSET Query]

VARIABLES
  at,       \* the read each reader makes next
  ask,      \* what it was asked
  todo,     \* the addresses it has not come to yet
  hits,     \* the addresses that matched, or were exported
  saw,      \* what it has read of the artifact at hand
  answer    \* what it returned, until its next request

readers == <<at, ask, todo, hits, saw, answer>>
allVars == <<kew, events, torn, consistency, revocation, tags, pc, job, base,
             at, ask, todo, hits, saw, answer>>

How == { "hash", "tag", "regime", "provenance", "verify", "graph" }

(* The event a log reads as its head; None for an empty log.               *)
HeadOf(h) ==
  IF events[h] = {} THEN None ELSE CHOOSE e \in events[h] : IsHead(h, e)

(* status_for: what a lifecycle state is to a consumer.                    *)
StatusFor(e) ==
  IF e # None /\ e.new \in {"Published", "Deprecated", "Revoked"}
  THEN e.new ELSE "Unknown"

Nothing == [ hash |-> None, types |-> None, event |-> None, head |-> None ]

Reply(what) ==
  [ what |-> what, how |-> None, hash |-> None, state |-> None, head |-> None,
    record |-> None, exported |-> {} ]

-----------------------------------------------------------------------------
(* Control of a reader.                                                    *)

Answer(r, reply) ==
  /\ answer' = [answer EXCEPT ![r] = [reply EXCEPT !.how = ask[r].how]]
  /\ at'   = [at   EXCEPT ![r] = "idle"]
  /\ ask'  = [ask  EXCEPT ![r] = None]
  /\ todo' = [todo EXCEPT ![r] = {}]
  /\ hits' = [hits EXCEPT ![r] = {}]
  /\ saw'  = [saw  EXCEPT ![r] = Nothing]

(* An error, of any kind, about the artifact at hand.                      *)
Fail(r, what) == Answer(r, [Reply(what) EXCEPT !.hash = saw[r].hash])

GoOn(r, label, seen) ==
  /\ at'  = [at  EXCEPT ![r] = label]
  /\ saw' = [saw EXCEPT ![r] = seen]
  /\ UNCHANGED <<ask, todo, hits, answer>>

Ask(r, how, h, arg, label) ==
  /\ at[r] = "idle"
  /\ at'  = [at  EXCEPT ![r] = label]
  /\ ask' = [ask EXCEPT ![r] = [ how |-> how, arg |-> arg ]]
  /\ saw' = [saw EXCEPT ![r] = [Nothing EXCEPT !.hash = h]]
  /\ answer' = [answer EXCEPT ![r] = None]
  /\ UNCHANGED <<todo, hits>>

-----------------------------------------------------------------------------
(* resolve: by hash, by tag, by regime and date.                           *)

AskByHash(r) == \E h \in Hash : Ask(r, "hash", h, None, "log")
AskByTag(r)  == \E t \in Tag : Ask(r, "tag", None, t, "pointer")
AskByRegime(r) == \E q \in Query : Ask(r, "regime", None, q, "list")

ReadPointer(r) ==
  /\ at[r] = "pointer"
  /\ LET target == tags[ask[r].arg] IN
     CASE target = None -> Fail(r, "not_found")
       [] target = Torn -> Fail(r, "error")
       [] OTHER -> GoOn(r, "log", [saw[r] EXCEPT !.hash = target])

Stored == { h \in Hash : kew[h] # None }

(* list_manifests decodes every stored artifact, or fails.                 *)
ManifestsDecode == \A h \in Hash : kew[h] # Torn

(* The candidates are all looked at: none, one or several are Published.   *)
Candidates(r, left, found) ==
  IF left # {}
  THEN /\ at' = [at EXCEPT ![r] = "candidate"]
       /\ todo' = [todo EXCEPT ![r] = left]
       /\ hits' = [hits EXCEPT ![r] = found]
       /\ UNCHANGED <<ask, saw, answer>>
  ELSE \/ /\ found = {}
          /\ Fail(r, "not_found")
       \/ \E h \in found :
            /\ found = {h}
            /\ at' = [at EXCEPT ![r] = "log"]
            /\ todo' = [todo EXCEPT ![r] = {}]
            /\ hits' = [hits EXCEPT ![r] = {}]
            /\ saw' = [saw EXCEPT ![r].hash = h]
            /\ UNCHANGED <<ask, answer>>
       \/ /\ \E g, h \in found : g # h
          /\ Fail(r, "ambiguous")

ListCandidates(r) ==
  /\ at[r] = "list"
  /\ IF ManifestsDecode
     THEN Candidates(r, { h \in Stored : ask[r].arg \in Covers[h] }, {})
     ELSE Fail(r, "error")

(* Mutant: any candidate that is past Draft is taken.                      *)
ReadCandidateAnyState(r) ==
  /\ at[r] = "candidate"
  /\ \E h \in todo[r] :
       IF Readable(h)
       THEN Candidates(r, todo[r] \ {h},
                       hits[r] \cup {g \in {h} : ~ StateIs(g, "Draft")})
       ELSE Fail(r, "error")

ReadCandidate(r) ==
  /\ at[r] = "candidate"
  /\ \E h \in todo[r] :
       IF Readable(h)
       THEN Candidates(r, todo[r] \ {h},
                       hits[r] \cup {g \in {h} : StateIs(g, "Published")})
       ELSE Fail(r, "error")

(* The log is read (again, by regime), for the state that is reported.     *)
ReadLog(r) ==
  /\ at[r] = "log"
  /\ LET h == saw[r].hash IN
     CASE ~ Readable(h) -> Fail(r, "error")
       [] Readable(h) /\ events[h] = {} -> Fail(r, "not_found")
       [] OTHER -> GoOn(r, "manifest", [saw[r] EXCEPT !.event = HeadOf(h)])

Resolved(r, record) ==
  Answer(r, [Reply("record") EXCEPT !.hash = saw[r].hash,
                                    !.state = saw[r].event.new,
                                    !.record = record])

(* Mutant: the sidecar is read whatever the state is.                      *)
FindManifestAlwaysRecord(r) ==
  /\ at[r] = "manifest"
  /\ CASE ~ ManifestsDecode -> Fail(r, "error")
       [] ManifestsDecode /\ saw[r].hash \notin Stored -> Fail(r, "not_found")
       [] OTHER -> GoOn(r, "record", saw[r])

(* verify_resolved_artifact: find its manifest among all that are stored.  *)
FindManifest(r) ==
  /\ at[r] = "manifest"
  /\ CASE ~ ManifestsDecode -> Fail(r, "error")
       [] ManifestsDecode /\ saw[r].hash \notin Stored -> Fail(r, "not_found")
       [] OTHER -> IF saw[r].event.new = "Revoked"
                   THEN GoOn(r, "record", saw[r])
                   ELSE Resolved(r, None)

(* read_revocation, for a state that was Revoked.                          *)
ReadRecord(r) ==
  /\ at[r] = "record"
  /\ LET record == revocation[saw[r].hash] IN
     IF record = Torn THEN Fail(r, "error") ELSE Resolved(r, record)

-----------------------------------------------------------------------------
(* Registry evidence: the provenance export, /verify, the graph export.    *)

(* `strict` and `permissive` of /verify; the strict policy is that of the  *)
(* rule-shaped kinds, whatever the kind of the artifact.                   *)
ServePolicy == { PolicyForKind("RegimePack"), PermissivePolicy }

AskProvenance(r) == \E h \in Hash : Ask(r, "provenance", h, None, "bytes")
AskVerify(r) ==
  \E h \in Hash, required \in ServePolicy : Ask(r, "verify", h, required, "bytes")
AskGraph(r) == Ask(r, "graph", None, None, "addresses")

(* The next address of a graph export, or its end.                         *)
Addresses(r, left, exported) ==
  IF left # {}
  THEN \E h \in left :
         /\ at' = [at EXCEPT ![r] = "bytes"]
         /\ todo' = [todo EXCEPT ![r] = left \ {h}]
         /\ hits' = [hits EXCEPT ![r] = exported]
         /\ saw' = [saw EXCEPT ![r] = [Nothing EXCEPT !.hash = h]]
         /\ UNCHANGED <<ask, answer>>
  ELSE Answer(r, [Reply("graph") EXCEPT !.exported = exported])

ListAddresses(r) ==
  /\ at[r] = "addresses"
  /\ Addresses(r, Stored, {})

(* read_artifact_kew and decode. A graph export refuses an artifact it     *)
(* cannot read or decode and goes on; /verify decodes only later.          *)
ReadBytes(r) ==
  /\ at[r] = "bytes"
  /\ LET bytes == kew[saw[r].hash]
         how == ask[r].how
     IN  CASE how = "graph" /\ bytes \in {None, Torn} ->
                Addresses(r, todo[r], hits[r])
           [] how # "graph" /\ bytes = None -> Fail(r, "not_found")
           [] how = "provenance" /\ bytes = Torn -> Fail(r, "error")
           [] OTHER -> GoOn(r, "status", [saw[r] EXCEPT !.types = bytes])

(* verify_artifact: the attestation set, then the registry state.          *)
Passes(h, seen, required) ==
  /\ SetVerifies(seen.types, required, KindOf[h])
  /\ StatusFor(seen.event) = "Published"

Verdict(r, seen, record) ==
  Answer(r, [Reply(IF Passes(seen.hash, seen, ask[r].arg)
                   THEN "verified" ELSE "rejected")
               EXCEPT !.hash = seen.hash, !.state = StatusFor(seen.event),
                      !.head = seen.head, !.record = record])

(* With its evidence complete, a reader decides.                           *)
Decide(r, seen) ==
  CASE ask[r].how = "provenance" ->
         Answer(r, [Reply("evidence") EXCEPT !.hash = seen.hash,
                      !.state = StatusFor(seen.event), !.head = seen.head])
    [] ask[r].how = "verify" ->
         CASE seen.types = Torn -> Fail(r, "error")
           [] seen.types # Torn /\ StatusFor(seen.event) = "Revoked" ->
                GoOn(r, "policy", seen)
           [] OTHER -> Verdict(r, seen, None)
    [] ask[r].how = "graph" ->
         Addresses(r, todo[r], hits[r] \cup
           { h \in {seen.hash} : Passes(h, seen, PolicyForKind(KindOf[h])) })

(* read_registry_evidence, first reading: the status.                      *)
ReadStatus(r) ==
  /\ at[r] = "status"
  /\ LET h == saw[r].hash
         seen == [saw[r] EXCEPT !.event = HeadOf(h)]
     IN  CASE ~ Readable(h) -> Fail(r, "error")
           [] Readable(h) /\ events[h] = {} -> Decide(r, seen)
           [] OTHER -> GoOn(r, "head", seen)

(* Mutant: the status is taken from the second reading, the head from the  *)
(* first.                                                                  *)
ReadHeadSwapped(r) ==
  /\ at[r] = "head"
  /\ LET h == saw[r].hash IN
     IF Readable(h) /\ events[h] # {}
     THEN Decide(r, [saw[r] EXCEPT !.head = saw[r].event, !.event = HeadOf(h)])
     ELSE Fail(r, "error")

(* Second reading, head_event: the chain hash, of the head there is now.   *)
ReadHeadAgain(r) ==
  /\ at[r] = "head"
  /\ LET h == saw[r].hash IN
     IF Readable(h) /\ events[h] # {}
     THEN Decide(r, [saw[r] EXCEPT !.head = HeadOf(h)])
     ELSE Fail(r, "error")

(* /verify of an artifact seen Revoked: its sidecar.                       *)
ReadPolicy(r) ==
  /\ at[r] = "policy"
  /\ LET record == revocation[saw[r].hash] IN
     IF record = Torn THEN Fail(r, "error") ELSE Verdict(r, saw[r], record)

-----------------------------------------------------------------------------
ReadersInit ==
  /\ at = [r \in Reader |-> "idle"]
  /\ ask = [r \in Reader |-> None]
  /\ todo = [r \in Reader |-> {}]
  /\ hits = [r \in Reader |-> {}]
  /\ saw = [r \in Reader |-> Nothing]
  /\ answer = [r \in Reader |-> None]

NewRequest(r) ==
  \/ AskByHash(r) \/ AskByTag(r) \/ AskByRegime(r)
  \/ AskProvenance(r) \/ AskVerify(r) \/ AskGraph(r)

Read(r) ==
  \/ ReadPointer(r) \/ ListCandidates(r) \/ ReadCandidate(r)
  \/ ReadLog(r) \/ FindManifest(r) \/ ReadRecord(r)
  \/ ListAddresses(r) \/ ReadBytes(r) \/ ReadStatus(r)
  \/ ReadHeadAgain(r) \/ ReadPolicy(r)

ReadersNext ==
  \/ Next /\ UNCHANGED readers
  \/ \E r \in Reader : (NewRequest(r) \/ Read(r)) /\ UNCHANGED vars

ReadersSpec == Init /\ ReadersInit /\ [][ReadersNext]_allVars

=============================================================================
