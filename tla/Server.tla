------------------------------- MODULE Server -------------------------------
(***************************************************************************)
(* `ke serve`: clients, the one loop that takes their requests in turn,    *)
(* and the handlers it calls. Requests are queued by tiny_http as their    *)
(* heads arrive; the body of a POST is read by the handler, which waits    *)
(* for it. A handler makes its registry reads one by one while commands    *)
(* write; of the registry, a server tells apart only what decides a        *)
(* status: which artifacts there are and which files cannot be read (the   *)
(* readers' answers themselves are in RegistryReaders). Whether a request  *)
(* parses, rules compile, facts load or a regime has matches is data: a    *)
(* handler that asks may find it either way.                               *)
(***************************************************************************)
EXTENDS Naturals, Sequences

CONSTANTS
  Client,   \* connections
  Hash,     \* artifacts
  Asked,    \* those of them that requests name
  Within,   \* bound: the conditions each artifact is followed through
  None      \* no client, no answer

VARIABLES
  store,    \* what there is of each artifact
  request,  \* what each client waits for; None when it waits for nothing
  body,     \* how much of its body has arrived
  queue,    \* clients in the order their requests were received
  serving,  \* the client the loop is busy with
  step,     \* what its handler does next
  said      \* the last response, until the loop takes another request

vars == <<store, request, body, queue, serving, step, said>>

(* artifact.kew: torn, it does not decode; mended, it was torn and has     *)
(* been written again. The log: broken, it cannot be read; revoked and     *)
(* blurred, its head is Revoked, and when blurred the revocation sidecar   *)
(* cannot be read.                                                         *)
Condition == [ kew : {"absent", "good", "torn", "mended"},
               log : {"empty", "good", "revoked", "blurred", "broken"} ]

Plain == { "events", "healthz", "elsewhere" }
Posted == { "verify", "preview", "dryrun" }
Request == [ route : Plain \cup {"preview", "dryrun"}, hash : {None} ]
           \cup [ route : {"resolve", "verify", "dryrun"}, hash : Asked ]

ASSUME ServerAssumption ==
  /\ Asked \subseteq Hash
  /\ Within \in [Hash -> SUBSET Condition]
  /\ None \notin Request

(* ServeError::from and its constructors: the status of each kind.         *)
Status(kind) ==
  CASE kind = "ok" -> 200
    [] kind \in {"bad_request", "artifact_decode"} -> 400
    [] kind = "not_found" -> 404
    [] kind = "ambiguous" -> 409
    [] kind \in {"compile_error", "facts_error"} -> 422
    [] kind = "internal" -> 500

Init ==
  /\ store = [h \in Hash |-> [ kew |-> "absent", log |-> "empty" ]]
  /\ request = [c \in Client |-> None]
  /\ body = [c \in Client |-> "none"]
  /\ queue = <<>>
  /\ serving = None
  /\ step = "idle"
  /\ said = None

-----------------------------------------------------------------------------
(* The commands, as a server sees them: an artifact is stored, then its    *)
(* events; a write that is stopped, or under way, leaves a file that does  *)
(* not decode; compiling again replaces a torn artifact.                   *)

Becomes(h, condition) ==
  /\ condition \in Within[h]
  /\ store' = [store EXCEPT ![h] = condition]
  /\ UNCHANGED <<request, body, queue, serving, step, said>>

PutArtifact(h) ==
  \/ store[h].kew = "absent" /\ Becomes(h, [store[h] EXCEPT !.kew = "good"])
  \/ store[h].kew = "torn" /\ Becomes(h, [store[h] EXCEPT !.kew = "mended"])

AppendEvent(h) ==
  /\ store[h].kew \in {"good", "mended"}
  /\ \/ store[h].log = "empty" /\ Becomes(h, [store[h] EXCEPT !.log = "good"])
     \/ store[h].log = "good" /\ Becomes(h, [store[h] EXCEPT !.log = "revoked"])

TearFile(h) ==
  \/ store[h].kew # "torn" /\ Becomes(h, [store[h] EXCEPT !.kew = "torn"])
  \/ /\ store[h].kew # "absent" /\ store[h].log \in {"empty", "good"}
     /\ Becomes(h, [store[h] EXCEPT !.log = "broken"])
  \/ store[h].log = "revoked" /\ Becomes(h, [store[h] EXCEPT !.log = "blurred"])

-----------------------------------------------------------------------------
(* The clients and tiny_http.                                              *)

Send(c) ==
  /\ request[c] = None
  /\ \E q \in Request :
       /\ request' = [request EXCEPT ![c] = q]
       /\ body' = [body EXCEPT ![c] = IF q.route \in Posted
                                      THEN "arriving" ELSE "none"]
  /\ queue' = Append(queue, c)
  /\ UNCHANGED <<store, serving, step, said>>

Arrive(c) ==
  /\ body[c] = "arriving"
  /\ body' = [body EXCEPT ![c] = "whole"]
  /\ UNCHANGED <<store, request, queue, serving, step, said>>

(* A client goes away. Its request stays queued: its body is cut short and *)
(* writing to it fails.                                                    *)
Drop(c) ==
  /\ request[c] # None
  /\ body[c] # "cut"
  /\ body' = [body EXCEPT ![c] = "cut"]
  /\ UNCHANGED <<store, request, queue, serving, step, said>>

-----------------------------------------------------------------------------
(* The loop.                                                               *)

GoOn(label) ==
  /\ step' = label
  /\ UNCHANGED <<store, request, body, queue, serving, said>>

(* request.respond: to a client that is gone it fails, which is logged     *)
(* only. Either way the loop is ready for the next request.                *)
Respond(kind) ==
  LET c == serving IN
  /\ said' = [ request |-> request[c], kind |-> kind ]
  /\ request' = [request EXCEPT ![c] = None]
  /\ body' = [body EXCEPT ![c] = "none"]
  /\ serving' = None
  /\ step' = "idle"
  /\ UNCHANGED <<store, queue>>

(* Mutant: the newest request first.                                       *)
TakeNewest ==
  /\ step = "idle"
  /\ queue # <<>>
  /\ serving' = queue[Len(queue)]
  /\ queue' = SubSeq(queue, 1, Len(queue) - 1)
  /\ step' = "route"
  /\ said' = None
  /\ UNCHANGED <<store, request, body>>

(* incoming_requests: the oldest one.                                      *)
Take ==
  /\ step = "idle"
  /\ queue # <<>>
  /\ serving' = Head(queue)
  /\ queue' = Tail(queue)
  /\ step' = "route"
  /\ said' = None
  /\ UNCHANGED <<store, request, body>>

At(label, routes) == step = label /\ request[serving].route \in routes

(* The artifact the request names.                                         *)
Named == request[serving].hash

(* route: what needs neither the registry nor a body is answered at once.  *)
Route ==
  \/ At("route", {"events", "healthz"}) /\ Respond("ok")
  \/ At("route", {"elsewhere"}) /\ Respond("not_found")
  \/ At("route", Posted) /\ GoOn("body")
  \/ At("route", {"resolve"}) /\ Respond("bad_request")
  \/ At("route", {"resolve"}) /\ \E how \in {"log", "pointer", "regime"} : GoOn(how)

-----------------------------------------------------------------------------
(* registry_resolve.                                                       *)

(* list_manifests decodes every stored artifact, or fails.                 *)
ManifestsDecode == \A h \in Hash : store[h].kew # "torn"

(* By tag: no pointer, one that cannot be read, or one to the artifact.    *)
ReadPointer ==
  /\ step = "pointer"
  /\ Respond("not_found") \/ Respond("internal") \/ GoOn("log")

(* By regime: every matching artifact's log is read; none, one or several  *)
(* are Published.                                                          *)
ListCandidates ==
  /\ step = "regime"
  /\ \/ ~ ManifestsDecode /\ Respond("artifact_decode")
     \/ ManifestsDecode /\
        \/ (\E h \in Hash : store[h].log = "broken") /\ Respond("internal")
        \/ Respond("not_found") \/ Respond("ambiguous")
        \/ store[Named].log = "good" /\ GoOn("log")

ReadLog ==
  /\ step = "log"
  /\ CASE store[Named].log = "broken" -> Respond("internal")
       [] store[Named].log = "empty" -> Respond("not_found")
       [] store[Named].log = "good" -> GoOn("manifest")
       [] OTHER -> GoOn("manifest of revoked")

(* What each caller does with what it has read.                            *)
Resolved ==
  \/ At(step, {"resolve", "verify"}) /\ Respond("ok")
  \/ At(step, {"dryrun"}) /\ GoOn("bytes")

(* verify_resolved_artifact.                                               *)
FindManifest ==
  /\ step \in {"manifest", "manifest of revoked"}
  /\ CASE ~ ManifestsDecode -> Respond("artifact_decode")
       [] ManifestsDecode /\ step = "manifest" -> Resolved
       [] OTHER -> GoOn("sidecar")

(* read_revocation, for a state that was Revoked.                          *)
ReadSidecar ==
  /\ step = "sidecar"
  /\ IF store[Named].log = "blurred" THEN Respond("internal") ELSE Resolved

-----------------------------------------------------------------------------
(* The handlers of POST requests. A body that was cut short does not parse *)
(* or cannot be read.                                                      *)

(* Mutant: the artifact to verify is resolved first.                       *)
ReadBodyThenResolve ==
  /\ step = "body"
  /\ body[serving] # "arriving"
  /\ \/ Respond("bad_request")
     \/ body[serving] = "whole" /\
        \/ At("body", {"verify"}) /\ GoOn("manifest")
        \/ At("body", {"dryrun"}) /\ Named # None /\ GoOn("log")
        \/ At("body", {"preview", "dryrun"}) /\ Named = None /\ GoOn("source")

(* Mutant: a dry run reads the artifact without resolving it.              *)
ReadBodyNoResolve ==
  /\ step = "body"
  /\ body[serving] # "arriving"
  /\ \/ Respond("bad_request")
     \/ body[serving] = "whole" /\
        \/ At("body", {"verify", "dryrun"}) /\ Named # None /\ GoOn("bytes")
        \/ At("body", {"preview", "dryrun"}) /\ Named = None /\ GoOn("source")

(* read_body waits for the body; then its JSON and its hash are parsed. A  *)
(* dry run takes rules inline or by hash.                                  *)
ReadBody ==
  /\ step = "body"
  /\ body[serving] # "arriving"
  /\ \/ Respond("bad_request")
     \/ body[serving] = "whole" /\
        \/ At("body", {"verify"}) /\ GoOn("bytes")
        \/ At("body", {"dryrun"}) /\ Named # None /\ GoOn("log")
        \/ At("body", {"preview", "dryrun"}) /\ Named = None /\ GoOn("source")

(* compile_rules of inline source; a preview needs no facts.               *)
CompileSource ==
  /\ step = "source"
  /\ \/ Respond("compile_error")
     \/ At("source", {"preview"}) /\ Respond("ok")
     \/ At("source", {"dryrun"}) /\ GoOn("facts")

(* read_artifact_kew; a dry run decodes, and takes no intent spec.         *)
ReadBytes ==
  /\ step = "bytes"
  /\ LET torn == store[Named].kew = "torn" IN
     \/ store[Named].kew = "absent" /\ Respond("not_found")
     \/ store[Named].kew # "absent" /\
        \/ /\ At("bytes", {"verify"})
           /\ GoOn(IF torn THEN "evidence for torn" ELSE "evidence")
        \/ At("bytes", {"dryrun"}) /\ torn /\ Respond("artifact_decode")
        \/ At("bytes", {"dryrun"}) /\ ~ torn /\ (Respond("bad_request") \/ GoOn("facts"))

(* facts_from_json, and the evaluation of every rule.                      *)
LoadFacts ==
  /\ step = "facts"
  /\ Respond("facts_error") \/ Respond("ok")

(* registry_evidence, and run_verify on the bytes that were read: they do  *)
(* not decode, the policy has no such name, or there is a verdict (a       *)
(* rejection is an answer too), with the sidecar of a revoked artifact.    *)
VerifyBytes ==
  /\ step \in {"evidence", "evidence for torn"}
  /\ CASE store[Named].log = "broken" -> Respond("internal")
       [] store[Named].log # "broken" /\ step = "evidence for torn" ->
            Respond("artifact_decode")
       [] OTHER -> \/ Respond("bad_request")
                   \/ IF store[Named].log \in {"revoked", "blurred"}
                      THEN GoOn("sidecar") ELSE Respond("ok")

-----------------------------------------------------------------------------
Handle ==
  \/ Take \/ Route \/ ReadPointer \/ ListCandidates \/ ReadLog
  \/ FindManifest \/ ReadSidecar \/ ReadBody \/ CompileSource
  \/ ReadBytes \/ LoadFacts \/ VerifyBytes

Command == \E h \in Hash : PutArtifact(h) \/ AppendEvent(h) \/ TearFile(h)

Next ==
  \/ Handle
  \/ Command
  \/ \E c \in Client : Send(c) \/ Arrive(c) \/ Drop(c)

(* The process is scheduled while it has work, and a body that was begun   *)
(* arrives unless its client goes away: connections do not hang.           *)
Fairness ==
  /\ WF_vars(Handle)
  /\ \A c \in Client : WF_vars(Arrive(c))

Spec == Init /\ [][Next]_vars /\ Fairness

-----------------------------------------------------------------------------
(* Correctness.                                                            *)

(* POST /verify reads only the files of the artifact it names: it answers  *)
(* with an undecodable artifact or an internal error only if a file of     *)
(* that artifact was damaged, whatever happened to the others (resolve and *)
(* dry-run decode every artifact there is, and do not promise this).       *)
VerifyFailsForItsOwn ==
  ( /\ said # None
    /\ said.request.route = "verify"
    /\ Status(said.kind) = 500 \/ said.kind = "artifact_decode" ) =>
  LET files == store[said.request.hash]
  IN  files.kew \in {"torn", "mended"} \/ files.log \in {"broken", "blurred"}

(* The dry run of a stored artifact and a resolution answer only for an    *)
(* artifact with a lifecycle: one whose bytes are stored and whose draft   *)
(* event is not, as between two calls of a compile, is not found.          *)
AnswersAreOfRecorded ==
  ( /\ said # None
    /\ said.request.route \in {"resolve", "dryrun"}
    /\ said.request.hash # None
    /\ Status(said.kind) \in {200, 422} ) =>
  store[said.request.hash].log # "empty"

(* Every request is answered, whatever the others send and whoever goes    *)
(* away, as long as the bodies that were begun arrive: the loop serves one *)
(* request at a time, and it waits for a body.                             *)
EveryRequestIsAnswered ==
  \A c \in Client : request[c] # None ~> request[c] = None

=============================================================================
