---------------------------- MODULE ServerProofs ----------------------------
(***************************************************************************)
(* What the answers of `ke serve` rest on, for any number of clients and   *)
(* artifacts: the loop loses no request, and what a handler has read of    *)
(* the artifact it is asked about stays true until it answers.             *)
(***************************************************************************)
EXTENDS Server, TLAPS

TypeInv ==
  /\ store \in [Hash -> Condition]
  /\ request \in [Client -> Request \cup {None}]
  /\ body \in [Client -> {"none", "arriving", "whole", "cut"}]
  /\ queue \in Seq(Client)

(* A client that waits is served, or queued once, and never both.          *)
QueueInv ==
  /\ \A i \in 1..Len(queue) : request[queue[i]] # None
  /\ \A i, j \in 1..Len(queue) : queue[i] = queue[j] => i = j
  /\ step # "idle" =>
       /\ serving \in Client
       /\ request[serving] # None
       /\ \A i \in 1..Len(queue) : queue[i] # serving

(* What the handler of a request has established where it is.              *)
HandlerInv ==
  step # "idle" =>
    /\ request[serving].route = "verify" =>
         step \in {"route", "body", "bytes", "evidence", "evidence for torn", "sidecar"}
    /\ step \in {"evidence", "evidence for torn"} => request[serving].route = "verify"
    /\ step = "source" => Named = None
    /\ step = "evidence for torn" => store[Named].kew \in {"torn", "mended"}
    /\ /\ request[serving].route \in {"resolve", "dryrun"} /\ Named # None
       /\ step \in {"manifest", "manifest of revoked", "sidecar", "bytes", "facts"}
       => store[Named].log # "empty"

AnswerInv ==
  /\ said # None => said.request \in Request
  /\ VerifyFailsForItsOwn
  /\ AnswersAreOfRecorded

Inv == TypeInv /\ QueueInv /\ HandlerInv /\ AnswerInv

-----------------------------------------------------------------------------
(* The facts about a request that every step of its handler relies on: it  *)
(* is one, and the artifact it names, if it names one, is stored or not.   *)
LEMMA RequestsAre ==
  ASSUME NEW q \in Request
  PROVE  /\ q # None
         /\ q.route \in {"resolve", "verify"} => q.hash \in Hash
         /\ q.hash # None => q.hash \in Hash
BY ServerAssumption DEF Request, Plain

(* The loop starts with nothing (run, before incoming_requests).           *)
LEMMA InitInv == Init => Inv
<1>. SUFFICES ASSUME Init PROVE Inv
  OBVIOUS
<1>1. TypeInv
  BY DEF Init, TypeInv, Condition
<1>2. QueueInv /\ HandlerInv
  BY DEF Init, QueueInv, HandlerInv
<1>3. AnswerInv
  BY DEF Init, AnswerInv, VerifyFailsForItsOwn, AnswersAreOfRecorded
<1>. QED BY <1>1, <1>2, <1>3 DEF Inv

(* What a command does to the files of an artifact never makes damage      *)
(* undone, nor a lifecycle disappear.                                      *)
LEMMA CommandsKeepFacts ==
  ASSUME TypeInv, NEW h \in Hash, PutArtifact(h) \/ AppendEvent(h) \/ TearFile(h)
  PROVE  /\ store' \in [Hash -> Condition]
         /\ UNCHANGED <<request, body, queue, serving, step, said>>
         /\ \A g \in Hash :
              /\ store[g].kew \in {"torn", "mended"} => store'[g].kew \in {"torn", "mended"}
              /\ store[g].log \in {"broken", "blurred"} => store'[g].log \in {"broken", "blurred"}
              /\ store[g].log # "empty" => store'[g].log # "empty"
<1>. DEFINE Kept(old, new) ==
       /\ new \in Condition
       /\ old.kew \in {"torn", "mended"} => new.kew \in {"torn", "mended"}
       /\ old.log \in {"broken", "blurred"} => new.log \in {"broken", "blurred"}
       /\ old.log # "empty" => new.log # "empty"
<1>0. store[h] \in Condition
  BY DEF TypeInv
<1>1. PICK c : Becomes(h, c) /\ Kept(store[h], c)
  <2>1. CASE PutArtifact(h)
    BY <1>0, <2>1 DEF PutArtifact, Condition
  <2>2. CASE AppendEvent(h)
    BY <1>0, <2>2 DEF AppendEvent, Condition
  <2>3. CASE TearFile(h)
    BY <1>0, <2>3 DEF TearFile, Condition
  <2>. QED BY <2>1, <2>2, <2>3
<1>. QED BY <1>1 DEF Becomes, TypeInv

LEMMA CommandInv == Inv /\ Command => Inv'
<1>. SUFFICES ASSUME Inv, Command PROVE Inv'
  OBVIOUS
<1>1. PICK h \in Hash : PutArtifact(h) \/ AppendEvent(h) \/ TearFile(h)
  BY DEF Command
<1>. USE DEF Inv
<1>2. /\ store' \in [Hash -> Condition]
      /\ UNCHANGED <<request, body, queue, serving, step, said>>
      /\ \A g \in Hash :
           /\ store[g].kew \in {"torn", "mended"} => store'[g].kew \in {"torn", "mended"}
           /\ store[g].log \in {"broken", "blurred"} => store'[g].log \in {"broken", "blurred"}
           /\ store[g].log # "empty" => store'[g].log # "empty"
  BY <1>1, CommandsKeepFacts
<1>3. TypeInv' /\ QueueInv'
  BY <1>2 DEF TypeInv, QueueInv
<1>4. HandlerInv'
  <2>1. CASE step = "idle"
    BY <1>2, <2>1 DEF HandlerInv
  <2>2. CASE step # "idle"
    <3>1. request[serving] \in Request
      BY <2>2 DEF TypeInv, QueueInv
    <3>. QED BY <1>2, <2>2, <3>1, RequestsAre DEF HandlerInv, Named
  <2>. QED BY <2>1, <2>2
<1>5. AnswerInv'
  <2>1. CASE said = None
    BY <1>2, <2>1 DEF AnswerInv, VerifyFailsForItsOwn, AnswersAreOfRecorded
  <2>2. CASE said # None
    BY <1>2, <2>2, RequestsAre DEF AnswerInv, VerifyFailsForItsOwn, AnswersAreOfRecorded
  <2>. QED BY <2>1, <2>2
<1>. QED BY <1>3, <1>4, <1>5

-----------------------------------------------------------------------------
(* Steps that leave the files and the last answer alone.                   *)
LEMMA AnswerStays == AnswerInv /\ UNCHANGED <<store, said>> => AnswerInv'
BY DEF AnswerInv, VerifyFailsForItsOwn, AnswersAreOfRecorded

LEMMA ClientInv ==
  ASSUME Inv, NEW c \in Client, Send(c) \/ Arrive(c) \/ Drop(c)
  PROVE  Inv'
<1>. USE DEF Inv
<1>1. CASE Send(c)
  <2>1. PICK q \in Request : /\ request' = [request EXCEPT ![c] = q]
                             /\ body' = [body EXCEPT ![c] = IF q.route \in Posted
                                                        THEN "arriving" ELSE "none"]
    BY <1>1 DEF Send
  <2>2. queue' = Append(queue, c) /\ request[c] = None /\ UNCHANGED <<store, serving, step, said>>
    BY <1>1 DEF Send
  <2>3. TypeInv'
    BY <2>1, <2>2 DEF TypeInv
  <2>4. /\ Len(queue') = Len(queue) + 1 /\ queue'[Len(queue) + 1] = c /\ Len(queue) \in Nat
        /\ \A i \in 1..Len(queue) : queue'[i] = queue[i] /\ queue[i] \in Client /\ queue[i] # c
    BY <2>2 DEF TypeInv, QueueInv
  <2>5. QueueInv'
    BY <2>1, <2>2, <2>4, RequestsAre DEF TypeInv, QueueInv
  <2>6. HandlerInv'
    BY <2>1, <2>2 DEF TypeInv, QueueInv, HandlerInv, Named
  <2>. QED BY <2>2, <2>3, <2>5, <2>6, AnswerStays
<1>2. CASE Arrive(c) \/ Drop(c)
  <2>1. /\ UNCHANGED <<store, request, queue, serving, step, said>>
        /\ body' \in [Client -> {"none", "arriving", "whole", "cut"}]
    BY <1>2 DEF Arrive, Drop, TypeInv
  <2>. QED BY <2>1, AnswerStays DEF TypeInv, QueueInv, HandlerInv, Named
<1>. QED BY <1>1, <1>2

(* The oldest request is served, and is in the queue no more.              *)
LEMMA TakeInv == Inv /\ Take => Inv'
<1>. SUFFICES ASSUME Inv, Take PROVE Inv'
  OBVIOUS
<1>. USE DEF Inv
<1>1. /\ queue # <<>> /\ serving' = Head(queue) /\ queue' = Tail(queue)
      /\ step' = "route" /\ said' = None /\ UNCHANGED <<store, request, body>>
  BY DEF Take
<1>2. /\ queue' \in Seq(Client) /\ Len(queue) \in Nat \ {0} /\ serving' = queue[1]
      /\ Len(queue') = Len(queue) - 1
      /\ \A i \in 1..Len(queue') : queue'[i] = queue[i + 1]
  BY <1>1 DEF TypeInv
<1>3. TypeInv'
  BY <1>1, <1>2 DEF TypeInv
<1>4. QueueInv'
  BY <1>1, <1>2 DEF TypeInv, QueueInv
<1>5. HandlerInv'
  BY <1>1 DEF HandlerInv
<1>6. AnswerInv'
  BY <1>1 DEF AnswerInv, VerifyFailsForItsOwn, AnswersAreOfRecorded
<1>. QED BY <1>3, <1>4, <1>5, <1>6

-----------------------------------------------------------------------------
(* A handler goes on, when what it is to rely on next is so; it answers,   *)
(* when the answer is one it may give.                                     *)

MayRely(label) ==
  /\ request[serving].route = "verify" =>
       label \in {"route", "body", "bytes", "evidence", "evidence for torn", "sidecar"}
  /\ label \in {"evidence", "evidence for torn"} => request[serving].route = "verify"
  /\ label = "source" => Named = None
  /\ label = "evidence for torn" => store[Named].kew \in {"torn", "mended"}
  /\ /\ request[serving].route \in {"resolve", "dryrun"} /\ Named # None
     /\ label \in {"manifest", "manifest of revoked", "sidecar", "bytes", "facts"}
     => store[Named].log # "empty"

MayAnswer(kind) ==
  /\ request[serving].route = "verify" /\ kind \in {"internal", "artifact_decode"} =>
       \/ store[Named].kew \in {"torn", "mended"}
       \/ store[Named].log \in {"broken", "blurred"}
  /\ /\ request[serving].route \in {"resolve", "dryrun"} /\ Named # None
     /\ kind \in {"ok", "compile_error", "facts_error"}
     => store[Named].log # "empty"

Kinds == { "ok", "bad_request", "artifact_decode", "not_found", "ambiguous",
           "compile_error", "facts_error", "internal" }

LEMMA GoOnInv ==
  ASSUME Inv, step # "idle", NEW label, GoOn(label), MayRely(label)
  PROVE  Inv'
<1>. USE DEF Inv
<1>1. step' = label /\ UNCHANGED <<store, request, body, queue, serving, said>>
  BY DEF GoOn
<1>2. TypeInv' /\ QueueInv'
  BY <1>1 DEF TypeInv, QueueInv
<1>3. HandlerInv'
  BY <1>1 DEF HandlerInv, MayRely, Named
<1>. QED BY <1>1, <1>2, <1>3, AnswerStays

LEMMA StatusKinds ==
  ASSUME NEW kind \in Kinds
  PROVE  /\ Status(kind) = 500 => kind = "internal"
         /\ Status(kind) \in {200, 422} => kind \in {"ok", "compile_error", "facts_error"}
BY DEF Kinds, Status

LEMMA RespondInv ==
  ASSUME Inv, step # "idle", NEW kind \in Kinds, Respond(kind), MayAnswer(kind)
  PROVE  Inv'
<1>. USE DEF Inv
<1>1. /\ said' = [ request |-> request[serving], kind |-> kind ]
      /\ request' = [request EXCEPT ![serving] = None]
      /\ body' = [body EXCEPT ![serving] = "none"]
      /\ step' = "idle" /\ UNCHANGED <<store, queue>>
  BY DEF Respond
<1>2. request[serving] \in Request /\ serving \in Client
  BY DEF TypeInv, QueueInv
<1>3. TypeInv'
  BY <1>1, <1>2 DEF TypeInv
<1>4. QueueInv' /\ HandlerInv'
  <2>1. \A i \in 1..Len(queue) : queue[i] \in Client /\ queue[i] # serving
    BY DEF TypeInv, QueueInv
  <2>2. \A i \in 1..Len(queue) : request'[queue[i]] = request[queue[i]]
    BY <1>1, <2>1 DEF TypeInv
  <2>. QED BY <1>1, <2>2 DEF QueueInv, HandlerInv
<1>5. AnswerInv'
  <2>1. said'.request = request[serving] /\ said'.kind = kind
    BY <1>1
  <2>2. VerifyFailsForItsOwn'
    BY <1>1, <2>1, StatusKinds DEF VerifyFailsForItsOwn, MayAnswer, Named
  <2>3. AnswersAreOfRecorded'
    BY <1>1, <2>1, StatusKinds DEF AnswersAreOfRecorded, MayAnswer, Named
  <2>. QED BY <1>2, <2>1, <2>2, <2>3 DEF AnswerInv
<1>. QED BY <1>3, <1>4, <1>5

-----------------------------------------------------------------------------
(* The handlers, step by step.                                             *)

LEMMA HandleInv == Inv /\ Handle => Inv'
<1>. SUFFICES ASSUME Inv, Handle PROVE Inv'
  OBVIOUS
<1>1. CASE Take
  BY <1>1, TakeInv
<1>2. CASE ~ Take
  <2>. DEFINE Goes(label) == GoOn(label) /\ MayRely(label)
              Ends(kind) == Respond(kind) /\ MayAnswer(kind)
  <2>1. step # "idle"
    BY <1>2 DEF Handle, Route, At, ReadPointer, ListCandidates, ReadLog,
       FindManifest, ReadSidecar, ReadBody, CompileSource, ReadBytes, LoadFacts,
       VerifyBytes
  <2>2. /\ request[serving] \in Request
        /\ Named # None => Named \in Hash
        /\ request[serving].route \in {"resolve", "verify"} => Named \in Hash
    BY <2>1, RequestsAre DEF Inv, TypeInv, QueueInv, Named
  <2>3. (\E label : Goes(label)) \/ (\E kind \in Kinds : Ends(kind))
    <3>. USE DEF MayRely, MayAnswer, Kinds, Inv, HandlerInv
    <3>1. CASE Route
      <4>1. CASE step = "route" /\ Respond("ok") /\ request[serving].route \in {"events", "healthz"}
        BY <4>1
      <4>2. CASE Respond("not_found") \/ Respond("bad_request")
        BY <4>2
      <4>3. CASE step = "route" /\ GoOn("body")
        <5>1. MayRely("body")
          OBVIOUS
        <5>. QED BY <4>3, <5>1
      <4>4. CASE \E how \in {"log", "pointer", "regime"} :
                   GoOn(how) /\ request[serving].route = "resolve"
        <5>1. PICK how \in {"log", "pointer", "regime"} :
                GoOn(how) /\ request[serving].route = "resolve"
          BY <4>4
        <5>2. MayRely(how)
          BY <5>1
        <5>. QED BY <5>1, <5>2
      <4>. QED BY <3>1, <4>1, <4>2, <4>3, <4>4 DEF Route, At
    <3>2. CASE ReadPointer
      <4>1. step = "pointer" => MayRely("log")
        BY <2>1
      <4>. QED BY <3>2, <4>1 DEF ReadPointer
    <3>3. CASE ListCandidates
      BY <2>1, <2>2, <3>3 DEF ListCandidates
    <3>4. CASE ReadLog
      BY <2>1, <2>2, <3>4 DEF ReadLog
    <3>5. CASE FindManifest
      BY <2>1, <2>2, <3>5 DEF FindManifest, Resolved, At
    <3>6. CASE ReadSidecar
      BY <2>1, <2>2, <3>6 DEF ReadSidecar, Resolved, At
    <3>7. CASE ReadBody
      <4>1. CASE Respond("bad_request")
        BY <4>1
      <4>2. CASE request[serving].route = "verify" /\ GoOn("bytes")
        <5>1. MayRely("bytes")
          BY <4>2
        <5>. QED BY <4>2, <5>1
      <4>3. CASE request[serving].route = "dryrun" /\ GoOn("log")
        <5>1. MayRely("log")
          BY <4>3
        <5>. QED BY <4>3, <5>1
      <4>4. CASE /\ request[serving].route \in {"preview", "dryrun"}
                 /\ Named = None /\ GoOn("source")
        <5>1. MayRely("source")
          BY <4>4
        <5>. QED BY <4>4, <5>1
      <4>. QED BY <3>7, <4>1, <4>2, <4>3, <4>4 DEF ReadBody, At
    <3>8. CASE CompileSource
      BY <2>1, <2>2, <3>8 DEF CompileSource, At
    <3>9. CASE ReadBytes
      BY <2>1, <2>2, <3>9 DEF ReadBytes, At
    <3>10. CASE LoadFacts
      BY <2>1, <2>2, <3>10 DEF LoadFacts
    <3>11. CASE VerifyBytes
      BY <2>1, <2>2, <3>11 DEF VerifyBytes
    <3>. QED BY <1>2, <3>1, <3>2, <3>3, <3>4, <3>5, <3>6, <3>7, <3>8, <3>9,
                <3>10, <3>11 DEF Handle
  <2>. QED BY <2>1, <2>3, GoOnInv, RespondInv
<1>. QED BY <1>1, <1>2

-----------------------------------------------------------------------------
(* The loop of `run` loses no request and serves none twice, and every     *)
(* handler finds the files as it relies on them, for any number of clients *)
(* and artifacts, whatever commands write meanwhile.                       *)
THEOREM ServerInvariance == Spec => []Inv
<1>1. Inv /\ [Next]_vars => Inv'
  <2>. SUFFICES ASSUME Inv, [Next]_vars PROVE Inv'
    OBVIOUS
  <2>1. CASE UNCHANGED vars
    <3>1. TypeInv' /\ QueueInv'
      BY <2>1 DEF vars, Inv, TypeInv, QueueInv
    <3>2. HandlerInv'
      BY <2>1 DEF vars, Inv, HandlerInv, Named
    <3>. QED BY <2>1, <3>1, <3>2, AnswerStays DEF vars, Inv
  <2>2. CASE Next
    BY <2>2, HandleInv, CommandInv, ClientInv DEF Next
  <2>. QED BY <2>1, <2>2
<1>. QED BY <1>1, InitInv, PTL DEF Spec

(* POST /verify blames an artifact's files only if they were damaged,      *)
(* whatever the state of all others.                                       *)
THEOREM VerifyBlamesItsOwn == Spec => []VerifyFailsForItsOwn
<1>1. Inv => VerifyFailsForItsOwn
  BY DEF Inv, AnswerInv
<1>. QED BY <1>1, ServerInvariance, PTL

(* Neither a dry run nor a resolution answers for an artifact whose draft  *)
(* event is not stored.                                                    *)
THEOREM OnlyRecordedIsAnswered == Spec => []AnswersAreOfRecorded
<1>1. Inv => AnswersAreOfRecorded
  BY DEF Inv, AnswerInv
<1>. QED BY <1>1, ServerInvariance, PTL

=============================================================================
