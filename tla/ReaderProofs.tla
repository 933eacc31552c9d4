---------------------------- MODULE ReaderProofs ----------------------------
(***************************************************************************)
(* What a reader holds out was published, for any number of readers,       *)
(* commands, artifacts and tags, unlocked and stopped anywhere. A reader's *)
(* reads are of different moments; the argument is that the one fact it    *)
(* takes from each of them -- that the log has, or has had, an event that  *)
(* published the artifact -- is never undone, because names of event files *)
(* do not vanish (RegistryProofs).                                         *)
(***************************************************************************)
EXTENDS ReaderProperties, RegistryProofs

Seen == [ hash : Hash \cup {None},
          types : (SUBSET AttestationType) \cup {None, Torn},
          event : Event \cup {None}, head : Event \cup {None} ]

(* The calls that read a file of the artifact at hand.                     *)
OfOne == { "log", "manifest", "record", "bytes", "status", "head", "policy" }

(* Those that rest on registry evidence.                                   *)
Consumers == { "provenance", "verify", "graph" }

Published(h) == h \in Hash /\ Has(h, "published")

(* What a reader knows: a is its next call, k what it was asked, t and hs  *)
(* the addresses to come to and those that matched, s what it saw, w what  *)
(* it answered.                                                            *)
Fine(a, k, t, hs, s, w) ==
  /\ s \in Seen /\ t \subseteq Hash /\ hs \subseteq Hash
  /\ a \in OfOne => s.hash \in Hash
  /\ a = "pointer" => k.arg \in Tag
  /\ a \in {"addresses", "bytes", "status", "head"} => k.how \in Consumers
  /\ \A h \in hs : Published(h)
  /\ s.event # None /\ s.event.new = "Published" => Published(s.hash)
  /\ a \in {"log", "manifest", "record"} /\ k.how \in {"tag", "regime"}
       => Published(s.hash)
  /\ \A h \in HeldOut(w) : Published(h)

ReaderInv(r) == Fine(at[r], ask[r], todo[r], hits[r], saw[r], answer[r])

Functions ==
  /\ at = [r \in Reader |-> at[r]]     /\ ask = [r \in Reader |-> ask[r]]
  /\ todo = [r \in Reader |-> todo[r]] /\ hits = [r \in Reader |-> hits[r]]
  /\ saw = [r \in Reader |-> saw[r]]   /\ answer = [r \in Reader |-> answer[r]]

(* There is a highest sequence number among the names of a log, which is   *)
(* what makes the head of a readable log an event of it.                   *)
LogsHaveTops ==
  \A h \in Hash :
    Slots(h) = {} \/ \E s \in Slots(h) : \A z \in Slots(h) : z[1] <= s[1]

ReadersInv ==
  Inv /\ LogsHaveTops /\ Functions /\ \A r \in Reader : ReaderInv(r)

(* One step of reader r, by what becomes of its memory.                    *)
Moves(r, a, k, t, hs, s, w) ==
  /\ at' = [at EXCEPT ![r] = a]     /\ ask' = [ask EXCEPT ![r] = k]
  /\ todo' = [todo EXCEPT ![r] = t] /\ hits' = [hits EXCEPT ![r] = hs]
  /\ saw' = [saw EXCEPT ![r] = s]   /\ answer' = [answer EXCEPT ![r] = w]

-----------------------------------------------------------------------------
LEMMA SlotsAreNumbered ==
  ASSUME TypeOK, NEW h \in Hash
  PROVE  \A z \in Slots(h) : z[1] \in Nat
<1>1. \A f \in Files(h) : f.seq \in Nat
  BY DEF TypeOK, Files, Event, TornEvent
<1>. QED BY <1>1 DEF Slots, SlotOf

LEMMA TopsStay ==
  ASSUME Inv, LogsHaveTops, [Next]_vars
  PROVE  LogsHaveTops'
<1>1. CASE UNCHANGED vars
  BY <1>1 DEF LogsHaveTops, vars, Slots, Files
<1>2. CASE Next
  <2>1. PICK p \in Proc : Begin(p) \/ Step(p) \/ Crash(p) \/ CrashInWrite(p)
    BY <1>2 DEF Next
  <2>2. AddsNames(p)
    BY <2>1, OnlyWritersAddNames
  <2>3. CASE \A h \in Hash : Slots(h)' = Slots(h)
    BY <2>3 DEF LogsHaveTops
  <2>4. CASE \E e \in Event : Added(job[p].hash, SlotOf(e))
    <3>1. PICK e \in Event : Added(job[p].hash, SlotOf(e))
      BY <2>4
    <3>. DEFINE slot == SlotOf(e)
    <3>2. slot[1] \in Nat
      BY DEF Event, SlotOf
    <3>. HIDE DEF slot
    <3>. SUFFICES ASSUME NEW h \in Hash
                  PROVE  \/ Slots(h)' = {}
                         \/ \E s \in Slots(h)' : \A z \in Slots(h)' : z[1] <= s[1]
      BY DEF LogsHaveTops
    <3>3. Slots(h)' = Slots(h) \/ Slots(h)' = Slots(h) \cup {slot}
      BY <3>1 DEF Added, slot
    <3>4. \A z \in Slots(h) : z[1] \in Nat
      BY SlotsAreNumbered DEF Inv
    <3>5. CASE Slots(h) = {}
      BY <3>2, <3>3, <3>5
    <3>6. CASE Slots(h) # {}
      <4>1. PICK s \in Slots(h) : \A z \in Slots(h) : z[1] <= s[1]
        BY <3>6 DEF LogsHaveTops
      <4>2. CASE slot[1] <= s[1]
        BY <3>3, <4>1, <4>2
      <4>3. CASE s[1] <= slot[1]
        BY <3>2, <3>3, <3>4, <4>1, <4>3
      <4>. QED BY <3>2, <3>4, <4>2, <4>3
    <3>. QED BY <3>5, <3>6
  <2>. QED BY <2>2, <2>3, <2>4 DEF AddsNames
<1>. QED BY <1>1, <1>2

(* A command's step takes nothing away from what readers know.             *)
LEMMA CommandKeepsReaders ==
  ASSUME ReadersInv, [Next]_vars, UNCHANGED readers
  PROVE  ReadersInv'
<1>1. Inv' /\ \A h \in Hash : Slots(h) \subseteq Slots(h)'
  BY InvIsInductive DEF ReadersInv, Grows
<1>2. \A h : Published(h) => Published(h)'
  BY <1>1 DEF Published, Has
<1>3. \A r \in Reader : ReaderInv(r)'
  BY <1>2 DEF ReadersInv, ReaderInv, Fine, readers, Seen
<1>4. Functions'
  BY DEF ReadersInv, Functions, readers
<1>. QED BY <1>1, <1>3, <1>4, TopsStay DEF ReadersInv

(* Reading changes no file.                                                *)
LEMMA ReadingKeepsInv ==
  ASSUME Inv, UNCHANGED vars
  PROVE  Inv' /\ \A h : Published(h)' <=> Published(h)
<1>1. Inv'
  BY InvIsInductive
<1>2. \A h : Published(h)' <=> Published(h)
  BY DEF vars, Published, Has, Slots, Files
<1>. QED BY <1>1, <1>2

LEMMA ReaderMoves ==
  ASSUME ReadersInv, UNCHANGED vars, NEW r \in Reader,
         NEW a, NEW k, NEW t, NEW hs, NEW s, NEW w,
         Moves(r, a, k, t, hs, s, w), Fine(a, k, t, hs, s, w)
  PROVE  ReadersInv'
<1>1. Inv' /\ \A h : Published(h)' <=> Published(h)
  BY ReadingKeepsInv DEF ReadersInv
<1>2. /\ at'[r] = a /\ ask'[r] = k /\ todo'[r] = t /\ hits'[r] = hs
      /\ saw'[r] = s /\ answer'[r] = w
  BY DEF Moves, ReadersInv, Functions
<1>3. \A q \in Reader \ {r} :
        /\ at'[q] = at[q] /\ ask'[q] = ask[q] /\ todo'[q] = todo[q]
        /\ hits'[q] = hits[q] /\ saw'[q] = saw[q] /\ answer'[q] = answer[q]
  BY DEF Moves, ReadersInv, Functions
<1>4. ReaderInv(r)'
  BY <1>1, <1>2 DEF ReaderInv, Fine, Seen
<1>5. \A q \in Reader \ {r} : ReaderInv(q)'
  BY <1>1, <1>3 DEF ReadersInv, ReaderInv, Fine, Seen
<1>6. Functions'
  BY DEF Moves, ReadersInv, Functions
<1>. QED BY <1>1, <1>4, <1>5, <1>6, TopsStay DEF ReadersInv

-----------------------------------------------------------------------------
(* What one reading of the store establishes.                              *)

LEMMA PublishedWasPublished ==
  ASSUME Inv, NEW h \in Hash, NEW e \in events[h], e.new = "Published"
  PROVE  Published(h)
<1>1. UpTo(h, EventKind[e.new], e.seq)
  BY DEF Inv, LogInv, StatesHaveEvents
<1>. QED BY <1>1 DEF UpTo, Published, Has, EventKind

(* The head of a readable log that is not empty is an event of it.         *)
LEMMA HeadIsThere ==
  ASSUME Inv, LogsHaveTops, NEW h \in Hash, Readable(h), events[h] # {}
  PROVE  HeadOf(h) \in events[h]
<1>1. Files(h) = events[h]
  BY DEF Files, Readable
<1>2. Slots(h) # {}
  BY <1>1 DEF Slots
<1>3. PICK s \in Slots(h) : \A z \in Slots(h) : z[1] <= s[1]
  BY <1>2 DEF LogsHaveTops
<1>4. PICK e \in events[h] : SlotOf(e) = s
  BY <1>1 DEF Slots
<1>5. \A d \in events[h] : d.seq <= e.seq
  <2>1. \A d \in events[h] : SlotOf(d) \in Slots(h)
    BY <1>1 DEF Slots
  <2>2. \A d : SlotOf(d)[1] = d.seq
    BY DEF SlotOf
  <2>. QED BY <1>3, <1>4, <2>1, <2>2
<1>. QED BY <1>4, <1>5 DEF HeadOf, IsHead

LEMMA HeadShows ==
  ASSUME Inv, LogsHaveTops, NEW h \in Hash, Readable(h)
  PROVE  /\ HeadOf(h) \in Event \cup {None}
         /\ HeadOf(h) # None /\ HeadOf(h).new = "Published" => Published(h)
         /\ events[h] = {} => HeadOf(h) = None
<1>1. CASE events[h] = {}
  BY <1>1 DEF HeadOf
<1>2. CASE events[h] # {}
  BY <1>2, HeadIsThere, PublishedWasPublished DEF Inv, TypeOK
<1>. QED BY <1>1, <1>2

-----------------------------------------------------------------------------
(* The steps of a reader.                                                  *)

LEMMA NothingIsSeen == Nothing \in Seen /\ Nothing.event = None
BY DEF Nothing, Seen

(* A reader whose answer holds out only what was published is done.        *)
LEMMA AnswerStep ==
  ASSUME ReadersInv, UNCHANGED vars, NEW r \in Reader, NEW reply, Answer(r, reply),
         \A h \in HeldOut([reply EXCEPT !.how = ask[r].how]) : Published(h)
  PROVE  ReadersInv'
<1>. DEFINE w == [reply EXCEPT !.how = ask[r].how]
<1>1. Moves(r, "idle", None, {}, {}, Nothing, w)
  BY DEF Answer, Moves
<1>2. Fine("idle", None, {}, {}, Nothing, w)
  BY NothingIsSeen DEF Fine, OfOne
<1>. QED BY <1>1, <1>2, ReaderMoves

LEMMA FailStep ==
  ASSUME ReadersInv, UNCHANGED vars, NEW r \in Reader,
         NEW what \in {"error", "not_found", "ambiguous"}, Fail(r, what)
  PROVE  ReadersInv'
<1>. DEFINE reply == [Reply(what) EXCEPT !.hash = saw[r].hash]
            w == [reply EXCEPT !.how = ask[r].how]
<1>1. w.what = what /\ w.exported = {}
  BY DEF Reply
<1>2. HeldOut(w) = {}
  BY <1>1 DEF HeldOut
<1>3. Answer(r, reply)
  BY DEF Fail
<1>. QED BY <1>2, <1>3, AnswerStep

LEMMA GoOnStep ==
  ASSUME ReadersInv, UNCHANGED vars, NEW r \in Reader, NEW label, NEW seen,
         GoOn(r, label, seen),
         Fine(label, ask[r], todo[r], hits[r], seen, answer[r])
  PROVE  ReadersInv'
<1>1. Moves(r, label, ask[r], todo[r], hits[r], seen, answer[r])
  BY DEF GoOn, Moves, ReadersInv, Functions
<1>. QED BY <1>1, ReaderMoves

LEMMA AskStep ==
  ASSUME ReadersInv, UNCHANGED vars, NEW r \in Reader, NewRequest(r)
  PROVE  ReadersInv'
<1>. DEFINE Asked(how, h, arg, label) ==
       Moves(r, label, [ how |-> how, arg |-> arg ], todo[r], hits[r],
             [Nothing EXCEPT !.hash = h], None)
<1>1. ASSUME NEW how, NEW h \in Hash \cup {None}, NEW arg, NEW label,
             Ask(r, how, h, arg, label),
             label \in OfOne => h \in Hash,
             label = "pointer" => arg \in Tag,
             label \in {"addresses", "bytes", "status", "head"} => how \in Consumers,
             label \in {"log", "manifest", "record"} => how \notin {"tag", "regime"}
      PROVE  ReadersInv'
  <2>1. Asked(how, h, arg, label)
    BY <1>1 DEF Ask, Moves, ReadersInv, Functions
  <2>2. /\ [Nothing EXCEPT !.hash = h] \in Seen
        /\ [Nothing EXCEPT !.hash = h].event = None
        /\ [Nothing EXCEPT !.hash = h].hash = h
    BY <1>1 DEF Nothing, Seen
  <2>3. HeldOut(None) = {}
    BY DEF HeldOut
  <2>4. [ how |-> how, arg |-> arg ].how = how /\ [ how |-> how, arg |-> arg ].arg = arg
    OBVIOUS
  <2>5. Fine(label, [ how |-> how, arg |-> arg ], todo[r], hits[r],
             [Nothing EXCEPT !.hash = h], None)
    BY <1>1, <2>2, <2>3, <2>4 DEF Fine, ReadersInv, ReaderInv
  <2>. QED BY <2>1, <2>5, ReaderMoves
<1>2. CASE AskByHash(r)
  BY <1>1, <1>2 DEF AskByHash
<1>3. CASE AskByTag(r)
  BY <1>1, <1>3 DEF AskByTag, OfOne
<1>4. CASE AskByRegime(r)
  BY <1>1, <1>4 DEF AskByRegime, OfOne
<1>5. CASE AskProvenance(r)
  BY <1>1, <1>5 DEF AskProvenance, Consumers
<1>6. CASE AskVerify(r)
  BY <1>1, <1>6 DEF AskVerify, Consumers
<1>7. CASE AskGraph(r)
  BY <1>1, <1>7 DEF AskGraph, OfOne, Consumers
<1>. QED BY <1>2, <1>3, <1>4, <1>5, <1>6, <1>7 DEF NewRequest

(* A tag leads to an artifact that was published when it was set.          *)
LEMMA PointerStep ==
  ASSUME ReadersInv, UNCHANGED vars, NEW r \in Reader, ReadPointer(r)
  PROVE  ReadersInv'
<1>. DEFINE target == tags[ask[r].arg]
            seen == [saw[r] EXCEPT !.hash = target]
<1>1. CASE Fail(r, "not_found") \/ Fail(r, "error")
  BY <1>1, FailStep
<1>2. CASE target \notin {None, Torn} /\ GoOn(r, "log", seen)
  <2>0. ask[r].arg \in Tag
    BY DEF ReadPointer, ReadersInv, ReaderInv, Fine
  <2>1. target \in Hash /\ Published(target)
    BY <1>2, <2>0 DEF ReadersInv, Inv, TypeOK, SidecarInv, TagsNameOncePublished,
       Published, Has
  <2>2. saw[r] \in Seen
    BY DEF ReadersInv, ReaderInv, Fine
  <2>3. seen \in Seen /\ seen.hash = target /\ seen.event = saw[r].event
    BY <2>1, <2>2 DEF Seen
  <2>4. Fine("log", ask[r], todo[r], hits[r], seen, answer[r])
    BY <2>1, <2>3 DEF ReadersInv, ReaderInv, Fine
  <2>. QED BY <1>2, <2>4, GoOnStep
<1>. QED BY <1>1, <1>2 DEF ReadPointer

(* The candidates that are left, and those that were found Published.      *)
LEMMA CandidatesStep ==
  ASSUME ReadersInv, UNCHANGED vars, NEW r \in Reader,
         NEW left \in SUBSET Hash, NEW found \in SUBSET Hash,
         Candidates(r, left, found), \A h \in found : Published(h)
  PROVE  ReadersInv'
<1>0. Fine(at[r], ask[r], todo[r], hits[r], saw[r], answer[r])
  BY DEF ReadersInv, ReaderInv
<1>1. CASE left # {}
  <2>1. Moves(r, "candidate", ask[r], left, found, saw[r], answer[r])
    BY <1>1 DEF Candidates, Moves, ReadersInv, Functions
  <2>2. Fine("candidate", ask[r], left, found, saw[r], answer[r])
    BY <1>0 DEF Fine, OfOne
  <2>. QED BY <2>1, <2>2, ReaderMoves
<1>2. CASE left = {}
  <2>1. CASE Fail(r, "not_found") \/ Fail(r, "ambiguous")
    BY <2>1, FailStep
  <2>2. CASE ~ Fail(r, "not_found") /\ ~ Fail(r, "ambiguous")
    <3>1. PICK h \in found :
            /\ at' = [at EXCEPT ![r] = "log"]
            /\ todo' = [todo EXCEPT ![r] = {}]
            /\ hits' = [hits EXCEPT ![r] = {}]
            /\ saw' = [saw EXCEPT ![r].hash = h]
            /\ UNCHANGED <<ask, answer>>
      BY <1>2, <2>2 DEF Candidates
    <3>. DEFINE seen == [saw[r] EXCEPT !.hash = h]
    <3>2. Moves(r, "log", ask[r], {}, {}, seen, answer[r])
      BY <3>1 DEF Moves, ReadersInv, Functions
    <3>3. seen \in Seen /\ seen.hash = h /\ seen.event = saw[r].event
      BY <1>0 DEF Seen, Fine
    <3>4. Fine("log", ask[r], {}, {}, seen, answer[r])
      BY <1>0, <3>3 DEF Fine
    <3>. QED BY <3>2, <3>4, ReaderMoves
  <2>. QED BY <2>1, <2>2
<1>. QED BY <1>1, <1>2

LEMMA LookupStep ==
  ASSUME ReadersInv, UNCHANGED vars, NEW r \in Reader,
         ListCandidates(r) \/ ReadCandidate(r)
  PROVE  ReadersInv'
<1>1. CASE ListCandidates(r)
  <2>1. { h \in Stored : ask[r].arg \in Covers[h] } \in SUBSET Hash
    BY DEF Stored
  <2>. QED BY <1>1, <2>1, FailStep, CandidatesStep DEF ListCandidates
<1>2. CASE ReadCandidate(r)
  <2>1. PICK h \in todo[r] :
          IF Readable(h)
          THEN Candidates(r, todo[r] \ {h},
                          hits[r] \cup {g \in {h} : StateIs(g, "Published")})
          ELSE Fail(r, "error")
    BY <1>2 DEF ReadCandidate
  <2>2. CASE ~ Readable(h)
    BY <2>1, <2>2, FailStep
  <2>3. CASE Readable(h)
    <3>. DEFINE found == hits[r] \cup {g \in {h} : StateIs(g, "Published")}
    <3>1. /\ todo[r] \subseteq Hash /\ hits[r] \subseteq Hash
          /\ \A g \in hits[r] : Published(g)
      BY DEF ReadersInv, ReaderInv, Fine
    <3>2. StateIs(h, "Published") => Published(h)
      BY <3>1, PublishedWasPublished DEF StateIs, ReadersInv
    <3>3. found \in SUBSET Hash /\ todo[r] \ {h} \in SUBSET Hash
      BY <3>1
    <3>4. \A g \in found : Published(g)
      BY <3>1, <3>2
    <3>5. Candidates(r, todo[r] \ {h}, found)
      BY <2>1, <2>3
    <3>. HIDE DEF found
    <3>. QED BY <3>3, <3>4, <3>5, CandidatesStep
  <2>. QED BY <2>2, <2>3
<1>. QED BY <1>1, <1>2

(* The end of a resolution: what a tag or a regime led to was published.   *)
LEMMA ResolvedStep ==
  ASSUME ReadersInv, UNCHANGED vars, NEW r \in Reader, NEW record,
         at[r] \in {"manifest", "record"}, Resolved(r, record)
  PROVE  ReadersInv'
<1>. DEFINE reply == [Reply("record") EXCEPT !.hash = saw[r].hash,
                        !.state = saw[r].event.new, !.record = record]
            w == [reply EXCEPT !.how = ask[r].how]
<1>1. /\ w.exported = {} /\ w.hash = saw[r].hash /\ w.how = ask[r].how
      /\ w.what = "record"
  BY DEF Reply
<1>2. ask[r].how \in {"tag", "regime"} => Published(saw[r].hash)
  BY DEF ReadersInv, ReaderInv, Fine
<1>. HIDE DEF w
<1>3. \A h \in HeldOut(w) : Published(h)
  BY <1>1, <1>2 DEF HeldOut
<1>4. Answer(r, reply)
  BY DEF Resolved
<1>. QED BY <1>3, <1>4, AnswerStep DEF w

LEMMA ResolveStep ==
  ASSUME ReadersInv, UNCHANGED vars, NEW r \in Reader,
         ReadLog(r) \/ FindManifest(r) \/ ReadRecord(r)
  PROVE  ReadersInv'
<1>0. Fine(at[r], ask[r], todo[r], hits[r], saw[r], answer[r])
  BY DEF ReadersInv, ReaderInv
<1>1. CASE ReadLog(r)
  <2>. DEFINE h == saw[r].hash
              seen == [saw[r] EXCEPT !.event = HeadOf(h)]
  <2>1. CASE Fail(r, "error") \/ Fail(r, "not_found")
    BY <2>1, FailStep
  <2>2. CASE at[r] = "log" /\ Readable(h) /\ GoOn(r, "manifest", seen)
    <3>1. h \in Hash /\ saw[r] \in Seen
      BY <1>0, <2>2 DEF Fine, OfOne
    <3>2. /\ HeadOf(h) \in Event \cup {None}
          /\ HeadOf(h) # None /\ HeadOf(h).new = "Published" => Published(h)
      BY <2>2, <3>1, HeadShows DEF ReadersInv
    <3>3. seen \in Seen /\ seen.hash = h /\ seen.event = HeadOf(h)
      BY <3>1, <3>2 DEF Seen
    <3>4. Fine("manifest", ask[r], todo[r], hits[r], seen, answer[r])
      BY <1>0, <2>2, <3>1, <3>2, <3>3 DEF Fine
    <3>. QED BY <2>2, <3>4, GoOnStep
  <2>. QED BY <1>1, <2>1, <2>2 DEF ReadLog
<1>2. CASE FindManifest(r)
  <2>1. CASE Fail(r, "error") \/ Fail(r, "not_found")
    BY <2>1, FailStep
  <2>2. CASE at[r] = "manifest" /\ GoOn(r, "record", saw[r])
    <3>1. Fine("record", ask[r], todo[r], hits[r], saw[r], answer[r])
      BY <1>0, <2>2 DEF Fine, OfOne
    <3>. QED BY <2>2, <3>1, GoOnStep
  <2>3. CASE at[r] = "manifest" /\ Resolved(r, None)
    BY <2>3, ResolvedStep
  <2>. QED BY <1>2, <2>1, <2>2, <2>3 DEF FindManifest
<1>3. CASE ReadRecord(r)
  BY <1>3, FailStep, ResolvedStep DEF ReadRecord
<1>. QED BY <1>1, <1>2, <1>3

-----------------------------------------------------------------------------
(* The next address of a graph export, or the graph of those that passed.  *)
LEMMA AddressesStep ==
  ASSUME ReadersInv, UNCHANGED vars, NEW r \in Reader,
         NEW left \in SUBSET Hash, NEW exported \in SUBSET Hash,
         Addresses(r, left, exported), \A h \in exported : Published(h),
         ask[r].how \in Consumers
  PROVE  ReadersInv'
<1>1. CASE left # {}
  <2>1. PICK h \in left :
          /\ at' = [at EXCEPT ![r] = "bytes"]
          /\ todo' = [todo EXCEPT ![r] = left \ {h}]
          /\ hits' = [hits EXCEPT ![r] = exported]
          /\ saw' = [saw EXCEPT ![r] = [Nothing EXCEPT !.hash = h]]
          /\ UNCHANGED <<ask, answer>>
    BY <1>1 DEF Addresses
  <2>. DEFINE seen == [Nothing EXCEPT !.hash = h]
  <2>2. Moves(r, "bytes", ask[r], left \ {h}, exported, seen, answer[r])
    BY <2>1 DEF Moves, ReadersInv, Functions
  <2>3. seen \in Seen /\ seen.event = None /\ seen.hash = h
    BY DEF Nothing, Seen
  <2>4. Fine("bytes", ask[r], left \ {h}, exported, seen, answer[r])
    BY <2>3 DEF Fine, ReadersInv, ReaderInv
  <2>. QED BY <2>2, <2>4, ReaderMoves
<1>2. CASE left = {}
  <2>. DEFINE reply == [Reply("graph") EXCEPT !.exported = exported]
              w == [reply EXCEPT !.how = ask[r].how]
  <2>1. w.exported = exported /\ w.what = "graph"
    BY DEF Reply
  <2>. HIDE DEF w
  <2>2. \A h \in HeldOut(w) : Published(h)
    BY <2>1 DEF HeldOut
  <2>3. Answer(r, reply)
    BY <1>2 DEF Addresses
  <2>. QED BY <2>2, <2>3, AnswerStep DEF w
<1>. QED BY <1>1, <1>2

(* A verdict of /verify: what passes was seen Published.                   *)
LEMMA VerdictStep ==
  ASSUME ReadersInv, UNCHANGED vars, NEW r \in Reader, NEW seen, NEW record,
         Verdict(r, seen, record),
         seen.event # None /\ seen.event.new = "Published" => Published(seen.hash)
  PROVE  ReadersInv'
<1>. DEFINE what == IF Passes(seen.hash, seen, ask[r].arg) THEN "verified" ELSE "rejected"
            reply == [Reply(what) EXCEPT !.hash = seen.hash,
                        !.state = StatusFor(seen.event), !.head = seen.head,
                        !.record = record]
            w == [reply EXCEPT !.how = ask[r].how]
<1>1. w.exported = {} /\ w.hash = seen.hash /\ w.what = what
  BY DEF Reply
<1>2. what \in {"verified", "rejected"} /\ (what = "verified" => Published(seen.hash))
  BY DEF Passes, StatusFor
<1>. HIDE DEF w
<1>3. \A h \in HeldOut(w) : Published(h)
  BY <1>1, <1>2 DEF HeldOut
<1>4. Answer(r, reply)
  BY DEF Verdict
<1>. QED BY <1>3, <1>4, AnswerStep DEF w

(* A reader that has its evidence decides.                                 *)
LEMMA DecideStep ==
  ASSUME ReadersInv, UNCHANGED vars, NEW r \in Reader, NEW seen \in Seen,
         Decide(r, seen), seen.hash \in Hash, ask[r].how \in Consumers,
         seen.event # None /\ seen.event.new = "Published" => Published(seen.hash)
  PROVE  ReadersInv'
<1>0. Fine(at[r], ask[r], todo[r], hits[r], saw[r], answer[r])
  BY DEF ReadersInv, ReaderInv
<1>1. CASE ask[r].how = "provenance"
  <2>. DEFINE reply == [Reply("evidence") EXCEPT !.hash = seen.hash,
                          !.state = StatusFor(seen.event), !.head = seen.head]
              w == [reply EXCEPT !.how = ask[r].how]
  <2>1. w.exported = {} /\ w.what = "evidence"
    BY DEF Reply
  <2>. HIDE DEF w
  <2>2. \A h \in HeldOut(w) : Published(h)
    BY <2>1 DEF HeldOut
  <2>3. Answer(r, reply)
    BY <1>1 DEF Decide
  <2>. QED BY <2>2, <2>3, AnswerStep DEF w
<1>2. CASE ask[r].how = "verify"
  <2>1. CASE Fail(r, "error")
    BY <2>1, FailStep
  <2>2. CASE GoOn(r, "policy", seen)
    <3>1. Fine("policy", ask[r], todo[r], hits[r], seen, answer[r])
      BY <1>0 DEF Fine, OfOne
    <3>. QED BY <2>2, <3>1, GoOnStep
  <2>3. CASE Verdict(r, seen, None)
    BY <2>3, VerdictStep
  <2>. QED BY <1>2, <2>1, <2>2, <2>3 DEF Decide
<1>3. CASE ask[r].how = "graph"
  <2>. DEFINE passed == { h \in {seen.hash} : Passes(h, seen, PolicyForKind(KindOf[h])) }
  <2>1. \A h \in passed : Published(h)
    BY DEF Passes, StatusFor
  <2>2. Addresses(r, todo[r], hits[r] \cup passed)
    BY <1>3 DEF Decide
  <2>3. hits[r] \cup passed \in SUBSET Hash /\ todo[r] \in SUBSET Hash
    BY <1>0 DEF Fine
  <2>4. \A h \in hits[r] \cup passed : Published(h)
    BY <1>0, <2>1 DEF Fine
  <2>. HIDE DEF passed
  <2>. QED BY <2>2, <2>3, <2>4, AddressesStep
<1>. QED BY <1>1, <1>2, <1>3 DEF Consumers

LEMMA EvidenceStep ==
  ASSUME ReadersInv, UNCHANGED vars, NEW r \in Reader,
         ListAddresses(r) \/ ReadBytes(r) \/ ReadStatus(r) \/ ReadHeadAgain(r)
           \/ ReadPolicy(r)
  PROVE  ReadersInv'
<1>0. /\ Fine(at[r], ask[r], todo[r], hits[r], saw[r], answer[r])
      /\ saw[r] \in Seen
  BY DEF ReadersInv, ReaderInv, Fine
<1>. DEFINE h == saw[r].hash
<1>1. CASE ListAddresses(r)
  <2>1. Stored \in SUBSET Hash /\ ask[r].how \in Consumers
    BY <1>0, <1>1 DEF Stored, ListAddresses, Fine
  <2>. QED BY <1>1, <2>1, AddressesStep DEF ListAddresses
<1>2. CASE ReadBytes(r)
  <2>. DEFINE seen == [saw[r] EXCEPT !.types = kew[h]]
  <2>0. at[r] = "bytes" /\ h \in Hash /\ ask[r].how \in Consumers
    BY <1>0, <1>2 DEF ReadBytes, Fine, OfOne
  <2>1. CASE Fail(r, "error") \/ Fail(r, "not_found")
    BY <2>1, FailStep
  <2>2. CASE Addresses(r, todo[r], hits[r])
    <3>1. /\ todo[r] \in SUBSET Hash /\ hits[r] \in SUBSET Hash
          /\ \A g \in hits[r] : Published(g)
      BY <1>0 DEF Fine
    <3>. QED BY <2>0, <2>2, <3>1, AddressesStep
  <2>3. CASE GoOn(r, "status", seen)
    <3>1. kew[h] \in (SUBSET AttestationType) \cup {None, Torn}
      BY <2>0 DEF ReadersInv, Inv, TypeOK
    <3>2. seen \in Seen /\ seen.hash = h /\ seen.event = saw[r].event
      BY <1>0, <3>1 DEF Seen
    <3>3. Fine("status", ask[r], todo[r], hits[r], seen, answer[r])
      BY <1>0, <2>0, <3>2 DEF Fine
    <3>. QED BY <2>3, <3>3, GoOnStep
  <2>. QED BY <1>2, <2>1, <2>2, <2>3 DEF ReadBytes
<1>3. CASE ReadStatus(r)
  <2>. DEFINE seen == [saw[r] EXCEPT !.event = HeadOf(h)]
  <2>0. at[r] = "status" /\ h \in Hash /\ ask[r].how \in Consumers
    BY <1>0, <1>3 DEF ReadStatus, Fine, OfOne
  <2>1. CASE Fail(r, "error")
    BY <2>1, FailStep
  <2>2. CASE Readable(h) /\ (Decide(r, seen) \/ GoOn(r, "head", seen))
    <3>1. /\ HeadOf(h) \in Event \cup {None}
          /\ HeadOf(h) # None /\ HeadOf(h).new = "Published" => Published(h)
      BY <2>0, <2>2, HeadShows DEF ReadersInv
    <3>2. seen \in Seen /\ seen.hash = h /\ seen.event = HeadOf(h)
      BY <1>0, <3>1 DEF Seen
    <3>. HIDE DEF seen
    <3>3. Fine("head", ask[r], todo[r], hits[r], seen, answer[r])
      BY <1>0, <2>0, <3>1, <3>2 DEF Fine
    <3>. QED BY <2>0, <2>2, <3>1, <3>2, <3>3, GoOnStep, DecideStep
  <2>. QED BY <1>3, <2>1, <2>2 DEF ReadStatus
<1>4. CASE ReadHeadAgain(r)
  <2>. DEFINE seen == [saw[r] EXCEPT !.head = HeadOf(h)]
  <2>0. at[r] = "head" /\ h \in Hash /\ ask[r].how \in Consumers
    BY <1>0, <1>4 DEF ReadHeadAgain, Fine, OfOne
  <2>1. CASE Fail(r, "error")
    BY <2>1, FailStep
  <2>2. CASE Readable(h) /\ Decide(r, seen)
    <3>1. HeadOf(h) \in Event \cup {None}
      BY <2>0, <2>2, HeadShows DEF ReadersInv
    <3>2. seen \in Seen /\ seen.hash = h /\ seen.event = saw[r].event
      BY <1>0, <3>1 DEF Seen
    <3>3. seen.event # None /\ seen.event.new = "Published" => Published(seen.hash)
      BY <1>0, <3>2 DEF Fine
    <3>. HIDE DEF seen
    <3>. QED BY <2>0, <2>2, <3>2, <3>3, DecideStep
  <2>. QED BY <1>4, <2>1, <2>2 DEF ReadHeadAgain
<1>5. CASE ReadPolicy(r)
  <2>1. saw[r].event # None /\ saw[r].event.new = "Published" => Published(saw[r].hash)
    BY <1>0 DEF Fine
  <2>. QED BY <1>5, <2>1, FailStep, VerdictStep DEF ReadPolicy
<1>. QED BY <1>1, <1>2, <1>3, <1>4, <1>5

-----------------------------------------------------------------------------
(* What readers know holds in every state, whatever commands do between    *)
(* their reads.                                                            *)
THEOREM ReadersInvariance == ReadersSpec => []ReadersInv
<1>1. Init /\ ReadersInit => ReadersInv
  <2>. SUFFICES ASSUME Init, ReadersInit PROVE ReadersInv
    OBVIOUS
  <2>1. Inv
    BY InitInv
  <2>2. LogsHaveTops
    BY DEF Init, LogsHaveTops, Slots, Files
  <2>3. Functions
    BY DEF ReadersInit, Functions
  <2>4. HeldOut(None) = {}
    BY DEF HeldOut
  <2>5. \A r \in Reader : ReaderInv(r)
    BY <2>4, NothingIsSeen DEF ReadersInit, ReaderInv, Fine, OfOne
  <2>. QED BY <2>1, <2>2, <2>3, <2>5 DEF ReadersInv
<1>2. ReadersInv /\ [ReadersNext]_allVars => ReadersInv'
  <2>. SUFFICES ASSUME ReadersInv, [ReadersNext]_allVars PROVE ReadersInv'
    OBVIOUS
  <2>1. CASE [Next]_vars /\ UNCHANGED readers
    BY <2>1, CommandKeepsReaders
  <2>2. ASSUME NEW r \in Reader, NewRequest(r) \/ Read(r), UNCHANGED vars
        PROVE  ReadersInv'
    BY <2>2, AskStep, PointerStep, LookupStep, ResolveStep, EvidenceStep DEF Read
  <2>3. CASE UNCHANGED allVars
    <3>1. UNCHANGED vars /\ UNCHANGED readers
      BY <2>3 DEF allVars, vars, readers
    <3>. QED BY <2>1, <3>1
  <2>4. CASE ReadersNext
    BY <2>1, <2>2, <2>4 DEF ReadersNext
  <2>. QED BY <2>3, <2>4
<1>. QED BY <1>1, <1>2, PTL DEF ReadersSpec

(* No interleaving of reads with commands, and no crash, lets a reader     *)
(* verify, export or resolve by tag or regime an artifact that was never   *)
(* published.                                                              *)
THEOREM WhatIsHeldOutWasPublished == ReadersSpec => []HeldOutWasPublished
<1>1. ReadersInv => HeldOutWasPublished
  BY DEF ReadersInv, ReaderInv, Fine, HeldOutWasPublished, Published, Has
<1>. QED BY <1>1, ReadersInvariance, PTL

-----------------------------------------------------------------------------
(* What a reader's answer is worth when operators run one command at a     *)
(* time, commands stopped anywhere. A reader's reads are still of          *)
(* different moments, with whole commands between them; the argument is    *)
(* that an event it saw stays in the log (RegistryProofs: a log only gets  *)
(* events on top), that a log never goes back behind a standing it showed  *)
(* (the lifecycle table), and that a revocation record, once on disk, is   *)
(* never written again (RecordMoves).                                      *)

(* The inductive invariant, beside ReadersInv and SerialInv.               *)

(* No event of a log stands below one that is under it.                    *)
LogsRise ==
  \A h \in Hash : \A d, e \in events[h] :
    d.seq <= e.seq => Standing(d.new) <= Standing(e.new)

(* The evidence s can be decided upon: of a log that was empty, or of an   *)
(* event that is in the log, at or below the head that goes with it.       *)
Evidence(s) ==
  /\ s.hash \in Hash
  /\ \/ s.event = None /\ s.head = None
     \/ /\ s.event \in events[s.hash]
        /\ s.head # None => s.event.seq <= s.head.seq

(* What a reader about to make the call a has seen.                        *)
SawOf(a, s) ==
  /\ a \in {"manifest", "record", "head"} =>
       s.hash \in Hash /\ s.event \in events[s.hash]
  /\ a = "record" => s.event.new = "Revoked"
  /\ a \in {"bytes", "status"} => s.head = None
  /\ a = "policy" => Evidence(s) /\ StatusFor(s.event) = "Revoked"

(* An answer that names a state names that of an event in the log, or that *)
(* of no event; one that hands out a record hands out the one on disk.     *)
Stands(w) ==
  w # None =>
    /\ w.state # None =>
         \/ w.state = "Unknown" /\ w.head = None
         \/ /\ w.hash \in Hash
            /\ \E d \in events[w.hash] :
                 /\ w.state \in {d.new, StatusFor(d)}
                 /\ w.head # None =>
                      d.seq <= w.head.seq /\ w.state = StatusFor(d)
    /\ w.record # None =>
         /\ w.state = "Revoked" /\ w.hash \in Hash
         /\ revocation[w.hash] = w.record

SerialReadersInv ==
  /\ SerialInv /\ ReadersInv /\ LogsRise
  /\ \A r \in Reader : SawOf(at[r], saw[r]) /\ Stands(answer[r])

-----------------------------------------------------------------------------
(* What a command's step leaves of what readers saw.                       *)

(* Along a link of a log the standing stays or rises.                      *)
LEMMA LinksRise ==
  ASSUME NEW d, NEW e, LegalLink(d, e)
  PROVE  Standing(d.new) <= Standing(e.new)
BY DEF LegalLink, TableEdge, CanTransition, Precondition, Standing

LEMMA StandingType == \A state : Standing(state) \in Nat
BY DEF Standing

(* A consumer is never told of a standing above that of the event.         *)
LEMMA StatusIsNoHigher ==
  ASSUME NEW d, NEW state \in {d.new, StatusFor(d)}
  PROVE  Standing(state) <= Standing(d.new)
BY StandingType DEF StatusFor, Standing

(* A log only gets events on top, and they stand no lower.                 *)
LEMMA LogsOnlyRise ==
  ASSUME Serial, SerialInv, LogsRise, [Next]_vars
  PROVE  LogsRise' /\ \A h \in Hash : events[h] \subseteq events'[h]
<1>1. CASE UNCHANGED events
  BY <1>1 DEF LogsRise
<1>2. CASE Next /\ ~ UNCHANGED events
  <2>1. PICK p \in Proc : Begin(p) \/ Step(p) \/ Crash(p) \/ CrashInWrite(p)
    BY <1>2 DEF Next
  <2>. PICK h : h = job[p].hash
    OBVIOUS
  <2>2. TypeOK /\ LogStep(p)
    BY <2>1, NextCounts DEF SerialInv, Inv, SerialKeeps
  <2>3. CASE \E e : Created(h, e)
    <3>1. PICK e : Created(h, e)
      BY <2>3
    <3>2. events[h] = {} /\ events' = [events EXCEPT ![h] = {e}]
      BY <3>1 DEF Created, Slots, Files
    <3>3. \A g \in Hash : events'[g] = IF g = h THEN {e} ELSE events[g]
      BY <2>2, <3>2 DEF TypeOK
    <3>4. Standing(e.new) <= Standing(e.new)
      BY StandingType
    <3>. QED BY <3>2, <3>3, <3>4 DEF LogsRise
  <2>4. CASE \E e : Extended(h, base[p], e)
    <3>1. PICK b, e : Extended(h, b, e)
      BY <2>4
    <3>2. \A g \in Hash :
            events'[g] = IF g = h THEN events[g] \cup {e} ELSE events[g]
      BY <2>2, <3>1 DEF TypeOK, Extended
    <3>3. CASE h \in Hash
      <4>1. /\ b \in events[h] /\ b.seq \in Nat /\ e.seq = b.seq + 1
            /\ \A d \in events[h] : d.seq \in Nat /\ d.seq <= b.seq
        BY <2>2, <3>1, <3>3 DEF TypeOK, Extended, Last, IsHead, LegalLink, Event
      <4>2. \A d \in events[h] : ~ (e.seq <= d.seq)
        BY <4>1
      <4>3. \A d \in events[h] : Standing(d.new) <= Standing(b.new)
        BY <3>3, <4>1 DEF LogsRise
      <4>4. Standing(b.new) <= Standing(e.new)
        BY <3>1, LinksRise DEF Extended
      <4>5. \A d \in events[h] \cup {e} : Standing(d.new) <= Standing(e.new)
        BY <4>3, <4>4, StandingType
      <4>6. \A c, d \in events[h] \cup {e} :
              c.seq <= d.seq => Standing(c.new) <= Standing(d.new)
        BY <3>3, <4>2, <4>5 DEF LogsRise
      <4>. QED BY <3>2, <4>6 DEF LogsRise
    <3>4. CASE h \notin Hash
      BY <3>2, <3>4 DEF LogsRise
    <3>. QED BY <3>3, <3>4
  <2>. QED BY <1>2, <2>2, <2>3, <2>4 DEF LogStep, Truncated
<1>. QED BY <1>1, <1>2 DEF vars

(* A record, once on disk, is the record.                                  *)
LEMMA RecordsStay ==
  ASSUME SerialInv, [Next]_vars
  PROVE  \A h \in Hash : revocation[h] # None => revocation'[h] = revocation[h]
<1>1. CASE UNCHANGED vars
  BY <1>1 DEF vars
<1>2. CASE Next
  <2>1. PICK p \in Proc : Begin(p) \/ Step(p) \/ Crash(p) \/ CrashInWrite(p)
    BY <1>2 DEF Next
  <2>. QED BY <2>1, RecordMoves DEF SerialInv, Inv, TypeOK
<1>. QED BY <1>1, <1>2

LEMMA AnswersStand ==
  ASSUME \A h \in Hash : /\ events[h] \subseteq events'[h]
                         /\ revocation[h] # None => revocation'[h] = revocation[h]
  PROVE  /\ \A a, s : SawOf(a, s) => SawOf(a, s)'
         /\ \A w : Stands(w) => Stands(w)'
<1>1. \A s : Evidence(s) => Evidence(s)'
  BY DEF Evidence
<1>2. \A a, s : SawOf(a, s) => SawOf(a, s)'
  BY <1>1 DEF SawOf, StatusFor
<1>3. \A w : Stands(w) => Stands(w)'
  BY DEF Stands, StatusFor
<1>. QED BY <1>2, <1>3

LEMMA CommandKeepsAnswers ==
  ASSUME Serial, SerialReadersInv, [Next]_vars, UNCHANGED readers
  PROVE  SerialReadersInv'
<1>1. SerialInv' /\ ReadersInv'
  BY SerialInvIsInductive, CommandKeepsReaders DEF SerialReadersInv
<1>2. LogsRise' /\ \A h \in Hash : events[h] \subseteq events'[h]
  BY LogsOnlyRise DEF SerialReadersInv
<1>3. \A h \in Hash : revocation[h] # None => revocation'[h] = revocation[h]
  BY RecordsStay DEF SerialReadersInv
<1>4. \A r \in Reader : SawOf(at[r], saw[r])' /\ Stands(answer[r])'
  BY <1>2, <1>3, AnswersStand DEF SerialReadersInv, readers
<1>. QED BY <1>1, <1>2, <1>4 DEF SerialReadersInv

-----------------------------------------------------------------------------
(* The steps of a reader. a is its next call, s what it saw, w what it     *)
(* answered.                                                               *)
Turns(r, a, s, w) ==
  /\ at' = [at EXCEPT ![r] = a] /\ saw' = [saw EXCEPT ![r] = s]
  /\ answer' = [answer EXCEPT ![r] = w]

LEMMA TurnsKeepAnswers ==
  ASSUME SerialReadersInv, UNCHANGED vars, NEW r \in Reader,
         NEW a, NEW s, NEW w, Turns(r, a, s, w), SawOf(a, s), Stands(w)
  PROVE  \A q \in Reader : SawOf(at[q], saw[q])' /\ Stands(answer[q])'
<1>1. /\ \A b, t : SawOf(b, t) => SawOf(b, t)'
      /\ \A v : Stands(v) => Stands(v)'
  BY AnswersStand DEF vars
<1>2. at'[r] = a /\ saw'[r] = s /\ answer'[r] = w
  BY DEF Turns, SerialReadersInv, ReadersInv, Functions
<1>3. \A q \in Reader \ {r} :
        at'[q] = at[q] /\ saw'[q] = saw[q] /\ answer'[q] = answer[q]
  BY DEF Turns, SerialReadersInv, ReadersInv, Functions
<1>4. SawOf(at[r], saw[r])' /\ Stands(answer[r])'
  BY <1>1, <1>2
<1>5. \A q \in Reader \ {r} : SawOf(at[q], saw[q])' /\ Stands(answer[q])'
  BY <1>1, <1>3 DEF SerialReadersInv
<1>. QED BY <1>4, <1>5

(* What a step of a reader has to be shown to come to.                     *)
Turn(r) == \E a, s, w : Turns(r, a, s, w) /\ SawOf(a, s) /\ Stands(w)

LEMMA AnswerTurns ==
  ASSUME NEW r \in Reader, NEW reply, Answer(r, reply),
         Stands([reply EXCEPT !.how = ask[r].how])
  PROVE  Turn(r)
<1>1. Turns(r, "idle", Nothing, [reply EXCEPT !.how = ask[r].how])
  BY DEF Answer, Turns
<1>2. SawOf("idle", Nothing)
  BY DEF SawOf
<1>. QED BY <1>1, <1>2 DEF Turn

LEMMA FailTurns ==
  ASSUME NEW r \in Reader, NEW what, Fail(r, what)
  PROVE  Turn(r)
<1>. DEFINE reply == [Reply(what) EXCEPT !.hash = saw[r].hash]
            w == [reply EXCEPT !.how = ask[r].how]
<1>1. w.state = None /\ w.record = None
  BY DEF Reply
<1>2. Stands(w)
  BY <1>1 DEF Stands
<1>3. Answer(r, reply)
  BY DEF Fail
<1>. QED BY <1>2, <1>3, AnswerTurns

(* A reader that goes on keeps what it answered.                           *)
LEMMA GoOnTurns ==
  ASSUME SerialReadersInv, NEW r \in Reader, NEW label, NEW seen,
         GoOn(r, label, seen), SawOf(label, seen)
  PROVE  Turn(r)
<1>1. Turns(r, label, seen, answer[r])
  BY DEF GoOn, Turns, SerialReadersInv, ReadersInv, Functions
<1>2. Stands(answer[r])
  BY DEF SerialReadersInv
<1>. QED BY <1>1, <1>2 DEF Turn

LEMMA AskTurns ==
  ASSUME NEW r \in Reader, NewRequest(r)
  PROVE  Turn(r)
<1>1. ASSUME NEW how, NEW h, NEW arg, Ask(r, how, h, arg, "log")
             \/ Ask(r, how, h, arg, "pointer") \/ Ask(r, how, h, arg, "list")
             \/ Ask(r, how, h, arg, "bytes") \/ Ask(r, how, h, arg, "addresses")
      PROVE  Turn(r)
  <2>1. PICK label \in {"log", "pointer", "list", "bytes", "addresses"} :
          Ask(r, how, h, arg, label)
    BY <1>1
  <2>2. Turns(r, label, [Nothing EXCEPT !.hash = h], None)
    BY <2>1 DEF Ask, Turns
  <2>3. [Nothing EXCEPT !.hash = h].head = None
    BY DEF Nothing
  <2>4. SawOf(label, [Nothing EXCEPT !.hash = h]) /\ Stands(None)
    BY <2>1, <2>3 DEF SawOf, Stands
  <2>. QED BY <2>2, <2>4 DEF Turn
<1>. QED BY <1>1
     DEF NewRequest, AskByHash, AskByTag, AskByRegime, AskProvenance,
         AskVerify, AskGraph

(* Finding the artifact: nothing of its log is kept.                       *)
LEMMA CandidatesTurn ==
  ASSUME SerialReadersInv, NEW r \in Reader, NEW left, NEW found,
         Candidates(r, left, found)
  PROVE  Turn(r)
<1>0. Stands(answer[r])
  BY DEF SerialReadersInv
<1>1. CASE left # {}
  <2>1. Turns(r, "candidate", saw[r], answer[r])
    BY <1>1 DEF Candidates, Turns, SerialReadersInv, ReadersInv, Functions
  <2>2. SawOf("candidate", saw[r])
    BY DEF SawOf
  <2>. QED BY <1>0, <2>1, <2>2 DEF Turn
<1>2. CASE Fail(r, "not_found") \/ Fail(r, "ambiguous")
  BY <1>2, FailTurns
<1>3. CASE left = {} /\ ~ Fail(r, "not_found") /\ ~ Fail(r, "ambiguous")
  <2>1. PICK h \in found :
          /\ at' = [at EXCEPT ![r] = "log"]
          /\ saw' = [saw EXCEPT ![r].hash = h]
          /\ UNCHANGED answer
    BY <1>3 DEF Candidates
  <2>2. Turns(r, "log", [saw[r] EXCEPT !.hash = h], answer[r])
    BY <2>1 DEF Turns, SerialReadersInv, ReadersInv, Functions
  <2>3. SawOf("log", [saw[r] EXCEPT !.hash = h])
    BY DEF SawOf
  <2>. QED BY <1>0, <2>2, <2>3 DEF Turn
<1>. QED BY <1>1, <1>2, <1>3

LEMMA LookupTurns ==
  ASSUME SerialReadersInv, NEW r \in Reader,
         ReadPointer(r) \/ ListCandidates(r) \/ ReadCandidate(r)
  PROVE  Turn(r)
<1>1. CASE ReadPointer(r)
  <2>1. \A seen : SawOf("log", seen)
    BY DEF SawOf
  <2>. QED BY <1>1, <2>1, FailTurns, GoOnTurns DEF ReadPointer
<1>2. CASE ListCandidates(r)
  BY <1>2, FailTurns, CandidatesTurn DEF ListCandidates
<1>3. CASE ReadCandidate(r)
  <2>1. PICK h \in todo[r] :
          IF Readable(h)
          THEN Candidates(r, todo[r] \ {h},
                          hits[r] \cup {g \in {h} : StateIs(g, "Published")})
          ELSE Fail(r, "error")
    BY <1>3 DEF ReadCandidate
  <2>. QED BY <2>1, FailTurns, CandidatesTurn
<1>. QED BY <1>1, <1>2, <1>3

(* The end of a resolution: the state of the event that was seen.          *)
LEMMA ResolvedTurns ==
  ASSUME NEW r \in Reader, NEW record, Resolved(r, record),
         saw[r].hash \in Hash, saw[r].event \in events[saw[r].hash],
         record # None => /\ saw[r].event.new = "Revoked"
                          /\ revocation[saw[r].hash] = record
  PROVE  Turn(r)
<1>. DEFINE reply == [Reply("record") EXCEPT !.hash = saw[r].hash,
                        !.state = saw[r].event.new, !.record = record]
            w == [reply EXCEPT !.how = ask[r].how]
<1>1. /\ w.hash = saw[r].hash /\ w.state = saw[r].event.new
      /\ w.head = None /\ w.record = record
  BY DEF Reply
<1>. HIDE DEF w
<1>2. Stands(w)
  BY <1>1 DEF Stands
<1>3. Answer(r, reply)
  BY DEF Resolved
<1>. QED BY <1>2, <1>3, AnswerTurns DEF w

LEMMA ResolveTurns ==
  ASSUME SerialReadersInv, NEW r \in Reader,
         ReadLog(r) \/ FindManifest(r) \/ ReadRecord(r)
  PROVE  Turn(r)
<1>. PICK h : h = saw[r].hash
  OBVIOUS
<1>0. SawOf(at[r], saw[r]) /\ ReaderInv(r)
  BY DEF SerialReadersInv, ReadersInv
<1>1. CASE ReadLog(r)
  <2>. DEFINE seen == [saw[r] EXCEPT !.event = HeadOf(h)]
  <2>1. CASE Fail(r, "error") \/ Fail(r, "not_found")
    BY <2>1, FailTurns
  <2>2. CASE /\ at[r] = "log" /\ Readable(h) /\ events[h] # {}
             /\ GoOn(r, "manifest", seen)
    <3>1. h \in Hash /\ saw[r] \in Seen
      BY <1>0, <2>2 DEF ReaderInv, Fine, OfOne
    <3>2. HeadOf(h) \in events[h]
      BY <2>2, <3>1, HeadIsThere DEF SerialReadersInv, ReadersInv
    <3>3. seen.hash = h /\ seen.event = HeadOf(h)
      BY <3>1 DEF Seen
    <3>4. SawOf("manifest", seen)
      BY <3>1, <3>2, <3>3 DEF SawOf
    <3>. QED BY <2>2, <3>4, GoOnTurns
  <2>. QED BY <1>1, <2>1, <2>2 DEF ReadLog
<1>2. CASE FindManifest(r)
  <2>1. h \in Hash /\ saw[r].event \in events[h]
    BY <1>0, <1>2 DEF FindManifest, SawOf
  <2>2. CASE Fail(r, "error") \/ Fail(r, "not_found")
    BY <2>2, FailTurns
  <2>3. CASE GoOn(r, "record", saw[r]) /\ saw[r].event.new = "Revoked"
    <3>1. SawOf("record", saw[r])
      BY <2>1, <2>3 DEF SawOf
    <3>. QED BY <2>3, <3>1, GoOnTurns
  <2>4. CASE Resolved(r, None)
    BY <2>1, <2>4, ResolvedTurns
  <2>. QED BY <1>2, <2>2, <2>3, <2>4 DEF FindManifest
<1>3. CASE ReadRecord(r)
  <2>1. /\ h \in Hash /\ saw[r].event \in events[h]
        /\ saw[r].event.new = "Revoked"
    BY <1>0, <1>3 DEF ReadRecord, SawOf
  <2>. QED BY <1>3, <2>1, FailTurns, ResolvedTurns DEF ReadRecord
<1>. QED BY <1>1, <1>2, <1>3

-----------------------------------------------------------------------------
(* Registry evidence.                                                      *)

(* A graph export names no state and hands out no record.                  *)
LEMMA AddressesTurn ==
  ASSUME SerialReadersInv, NEW r \in Reader, NEW left, NEW exported,
         Addresses(r, left, exported)
  PROVE  Turn(r)
<1>1. CASE left # {}
  <2>1. PICK h \in left :
          /\ at' = [at EXCEPT ![r] = "bytes"]
          /\ saw' = [saw EXCEPT ![r] = [Nothing EXCEPT !.hash = h]]
          /\ UNCHANGED answer
    BY <1>1 DEF Addresses
  <2>2. Turns(r, "bytes", [Nothing EXCEPT !.hash = h], answer[r])
    BY <2>1 DEF Turns, SerialReadersInv, ReadersInv, Functions
  <2>3. [Nothing EXCEPT !.hash = h].head = None
    BY DEF Nothing
  <2>4. SawOf("bytes", [Nothing EXCEPT !.hash = h]) /\ Stands(answer[r])
    BY <2>3 DEF SawOf, SerialReadersInv
  <2>. QED BY <2>2, <2>4 DEF Turn
<1>2. CASE left = {}
  <2>. DEFINE reply == [Reply("graph") EXCEPT !.exported = exported]
              w == [reply EXCEPT !.how = ask[r].how]
  <2>1. w.state = None /\ w.record = None
    BY DEF Reply
  <2>2. Stands(w)
    BY <2>1 DEF Stands
  <2>3. Answer(r, reply)
    BY <1>2 DEF Addresses
  <2>. QED BY <2>2, <2>3, AnswerTurns
<1>. QED BY <1>1, <1>2

(* An answer from evidence: its status is that of the event that was seen. *)
LEMMA EvidenceStands ==
  ASSUME SerialInv, NEW s, Evidence(s), NEW w, w.hash = s.hash,
         w.state = StatusFor(s.event), w.head = s.head,
         w.record # None => /\ StatusFor(s.event) = "Revoked"
                            /\ revocation[s.hash] = w.record
  PROVE  Stands(w)
<1>1. CASE s.event = None /\ s.head = None
  <2>1. w.state = "Unknown" /\ w.head = None
    BY <1>1 DEF StatusFor
  <2>. QED BY <2>1 DEF Stands, Evidence
<1>2. CASE /\ s.event \in events[s.hash]
           /\ s.head # None => s.event.seq <= s.head.seq
  BY <1>2 DEF Stands, Evidence
<1>. QED BY <1>1, <1>2 DEF Evidence

LEMMA VerdictTurns ==
  ASSUME SerialReadersInv, NEW r \in Reader, NEW seen, NEW record,
         Verdict(r, seen, record), Evidence(seen),
         record # None => /\ StatusFor(seen.event) = "Revoked"
                          /\ revocation[seen.hash] = record
  PROVE  Turn(r)
<1>. DEFINE what == IF Passes(seen.hash, seen, ask[r].arg) THEN "verified" ELSE "rejected"
            reply == [Reply(what) EXCEPT !.hash = seen.hash,
                        !.state = StatusFor(seen.event), !.head = seen.head,
                        !.record = record]
            w == [reply EXCEPT !.how = ask[r].how]
<1>1. /\ w.hash = seen.hash /\ w.state = StatusFor(seen.event)
      /\ w.head = seen.head /\ w.record = record
  BY DEF Reply
<1>2. Answer(r, reply)
  BY DEF Verdict
<1>3. Stands(w)
  <2>. HIDE DEF w
  <2>. QED BY <1>1, EvidenceStands DEF SerialReadersInv
<1>. QED BY <1>2, <1>3, AnswerTurns

LEMMA DecideTurns ==
  ASSUME SerialReadersInv, NEW r \in Reader, NEW seen,
         Decide(r, seen), Evidence(seen), ask[r].how \in Consumers
  PROVE  Turn(r)
<1>1. CASE ask[r].how = "provenance"
  <2>. DEFINE reply == [Reply("evidence") EXCEPT !.hash = seen.hash,
                          !.state = StatusFor(seen.event), !.head = seen.head]
              w == [reply EXCEPT !.how = ask[r].how]
  <2>1. /\ w.hash = seen.hash /\ w.state = StatusFor(seen.event)
        /\ w.head = seen.head /\ w.record = None
    BY DEF Reply
  <2>2. Answer(r, reply)
    BY <1>1 DEF Decide
  <2>3. Stands(w)
    <3>. HIDE DEF w
    <3>. QED BY <2>1, EvidenceStands DEF SerialReadersInv
  <2>. QED BY <2>2, <2>3, AnswerTurns
<1>2. CASE ask[r].how = "verify"
  <2>1. CASE Fail(r, "error")
    BY <2>1, FailTurns
  <2>2. CASE GoOn(r, "policy", seen) /\ StatusFor(seen.event) = "Revoked"
    <3>1. SawOf("policy", seen)
      BY <2>2 DEF SawOf
    <3>. QED BY <2>2, <3>1, GoOnTurns
  <2>3. CASE Verdict(r, seen, None)
    BY <2>3, VerdictTurns
  <2>. QED BY <1>2, <2>1, <2>2, <2>3 DEF Decide
<1>3. CASE ask[r].how = "graph"
  BY <1>3, AddressesTurn DEF Decide
<1>. QED BY <1>1, <1>2, <1>3 DEF Consumers

(* The head of a readable log is not below any event of it.                *)
LEMMA HeadIsTop ==
  ASSUME Inv, LogsHaveTops, NEW h \in Hash, Readable(h), NEW e \in events[h]
  PROVE  HeadOf(h) \in events[h] /\ e.seq <= HeadOf(h).seq
<1>1. Files(h) = events[h]
  BY DEF Files, Readable
<1>2. SlotOf(e) \in Slots(h)
  BY <1>1 DEF Slots
<1>3. PICK s \in Slots(h) : \A z \in Slots(h) : z[1] <= s[1]
  BY <1>2 DEF LogsHaveTops
<1>4. PICK t \in events[h] : SlotOf(t) = s
  BY <1>1, <1>3 DEF Slots
<1>5. IsHead(h, t)
  <2>1. \A d \in events[h] : SlotOf(d) \in Slots(h)
    BY <1>1 DEF Slots
  <2>. QED BY <1>3, <1>4, <2>1 DEF SlotOf, IsHead
<1>6. HeadOf(h) \in events[h] /\ IsHead(h, HeadOf(h))
  BY <1>4, <1>5 DEF HeadOf
<1>. QED BY <1>6 DEF IsHead

LEMMA EvidenceTurns ==
  ASSUME SerialReadersInv, NEW r \in Reader,
         ListAddresses(r) \/ ReadBytes(r) \/ ReadStatus(r) \/ ReadHeadAgain(r)
           \/ ReadPolicy(r)
  PROVE  Turn(r)
<1>. PICK h : h = saw[r].hash
  OBVIOUS
<1>0. SawOf(at[r], saw[r]) /\ ReaderInv(r) /\ saw[r] \in Seen
  BY DEF SerialReadersInv, ReadersInv, ReaderInv, Fine
<1>1. CASE ListAddresses(r)
  BY <1>1, AddressesTurn DEF ListAddresses
<1>2. CASE ReadBytes(r)
  <2>. DEFINE seen == [saw[r] EXCEPT !.types = kew[h]]
  <2>1. CASE Fail(r, "error") \/ Fail(r, "not_found")
    BY <2>1, FailTurns
  <2>2. CASE Addresses(r, todo[r], hits[r])
    BY <2>2, AddressesTurn
  <2>3. CASE GoOn(r, "status", seen)
    <3>1. saw[r].head = None
      BY <1>0, <1>2 DEF ReadBytes, SawOf
    <3>2. seen.head = None
      BY <1>0, <3>1 DEF Seen
    <3>3. SawOf("status", seen)
      BY <3>2 DEF SawOf
    <3>. QED BY <2>3, <3>3, GoOnTurns
  <2>. QED BY <1>2, <2>1, <2>2, <2>3 DEF ReadBytes
<1>3. CASE ReadStatus(r)
  <2>. DEFINE seen == [saw[r] EXCEPT !.event = HeadOf(h)]
  <2>0. /\ at[r] = "status" /\ h \in Hash /\ ask[r].how \in Consumers
        /\ saw[r].head = None
    BY <1>0, <1>3 DEF ReadStatus, ReaderInv, Fine, OfOne, SawOf
  <2>1. seen.hash = h /\ seen.event = HeadOf(h) /\ seen.head = None
    BY <1>0, <2>0 DEF Seen
  <2>2. CASE Fail(r, "error")
    BY <2>2, FailTurns
  <2>3. CASE events[h] = {} /\ Decide(r, seen)
    <3>1. Evidence(seen)
      BY <2>0, <2>1, <2>3 DEF Evidence, HeadOf
    <3>. HIDE DEF seen
    <3>. QED BY <2>0, <2>3, <3>1, DecideTurns
  <2>4. CASE Readable(h) /\ events[h] # {} /\ GoOn(r, "head", seen)
    <3>1. HeadOf(h) \in events[h]
      BY <2>0, <2>4, HeadIsThere DEF SerialReadersInv, ReadersInv
    <3>2. SawOf("head", seen)
      BY <2>0, <2>1, <3>1 DEF SawOf
    <3>. QED BY <2>4, <3>2, GoOnTurns
  <2>. QED BY <1>3, <2>2, <2>3, <2>4 DEF ReadStatus
<1>4. CASE ReadHeadAgain(r)
  <2>. DEFINE seen == [saw[r] EXCEPT !.head = HeadOf(h)]
  <2>0. /\ at[r] = "head" /\ h \in Hash /\ ask[r].how \in Consumers
        /\ saw[r].event \in events[h]
    BY <1>0, <1>4 DEF ReadHeadAgain, ReaderInv, Fine, OfOne, SawOf
  <2>1. seen.hash = h /\ seen.event = saw[r].event /\ seen.head = HeadOf(h)
    BY <1>0 DEF Seen
  <2>2. CASE Fail(r, "error")
    BY <2>2, FailTurns
  <2>3. CASE Readable(h) /\ Decide(r, seen)
    <3>1. saw[r].event.seq <= HeadOf(h).seq
      BY <2>0, <2>3, HeadIsTop DEF SerialReadersInv, ReadersInv
    <3>2. Evidence(seen)
      BY <2>0, <2>1, <3>1 DEF Evidence
    <3>. HIDE DEF seen
    <3>. QED BY <2>0, <2>3, <3>2, DecideTurns
  <2>. QED BY <1>4, <2>2, <2>3 DEF ReadHeadAgain
<1>5. CASE ReadPolicy(r)
  <2>1. Evidence(saw[r]) /\ StatusFor(saw[r].event) = "Revoked"
    BY <1>0, <1>5 DEF ReadPolicy, SawOf
  <2>. QED BY <1>5, <2>1, FailTurns, VerdictTurns DEF ReadPolicy
<1>. QED BY <1>1, <1>2, <1>3, <1>4, <1>5

LEMMA ReadingKeepsAnswers ==
  ASSUME Serial, SerialReadersInv, UNCHANGED vars, NEW r \in Reader,
         NewRequest(r) \/ Read(r)
  PROVE  SerialReadersInv'
<1>1. Turn(r)
  BY AskTurns, LookupTurns, ResolveTurns, EvidenceTurns DEF Read
<1>2. \A q \in Reader : SawOf(at[q], saw[q])' /\ Stands(answer[q])'
  BY <1>1, TurnsKeepAnswers DEF Turn
<1>3. SerialInv' /\ LogsRise'
  BY SerialInvIsInductive, LogsOnlyRise DEF SerialReadersInv
<1>4. ReadersInv'
  BY AskStep, PointerStep, LookupStep, ResolveStep, EvidenceStep
  DEF Read, SerialReadersInv
<1>. QED BY <1>2, <1>3, <1>4 DEF SerialReadersInv

-----------------------------------------------------------------------------
(* The theorems.                                                           *)

LEMMA InitAnswers == Init /\ ReadersInit => SerialReadersInv
<1>. SUFFICES ASSUME Init, ReadersInit PROVE SerialReadersInv
  OBVIOUS
<1>1. SerialInv /\ Inv
  BY InitSerial, InitInv
<1>2. LogsHaveTops /\ LogsRise
  BY DEF Init, LogsHaveTops, LogsRise, Slots, Files
<1>3. Functions
  BY DEF ReadersInit, Functions
<1>4. HeldOut(None) = {}
  BY DEF HeldOut
<1>5. \A r \in Reader : ReaderInv(r)
  BY <1>4, NothingIsSeen DEF ReadersInit, ReaderInv, Fine, OfOne
<1>6. \A r \in Reader : SawOf(at[r], saw[r]) /\ Stands(answer[r])
  BY DEF ReadersInit, SawOf, Stands
<1>. QED BY <1>1, <1>2, <1>3, <1>5, <1>6 DEF SerialReadersInv, ReadersInv

(* What readers saw and were answered stands, whatever commands one        *)
(* operator runs, and stops, between their reads.                          *)
THEOREM AnswersKeepStanding ==
  ASSUME Serial
  PROVE  ReadersSpec => []SerialReadersInv
<1>1. SerialReadersInv /\ [ReadersNext]_allVars => SerialReadersInv'
  <2>. SUFFICES ASSUME SerialReadersInv, [ReadersNext]_allVars
                PROVE  SerialReadersInv'
    OBVIOUS
  <2>1. CASE [Next]_vars /\ UNCHANGED readers
    BY <2>1, CommandKeepsAnswers
  <2>2. ASSUME NEW r \in Reader, NewRequest(r) \/ Read(r), UNCHANGED vars
        PROVE  SerialReadersInv'
    BY <2>2, ReadingKeepsAnswers
  <2>3. CASE UNCHANGED allVars
    <3>1. UNCHANGED vars /\ UNCHANGED readers
      BY <2>3 DEF allVars, vars, readers
    <3>. QED BY <2>1, <3>1
  <2>4. CASE ReadersNext
    BY <2>1, <2>2, <2>4 DEF ReadersNext
  <2>. QED BY <2>3, <2>4
<1>. QED BY InitAnswers, <1>1, PTL DEF ReadersSpec

(* read_registry_evidence: the status it reports, of its first reading, is *)
(* that of an event at or below the head of its second, still in the log.  *)
THEOREM StatusIsNotAheadOfHead ==
  ASSUME Serial
  PROVE  ReadersSpec => []StatusNeverLeadsHead
<1>1. SerialReadersInv => StatusNeverLeadsHead
  BY DEF SerialReadersInv, Stands, StatusNeverLeadsHead, Says
<1>. QED BY AnswersKeepStanding, <1>1, PTL

(* A consumer's answer is overtaken by later commands, never taken back:   *)
(* the log stands at least where it was said to.                           *)
THEOREM AnswersOnlyAge ==
  ASSUME Serial
  PROVE  ReadersSpec => []AnswersAreNotTakenBack
<1>1. SerialReadersInv => AnswersAreNotTakenBack
  <2>. SUFFICES ASSUME SerialReadersInv, NEW r \in Reader, Says(r),
                       NEW state, StateIs(answer[r].hash, state)
                PROVE  Standing(answer[r].state) <= Standing(state)
    BY DEF AnswersAreNotTakenBack
  <2>. PICK h, w : w = answer[r] /\ h = w.hash
    OBVIOUS
  <2>1. w # None /\ w.state # None /\ Stands(w)
    BY DEF Says, SerialReadersInv
  <2>2. CASE w.state = "Unknown"
    BY <2>2, StandingType DEF Standing
  <2>3. CASE w.state # "Unknown"
    <3>1. h \in Hash
      BY <2>1, <2>3 DEF Stands
    <3>2. PICK d \in events[h] : w.state \in {d.new, StatusFor(d)}
      BY <2>1, <2>3 DEF Stands
    <3>3. PICK e \in events[h] : IsHead(h, e) /\ e.new = state
      BY DEF StateIs
    <3>4. Standing(d.new) <= Standing(e.new)
      BY <3>1, <3>3 DEF SerialReadersInv, LogsRise, IsHead
    <3>5. Standing(w.state) <= Standing(d.new)
      BY <3>2, StatusIsNoHigher
    <3>. QED BY <3>3, <3>4, <3>5, StandingType
  <2>. QED BY <2>2, <2>3
<1>. QED BY AnswersKeepStanding, <1>1, PTL

(* A revocation record handed to a consumer, by resolve or by /verify,     *)
(* came with Revoked and is the record on disk for good.                   *)
THEOREM RecordsAreFinal ==
  ASSUME Serial
  PROVE  ReadersSpec => []RecordsHandedOutAreFinal
<1>1. SerialReadersInv => RecordsHandedOutAreFinal
  BY DEF SerialReadersInv, Stands, RecordsHandedOutAreFinal
<1>. QED BY AnswersKeepStanding, <1>1, PTL

=============================================================================
