-------------------------- MODULE ForwardingProofs --------------------------
(***************************************************************************)
(* Theorems about Forwarding for every number of goroutines, routes,       *)
(* buffers, requests and versions of the descriptor file.                  *)
(*                                                                         *)
(* What is true of a goroutine alone is stated for its record r, with the  *)
(* scenario s, the file's version v and the number of requests n where it  *)
(* depends on them; what relates goroutines, buffers and wires is Unique   *)
(* and Separate.                                                           *)
(***************************************************************************)
EXTENDS Forwarding, TLAPS

-----------------------------------------------------------------------------
(* The inductive invariant                                                 *)

Fields == DOMAIN Idle

Shaped(r, s) ==
  /\ DOMAIN r = Fields
  /\ r.pc \in Steps /\ r.of \in Nat /\ r.route \in Routes \cup {None}
  /\ r.seen \subseteq Nat /\ r.stamp \in Nat /\ r.files \in Nat
  /\ {r.raw, r.body, r.reply} \subseteq Buffers \cup {None} /\ r.closed \in BOOLEAN
  /\ r.answer \in s.answers \cup {None} /\ r.status \in Nat /\ r.code \in Nat \cup {None}
  /\ r.counted \in BOOLEAN

\* An idle goroutine remembers nothing; another has a request and its route.
Serves(r, n) ==
  /\ r.pc = "idle" => r = Idle
  /\ r.pc # "idle" => r.of \in 1 .. n /\ r.route \in Routes

\* A goroutine that looks for the descriptor knows every version since it began, and
\* what it has noted and read is one of them, in this order.
Fresh(r, v) ==
  /\ r.seen # {} <=> r.pc \in {"stat", "check", "load", "store", "build"}
  /\ \A u \in r.seen : u \in 1 .. v /\ u .. v \subseteq r.seen
  /\ r.pc \in {"check", "load", "store"} => r.stamp \in r.seen
  /\ r.pc = "store" => r.files \in r.stamp .. v
  /\ r.pc = "build" => r.files \in r.seen

\* Which buffers a goroutine has at its step.
Holds(r) ==
  /\ r.closed => r.body # None
  /\ r.raw # None <=> r.pc \in {"convert", "rewrite", "copy"}
  /\ r.body # None => r.pc \in {"sent", "answered", "readback", "rewrite", "copy", "end"}
  /\ r.pc = "sent" => r.body # None
  /\ r.reply # None => r.pc \in {"copy", "end"}

\* What FailureStaysFailure demands for an answer on a route.
Right(route, a, status, code) ==
  CASE Mode[route] = "http_json_to_grpc" /\ CallFailed(a) -> status >= 400 /\ ~Success(status)
    [] Mode[route] = "grpc_to_http_json" /\ a.status >= 400 -> code \notin {None, 0} \/ status = 502
    [] Mode[route] = "none" -> status = a.status
    [] OTHER -> \/ status = 200 /\ code \in {None, 0}
                \/ status = 502

\* What has become of the answer so far.
Told(r, s) ==
  /\ r.pc \in {"readback", "rewrite"} => /\ r.answer \in s.answers /\ r.code = None
                                         /\ Mode[r.route] # "none"
  /\ r.pc \notin {"readback", "rewrite", "copy", "end"} => r.answer = None /\ r.code = None
  /\ r.answer # None => r.counted
  /\ r.pc \in {"copy", "end"} /\ r.answer # None => Right(r.route, r.answer, r.status, r.code)

Local(r, s, v, n) ==
  Shaped(r, s) /\ Serves(r, n) /\ Fresh(r, v) /\ Holds(r) /\ Told(r, s)

Locals ==
  /\ DOMAIN handlers = Handlers
  /\ \A h \in Handlers : Local(handlers[h], scenario, version, requests)

\* A request is served by one goroutine.
Unique ==
  \A g, h \in Handlers : handlers[g].pc # "idle" /\ handlers[g].of = handlers[h].of => g = h

Typed ==
  /\ scenario \in Scenarios /\ version \in DOMAIN file /\ requests \in Nat
  /\ resolved \in {None} \cup [files : DOMAIN file, stamp : DOMAIN file]
  /\ resolved # None => resolved.stamp <= resolved.files /\ resolved.files <= version
  /\ transcoders \in [Routes -> {None} \cup DOMAIN file]
  /\ bytes \in [Buffers -> 0 .. requests]
  /\ pool \in [Buffers -> {0, 1}] /\ \A b \in Buffers : pool[b] > 0 => b \in PoolSized
  /\ wires \subseteq [of : 1 .. requests, buf : Buffers, closed : BOOLEAN]

TypeInv == Typed /\ Locals /\ Unique

-----------------------------------------------------------------------------
(* Lemmas about one goroutine                                              *)

\* The content of the file, and what an answer may be.
LEMMA ScenarioLemma ==
  ASSUME scenario \in Scenarios
  PROVE  /\ DOMAIN file = 1 .. Len(file) /\ Len(file) \in Nat \ {0}
         /\ scenario.routes \subseteq Routes /\ scenario.buffers \subseteq Buffers
         /\ \A a \in Answers : /\ a.status \in Nat /\ {a.header, a.trailer} \subseteq Int \cup {None}
                               /\ None \in {a.header, a.trailer}
<1>1. file # <<>> /\ file \in Seq({"good", "missing", "malformed", "methodless"})
  BY ScenarioAssumption DEF file
<1>2. DOMAIN file = 1 .. Len(file) /\ Len(file) \in Nat \ {0}
  BY <1>1
<1> QED BY <1>2, ScenarioAssumption, AnswerAssumption DEF Answers

LEMMA IdleLemma ==
  ASSUME NEW s, NEW v \in Nat, NEW n
  PROVE  Local(Idle, s, v, n) /\ Idle.pc = "idle" /\ Idle.of = 0
BY DEF Idle, Local, Fields, Shaped, Serves, Fresh, Holds, Told, Steps

\* What every step of a goroutine relies on.
LEMMA StepFacts ==
  ASSUME TypeInv, NEW h \in Handlers
  PROVE  /\ DOMAIN handlers = Handlers /\ Local(handlers[h], scenario, version, requests)
         /\ version \in Nat /\ requests \in Nat /\ version \in 1 .. Len(file) /\ DOMAIN file = 1 .. Len(file)
         /\ Len(file) \in Nat
BY ScenarioLemma DEF TypeInv, Typed, Locals

\* The goroutine h goes on as r, and serves the same request, if any.
Onward(h, r) ==
  /\ Become(h, r) /\ Local(r, scenario, version, requests) /\ r.of \in {handlers[h].of, 0}
  /\ handlers[h].pc # "idle" /\ UNCHANGED <<scenario, version, requests>>

LEMMA OnwardLemma ==
  ASSUME TypeInv, NEW h \in Handlers, NEW r, Onward(h, r)
  PROVE  /\ Locals' /\ Unique' /\ handlers'[h] = r
         /\ \A g \in Handlers \ {h} : handlers'[g] = handlers[g]
<1>1. DOMAIN handlers = Handlers
  BY DEF TypeInv, Locals
<1>2. /\ DOMAIN handlers' = Handlers /\ handlers'[h] = r
      /\ \A g \in Handlers \ {h} : handlers'[g] = handlers[g]
  BY <1>1 DEF Onward, Become
<1>3. Locals'
  BY <1>2 DEF Onward, TypeInv, Locals
<1>4. \A g \in Handlers : handlers[g].pc # "idle" => handlers[g].of # 0
  <2> SUFFICES ASSUME NEW g \in Handlers, handlers[g].pc # "idle" PROVE handlers[g].of # 0
    OBVIOUS
  <2> QED BY StepFacts DEF Local, Serves
<1>5. \A g \in Handlers : handlers'[g].pc # "idle" => handlers'[g].of # 0
  <2> SUFFICES ASSUME NEW g \in Handlers, handlers'[g].pc # "idle" PROVE handlers'[g].of # 0
    OBVIOUS
  <2>1. Local(handlers'[g], scenario', version', requests') /\ requests' \in Nat
    BY <1>3, StepFacts DEF Locals, Onward
  <2> QED BY <2>1 DEF Local, Serves
<1>6. Unique'
  BY <1>2, <1>4, <1>5 DEF Onward, Unique, TypeInv
<1> QED BY <1>2, <1>3, <1>6

\* The records q and r are of the same request and have the same buffers.
SameBuffers(q, r) ==
  r.of = q.of /\ r.raw = q.raw /\ r.body = q.body /\ r.closed = q.closed /\ r.reply = q.reply
NoBuffers(r) == r.raw = None /\ r.body = None /\ ~r.closed /\ r.reply = None

LEMMA NotPreparedStep ==
  ASSUME TypeInv, NEW h \in Handlers, NotPrepared(h), UNCHANGED <<scenario, version, requests>>,
         handlers[h].pc \in {"stat", "load", "build"}
  PROVE  \E r : Onward(h, r) /\ SameBuffers(handlers[h], r)
<1> DEFINE q == handlers[h]
           r == [q EXCEPT !.pc = "end", !.seen = {}, !.stamp = 0, !.files = 0, !.status = 500]
<1>1. Local(q, scenario, version, requests) /\ version \in Nat
  BY StepFacts
<1>2. Local(r, scenario, version, requests) /\ r.of = q.of /\ SameBuffers(q, r)
  BY <1>1 DEF Local, Fields, Idle, Shaped, Serves, Fresh, Holds, Told, Steps, SameBuffers
<1> QED BY <1>1, <1>2 DEF NotPrepared, Onward

LEMMA StatStep ==
  ASSUME TypeInv, NEW h \in Handlers, Stat(h)
  PROVE  \E r : Onward(h, r) /\ SameBuffers(handlers[h], r)
<1> DEFINE q == handlers[h]
           r == [q EXCEPT !.pc = "check", !.stamp = version]
<1>1. /\ Local(q, scenario, version, requests) /\ version \in Nat /\ q.pc = "stat"
      /\ UNCHANGED <<scenario, version, requests>>
  BY StepFacts DEF Stat, fileVars
<1>2. Local(r, scenario, version, requests) /\ r.of = q.of /\ SameBuffers(q, r)
  BY <1>1 DEF Local, Fields, Idle, Shaped, Serves, Fresh, Holds, Told, Steps, SameBuffers
<1> QED BY <1>1, <1>2, NotPreparedStep DEF Stat, Onward

LEMMA CheckCacheStep ==
  ASSUME TypeInv, NEW h \in Handlers, CheckCache(h)
  PROVE  \E r : Onward(h, r) /\ SameBuffers(handlers[h], r)
<1> DEFINE q == handlers[h]
           hit == [q EXCEPT !.pc = "build", !.files = resolved.files]
           miss == [q EXCEPT !.pc = "load"]
<1>1. /\ Local(q, scenario, version, requests) /\ version \in Nat /\ q.pc = "check"
      /\ UNCHANGED <<scenario, version, requests>>
  BY StepFacts DEF CheckCache, fileVars
<1>2. CASE resolved # None /\ resolved.stamp = q.stamp
  <2>1. resolved.files \in q.stamp .. version
    BY <1>1, <1>2, StepFacts DEF TypeInv, Typed
  <2>2. Local(hit, scenario, version, requests) /\ hit.of = q.of /\ SameBuffers(q, hit)
    BY <1>1, <2>1 DEF Local, Fields, Idle, Shaped, Serves, Fresh, Holds, Told, Steps, SameBuffers
  <2> QED BY <1>1, <1>2, <2>2 DEF CheckCache, Onward
<1>3. CASE ~(resolved # None /\ resolved.stamp = q.stamp)
  <2>1. Local(miss, scenario, version, requests) /\ miss.of = q.of /\ SameBuffers(q, miss)
    BY <1>1 DEF Local, Fields, Idle, Shaped, Serves, Fresh, Holds, Told, Steps, SameBuffers
  <2> QED BY <1>1, <1>3, <2>1 DEF CheckCache, Onward
<1> QED BY <1>2, <1>3

LEMMA ReadFileStep ==
  ASSUME TypeInv, NEW h \in Handlers, ReadFile(h)
  PROVE  \E r : Onward(h, r) /\ SameBuffers(handlers[h], r)
<1> DEFINE q == handlers[h]
           r == [q EXCEPT !.pc = "store", !.files = version]
<1>1. /\ Local(q, scenario, version, requests) /\ version \in Nat /\ q.pc = "load"
      /\ UNCHANGED <<scenario, version, requests>>
  BY StepFacts DEF ReadFile, fileVars
<1>2. Local(r, scenario, version, requests) /\ r.of = q.of /\ SameBuffers(q, r)
  BY <1>1 DEF Local, Fields, Idle, Shaped, Serves, Fresh, Holds, Told, Steps, SameBuffers
<1> QED BY <1>1, <1>2, NotPreparedStep DEF ReadFile, Onward

LEMMA StoreEntryStep ==
  ASSUME TypeInv, NEW h \in Handlers, StoreEntry(h)
  PROVE  /\ \E r : Onward(h, r) /\ SameBuffers(handlers[h], r)
         /\ resolved' \in [files : DOMAIN file, stamp : DOMAIN file]
         /\ resolved'.stamp <= resolved'.files /\ resolved'.files <= version
<1> DEFINE q == handlers[h]
           r == [q EXCEPT !.pc = "build"]
<1>1. /\ Local(q, scenario, version, requests) /\ version \in Nat /\ q.pc = "store"
      /\ UNCHANGED <<scenario, version, requests>>
  BY StepFacts DEF StoreEntry, fileVars
<1>2. Local(r, scenario, version, requests) /\ r.of = q.of /\ SameBuffers(q, r)
  BY <1>1 DEF Local, Fields, Idle, Shaped, Serves, Fresh, Holds, Told, Steps, SameBuffers
<1>3. q.stamp \in 1 .. version /\ q.files \in q.stamp .. version
  BY <1>1 DEF Local, Fresh
<1>4. q.stamp \in DOMAIN file /\ q.files \in DOMAIN file /\ q.stamp <= q.files /\ q.files <= version
  BY <1>1, <1>3, StepFacts
<1> QED BY <1>1, <1>2, <1>4 DEF StoreEntry, Onward, Entry

LEMMA StoreTranscoderStep ==
  ASSUME TypeInv, NEW h \in Handlers, StoreTranscoder(h)
  PROVE  /\ \E r : Onward(h, r) /\ SameBuffers(handlers[h], r)
         /\ handlers[h].files \in handlers[h].seen
         /\ transcoders' \in [Routes -> {None} \cup DOMAIN file]
<1> DEFINE q == handlers[h]
           r == [q EXCEPT !.pc = "receive", !.seen = {}, !.stamp = 0, !.files = 0]
<1>1. /\ Local(q, scenario, version, requests) /\ version \in Nat /\ q.pc = "build"
      /\ UNCHANGED <<scenario, version, requests>>
  BY StepFacts DEF StoreTranscoder, fileVars
<1>2. Local(r, scenario, version, requests) /\ r.of = q.of /\ SameBuffers(q, r)
  BY <1>1 DEF Local, Fields, Idle, Shaped, Serves, Fresh, Holds, Told, Steps, SameBuffers
<1>3. q.files \in q.seen /\ q.files \in DOMAIN file
  BY <1>1, StepFacts DEF Local, Fresh
<1>4. transcoders' \in [Routes -> {None} \cup DOMAIN file]
  BY <1>3 DEF StoreTranscoder, TypeInv, Typed
<1> QED BY <1>1, <1>2, <1>3, <1>4, NotPreparedStep DEF StoreTranscoder, Onward

\* A request that arrives at an idle goroutine.
LEMMA PrepareStep ==
  ASSUME TypeInv, NEW h \in Handlers, NEW route \in scenario.routes, Prepare(h, route)
  PROVE  \E r : /\ Become(h, r) /\ Local(r, scenario, version, requests') /\ r.of = requests'
                /\ r.pc # "idle" /\ NoBuffers(r) /\ handlers[h].pc = "idle"
<1> DEFINE begun == [Idle EXCEPT !.of = requests', !.route = route]
           Good(r) == /\ Local(r, scenario, version, requests') /\ r.of = requests'
                      /\ r.pc # "idle" /\ NoBuffers(r)
<1>1. /\ handlers[h].pc = "idle" /\ handlers[h] = Idle /\ route \in Routes
      /\ version \in Nat /\ version > 0 /\ requests \in Nat /\ requests' = requests + 1
  BY StepFacts, ScenarioLemma DEF Prepare, TypeInv, Typed, Local, Serves
<1>2. Good([begun EXCEPT !.pc = "answered"])
  BY <1>1 DEF Local, Fields, Idle, Shaped, Serves, Fresh, Holds, Told, Steps, NoBuffers
<1>3. Good([begun EXCEPT !.pc = "receive"])
  BY <1>1 DEF Local, Fields, Idle, Shaped, Serves, Fresh, Holds, Told, Steps, NoBuffers
<1>4. Good([begun EXCEPT !.pc = "stat", !.seen = {version}])
  BY <1>1 DEF Local, Fields, Idle, Shaped, Serves, Fresh, Holds, Told, Steps, NoBuffers
<1> QED BY <1>1, <1>2, <1>3, <1>4 DEF Prepare

\* A body is read into a buffer: that of the request, or that of the answer.
Reads(h, r) ==
  \/ SameBuffers(handlers[h], r) /\ UNCHANGED bufferVars
  \/ \E b \in Buffers :
       /\ Acquire(b, handlers[h].of) /\ r.raw = b /\ r.of = handlers[h].of
       /\ r.body = handlers[h].body /\ r.closed = handlers[h].closed /\ r.reply = handlers[h].reply

LEMMA ReadStep ==
  ASSUME TypeInv, NEW h \in Handlers, ReadRequest(h) \/ ReadResponse(h)
  PROVE  \E r : Onward(h, r) /\ Reads(h, r)
<1> DEFINE q == handlers[h]
           r1(b) == [q EXCEPT !.pc = "convert", !.raw = b]
           r2(b) == [q EXCEPT !.pc = "rewrite", !.raw = b]
           f1 == [q EXCEPT !.pc = "end", !.status = 400]
           f2 == [q EXCEPT !.pc = "end", !.status = 502]
<1>1. /\ Local(q, scenario, version, requests) /\ version \in Nat /\ q.pc # "idle"
      /\ UNCHANGED <<scenario, version, requests>> /\ scenario.buffers \subseteq Buffers
      /\ None \notin Buffers
  BY StepFacts, ScenarioLemma, NoneAssumption DEF ReadRequest, ReadResponse, fileVars, TypeInv, Typed
<1>2. CASE ReadRequest(h)
  <2>1. q.pc = "receive"
    BY <1>2 DEF ReadRequest
  <2>2. ASSUME NEW b \in Buffers, Acquire(b, q.of), Become(h, r1(b))
        PROVE  \E r : Onward(h, r) /\ Reads(h, r)
    <3>1. /\ r1(b).of = q.of /\ r1(b).raw = b /\ r1(b).body = q.body /\ r1(b).closed = q.closed
          /\ r1(b).reply = q.reply /\ Shaped(r1(b), scenario) /\ Serves(r1(b), requests)
          /\ Fresh(r1(b), version)
      BY <1>1, <2>1 DEF Local, Fields, Idle, Shaped, Serves, Fresh, Steps
    <3>2. Holds(r1(b)) /\ Told(r1(b), scenario)
      <4>1. /\ r1(b).pc = "convert" /\ r1(b).answer = q.answer /\ r1(b).code = q.code
        BY <1>1 DEF Local, Shaped, Fields, Idle
      <4>2. Holds(r1(b))
        BY <1>1, <2>1, <3>1, <4>1 DEF Local, Holds
      <4>3. Told(r1(b), scenario)
        BY <1>1, <2>1, <4>1 DEF Local, Told
      <4> QED BY <4>2, <4>3
    <3>3. Local(r1(b), scenario, version, requests)
      BY <3>1, <3>2 DEF Local
    <3> QED BY <1>1, <2>2, <3>1, <3>3 DEF Onward, Reads
  <2>3. Local(f1, scenario, version, requests) /\ f1.of = q.of /\ SameBuffers(q, f1)
    BY <1>1, <2>1 DEF Local, Fields, Idle, Shaped, Serves, Fresh, Holds, Told, Steps, SameBuffers
  <2> QED BY <1>1, <1>2, <2>2, <2>3 DEF ReadRequest, Onward, Reads
<1>3. CASE ReadResponse(h)
  <2>1. q.pc = "readback"
    BY <1>3 DEF ReadResponse
  <2>2. ASSUME NEW b \in Buffers, Acquire(b, q.of), Become(h, r2(b))
        PROVE  \E r : Onward(h, r) /\ Reads(h, r)
    <3>1. /\ r2(b).of = q.of /\ r2(b).raw = b /\ r2(b).body = q.body /\ r2(b).closed = q.closed
          /\ r2(b).reply = q.reply /\ Shaped(r2(b), scenario) /\ Serves(r2(b), requests)
          /\ Fresh(r2(b), version)
      BY <1>1, <2>1 DEF Local, Fields, Idle, Shaped, Serves, Fresh, Steps
    <3>2. Holds(r2(b)) /\ Told(r2(b), scenario)
      BY <1>1, <2>1 DEF Local, Fields, Idle, Shaped, Holds, Told
    <3>3. Local(r2(b), scenario, version, requests)
      BY <3>1, <3>2 DEF Local
    <3> QED BY <1>1, <2>2, <3>1, <3>3 DEF Onward, Reads
  <2>3. f2.of = q.of /\ SameBuffers(q, f2) /\ Shaped(f2, scenario) /\ Serves(f2, requests)
        /\ Fresh(f2, version) /\ Holds(f2)
    BY <1>1, <2>1 DEF Local, Fields, Idle, Shaped, Serves, Fresh, Holds, Told, Steps, SameBuffers
  <2>4. Told(f2, scenario)
    <3>1. f2.pc = "end" /\ f2.answer = q.answer /\ f2.counted = q.counted /\ f2.status = 502
          /\ f2.route = q.route /\ f2.code = q.code
      BY <1>1 DEF Local, Shaped, Fields, Idle
    <3>2. q.code = None /\ Mode[q.route] # "none" /\ (q.answer # None => q.counted)
      BY <1>1, <2>1 DEF Local, Told
    <3>3. Right(q.route, q.answer, 502, None)
      BY <3>2 DEF Right, Success
    <3> QED BY <3>1, <3>2, <3>3 DEF Told
  <2> QED BY <1>1, <1>3, <2>2, <2>3, <2>4 DEF ReadResponse, Onward, Reads, Local
<1> QED BY <1>2, <1>3

LEMMA ConvertRequestStep ==
  ASSUME TypeInv, NEW h \in Handlers, ConvertRequest(h)
  PROVE  \/ \E r : /\ Onward(h, r) /\ r.of = handlers[h].of /\ r.raw = None /\ r.body = handlers[h].body
                   /\ r.closed = handlers[h].closed /\ r.reply = handlers[h].reply
                   /\ UNCHANGED <<bufferVars, wires>>
         \/ \E r, b : /\ Onward(h, r) /\ b \in Buffers /\ Allocate(b, bytes[handlers[h].raw])
                      /\ handlers[h].raw \in Buffers /\ handlers[h].body = None /\ ~handlers[h].closed
                      /\ r.of = handlers[h].of /\ r.of \in 1 .. requests
                      /\ r.raw = None /\ r.body = b /\ ~r.closed /\ r.reply = handlers[h].reply
                      /\ wires' = wires \cup {[of |-> r.of, buf |-> b, closed |-> FALSE]}
<1> DEFINE q == handlers[h]
           r(b) == [q EXCEPT !.pc = "sent", !.raw = None, !.body = b]
           f == [q EXCEPT !.pc = "end", !.raw = None, !.status = 400]
<1>1. /\ Local(q, scenario, version, requests) /\ version \in Nat /\ q.pc = "convert"
      /\ UNCHANGED <<scenario, version, requests>> /\ scenario.buffers \subseteq Buffers
      /\ None \notin Buffers
  BY StepFacts, ScenarioLemma, NoneAssumption DEF ConvertRequest, fileVars, TypeInv, Typed
<1>2. q.raw \in Buffers /\ q.body = None /\ q.closed = FALSE /\ q.of \in 1 .. requests
  BY <1>1 DEF Local, Holds, Shaped, Serves
<1>3. ASSUME NEW b \in Buffers
      PROVE  /\ Local(r(b), scenario, version, requests) /\ r(b).of = q.of /\ r(b).raw = None
             /\ r(b).body = b /\ r(b).closed = FALSE /\ r(b).reply = q.reply
  BY <1>1, <1>2 DEF Local, Fields, Idle, Shaped, Serves, Fresh, Holds, Told, Steps
<1>4. /\ Local(f, scenario, version, requests) /\ f.of = q.of /\ f.raw = None
      /\ f.body = q.body /\ f.closed = q.closed /\ f.reply = q.reply
  BY <1>1, <1>2 DEF Local, Fields, Idle, Shaped, Serves, Fresh, Holds, Told, Steps
<1>5. \/ UNCHANGED <<bufferVars, wires>> /\ Become(h, f)
      \/ \E b \in Buffers : /\ Become(h, r(b)) /\ Allocate(b, bytes[q.raw])
                            /\ wires' = wires \cup {[of |-> q.of, buf |-> b, closed |-> FALSE]}
  BY <1>1 DEF ConvertRequest
<1> HIDE DEF r, f
<1>6. CASE UNCHANGED <<bufferVars, wires>> /\ Become(h, f)
  BY <1>1, <1>4, <1>6 DEF Onward
<1>7. ASSUME NEW b \in Buffers, Become(h, r(b)), Allocate(b, bytes[q.raw]),
             wires' = wires \cup {[of |-> q.of, buf |-> b, closed |-> FALSE]}
      PROVE  \E rr, bb :
               /\ Onward(h, rr) /\ bb \in Buffers /\ Allocate(bb, bytes[handlers[h].raw])
               /\ handlers[h].raw \in Buffers /\ handlers[h].body = None /\ ~handlers[h].closed
               /\ rr.of = handlers[h].of /\ rr.of \in 1 .. requests
               /\ rr.raw = None /\ rr.body = bb /\ ~rr.closed /\ rr.reply = handlers[h].reply
               /\ wires' = wires \cup {[of |-> rr.of, buf |-> bb, closed |-> FALSE]}
  <2>1. Onward(h, r(b))
    BY <1>1, <1>3, <1>7 DEF Onward
  <2>2. wires' = wires \cup {[of |-> r(b).of, buf |-> b, closed |-> FALSE]}
    BY <1>3, <1>7
  <2> WITNESS r(b), b
  <2> QED BY <2>1, <2>2, <1>2, <1>3, <1>7
<1> QED BY <1>5, <1>6, <1>7

LEMMA AnswerStep ==
  ASSUME TypeInv, NEW h \in Handlers, Answer(h)
  PROVE  \E r : Onward(h, r) /\ SameBuffers(handlers[h], r)
<1> DEFINE q == handlers[h]
           plain(a) == [q EXCEPT !.pc = "end", !.counted = TRUE, !.answer = a, !.status = a.status]
           back(a) == [q EXCEPT !.pc = "readback", !.counted = TRUE, !.answer = a]
           f == [q EXCEPT !.pc = "end", !.counted = TRUE, !.status = 502]
<1>1. /\ Local(q, scenario, version, requests) /\ version \in Nat /\ q.pc \in {"sent", "answered"}
      /\ UNCHANGED <<scenario, version, requests>> /\ \A a \in scenario.answers : a.status \in Nat
  BY StepFacts, ScenarioLemma DEF Answer, fileVars, TypeInv, Typed, Answers
<1>2. q.raw = None /\ q.answer = None /\ q.code = None
  BY <1>1 DEF Local, Holds, Told
<1>3. ASSUME NEW a \in scenario.answers, Mode[q.route] = "none"
      PROVE  Local(plain(a), scenario, version, requests) /\ plain(a).of = q.of /\ SameBuffers(q, plain(a))
  BY <1>1, <1>2, <1>3
     DEF Local, Fields, Idle, Shaped, Serves, Fresh, Holds, Told, Steps, SameBuffers, Right
<1>4. ASSUME NEW a \in scenario.answers, Mode[q.route] # "none"
      PROVE  Local(back(a), scenario, version, requests) /\ back(a).of = q.of /\ SameBuffers(q, back(a))
  BY <1>1, <1>2, <1>4 DEF Local, Fields, Idle, Shaped, Serves, Fresh, Holds, Told, Steps, SameBuffers
<1>5. Local(f, scenario, version, requests) /\ f.of = q.of /\ SameBuffers(q, f)
  BY <1>1, <1>2 DEF Local, Fields, Idle, Shaped, Serves, Fresh, Holds, Told, Steps, SameBuffers
<1>6. \/ \E a \in scenario.answers : Mode[q.route] = "none" /\ Become(h, plain(a))
      \/ \E a \in scenario.answers : Mode[q.route] # "none" /\ Become(h, back(a))
      \/ Become(h, f)
  BY DEF Answer, Answers
<1> HIDE DEF plain, back, f
<1> QED BY <1>1, <1>3, <1>4, <1>5, <1>6 DEF Onward

\* The table gives a failed call the status of a failure.
LEMMA TableLemma ==
  ASSUME NEW code \in Int
  PROVE  /\ GrpcCodeToHTTPStatus(code) \in {200, 400, 401, 403, 404, 409, 429, 500, 501, 503, 504}
         /\ code # 0 => GrpcCodeToHTTPStatus(code) >= 400
<1>1. CASE code \in 0 .. 16
  <2> SUFFICES ASSUME code \in {0, 1, 2, 3, 4, 5, 6, 7, 8, 9, 10, 11, 12, 13, 14, 15, 16}
               PROVE  /\ GrpcCodeToHTTPStatus(code) \in {200, 400, 401, 403, 404, 409, 429, 500, 501, 503, 504}
                      /\ code # 0 => GrpcCodeToHTTPStatus(code) >= 400
    BY <1>1
  <2> QED BY DEF GrpcCodeToHTTPStatus
<1>2. CASE code \notin 0 .. 16
  BY <1>2 DEF GrpcCodeToHTTPStatus
<1> QED BY <1>1, <1>2

LEMMA BackTableLemma ==
  ASSUME NEW status \in Nat
  PROVE  HttpStatusToGRPCCode(status) \in 2 .. 16
BY DEF HttpStatusToGRPCCode

\* Whatever the answer, its outcome is what FailureStaysFailure demands.
LEMMA OutcomeLemma ==
  ASSUME scenario \in Scenarios, NEW a \in scenario.answers, NEW route \in Routes, Mode[route] # "none"
  PROVE  LET out == Outcome(Mode[route], a)
         IN /\ out.status \in Nat /\ out.code \in Nat \cup {None}
            /\ out.status # 502 => Right(route, a, out.status, out.code)
            /\ out.status = 502 => Right(route, a, 502, None)
<1> DEFINE out == Outcome(Mode[route], a)
<1>1. /\ a.status \in Nat /\ a.header \in Int \cup {None} /\ a.trailer \in Int \cup {None}
      /\ None \in {a.header, a.trailer} /\ None \notin Int
  BY ScenarioLemma, NoneAssumption DEF Answers
<1>2. Failed(a) <=> CallFailed(a)
  BY <1>1 DEF Failed, CallFailed, GrpcStatus
<1>3. Failed(a) => CodeOf(a) \in Int /\ CodeOf(a) # 0
  BY <1>1 DEF Failed, CodeOf, GrpcStatus
<1>4. CASE Mode[route] = "http_json_to_grpc" /\ Failed(a)
  <2>1. out = [status |-> GrpcCodeToHTTPStatus(CodeOf(a)), code |-> None]
    BY <1>4 DEF Outcome
  <2>2. out.status \in {200, 400, 401, 403, 404, 409, 429, 500, 501, 503, 504} /\ out.status >= 400
    BY <2>1, <1>3, <1>4, TableLemma
  <2> QED BY <1>2, <1>4, <2>1, <2>2 DEF Right, Success
<1>5. CASE Mode[route] = "grpc_to_http_json" /\ a.status >= 400
  <2>1. out = [status |-> 200, code |-> HttpStatusToGRPCCode(a.status)]
    BY <1>5 DEF Outcome
  <2>2. HttpStatusToGRPCCode(a.status) \in 2 .. 16
    BY <1>1, BackTableLemma
  <2> QED BY <1>1, <1>5, <2>1, <2>2 DEF Right
<1>6. CASE /\ ~(Mode[route] = "http_json_to_grpc" /\ Failed(a))
           /\ ~(Mode[route] = "grpc_to_http_json" /\ a.status >= 400)
  <2>1. out = IF ~a.readable THEN [status |-> 502, code |-> None]
              ELSE [status |-> 200, code |-> IF Mode[route] = "grpc_to_http_json" THEN 0 ELSE None]
    BY <1>6 DEF Outcome
  <2> QED BY <1>2, <1>6, <2>1 DEF Right
<1> QED BY <1>4, <1>5, <1>6

LEMMA ConvertResponseStep ==
  ASSUME TypeInv, NEW h \in Handlers, ConvertResponse(h)
  PROVE  \/ \E r : Onward(h, r) /\ SameBuffers(handlers[h], r) /\ UNCHANGED bufferVars
         \/ \E r, b : /\ Onward(h, r) /\ b \in Buffers /\ Allocate(b, bytes[handlers[h].raw])
                      /\ handlers[h].raw \in Buffers
                      /\ r.of = handlers[h].of /\ r.raw = handlers[h].raw /\ r.reply = b
                      /\ r.body = handlers[h].body /\ r.closed = handlers[h].closed
<1> DEFINE q == handlers[h]
           out == Outcome(Mode[q.route], q.answer)
           r(b) == [q EXCEPT !.pc = "copy", !.reply = b, !.status = out.status, !.code = out.code]
           f == [q EXCEPT !.pc = "copy", !.status = 502]
<1>1. /\ Local(q, scenario, version, requests) /\ version \in Nat /\ q.pc = "rewrite"
      /\ UNCHANGED <<scenario, version, requests>> /\ scenario.buffers \subseteq Buffers
      /\ None \notin Buffers /\ scenario \in Scenarios
  BY StepFacts, ScenarioLemma, NoneAssumption DEF ConvertResponse, fileVars, TypeInv, Typed
<1>2. /\ q.raw \in Buffers /\ q.route \in Routes /\ Mode[q.route] # "none" /\ q.answer \in scenario.answers
      /\ q.code = None /\ (q.answer # None => q.counted)
  BY <1>1 DEF Local, Holds, Shaped, Serves, Told
<1>3. /\ out.status \in Nat /\ out.code \in Nat \cup {None}
      /\ out.status # 502 => Right(q.route, q.answer, out.status, out.code)
      /\ out.status = 502 => Right(q.route, q.answer, 502, None)
  BY <1>1, <1>2, OutcomeLemma
<1> HIDE DEF out
<1>4. CASE Become(h, f) /\ out.status = 502 /\ UNCHANGED bufferVars
  <2>1. /\ Shaped(f, scenario) /\ Serves(f, requests) /\ Fresh(f, version) /\ Holds(f)
        /\ f.of = q.of /\ SameBuffers(q, f)
    BY <1>1, <1>2 DEF Local, Fields, Idle, Shaped, Serves, Fresh, Holds, Steps, SameBuffers
  <2>2. /\ f.pc = "copy" /\ f.answer = q.answer /\ f.counted = q.counted /\ f.status = 502
        /\ f.route = q.route /\ f.code = q.code
    BY <1>1 DEF Local, Shaped, Fields, Idle
  <2>3. Told(f, scenario)
    BY <1>2, <1>3, <1>4, <2>2 DEF Told
  <2>4. Local(f, scenario, version, requests)
    BY <2>1, <2>3 DEF Local
  <2> HIDE DEF f
  <2> QED BY <1>1, <1>4, <2>1, <2>4 DEF Onward
<1>5. ASSUME NEW b \in Buffers, Become(h, r(b)), out.status # 502, Allocate(b, bytes[q.raw])
      PROVE  \E rr, bb : /\ Onward(h, rr) /\ bb \in Buffers /\ Allocate(bb, bytes[handlers[h].raw])
                         /\ handlers[h].raw \in Buffers
                         /\ rr.of = handlers[h].of /\ rr.raw = handlers[h].raw /\ rr.reply = bb
                         /\ rr.body = handlers[h].body /\ rr.closed = handlers[h].closed
  <2>1. /\ Shaped(r(b), scenario) /\ Serves(r(b), requests) /\ Fresh(r(b), version)
        /\ r(b).of = q.of /\ r(b).raw = q.raw /\ r(b).reply = b /\ r(b).body = q.body
        /\ r(b).closed = q.closed
    BY <1>1, <1>3 DEF Local, Fields, Idle, Shaped, Serves, Fresh, Steps
  <2>2. Holds(r(b))
    BY <1>1, <1>2 DEF Local, Fields, Idle, Shaped, Holds
  <2>3. /\ r(b).pc = "copy" /\ r(b).answer = q.answer /\ r(b).counted = q.counted
        /\ r(b).status = out.status /\ r(b).route = q.route /\ r(b).code = out.code
    BY <1>1 DEF Local, Shaped, Fields, Idle
  <2>4. Told(r(b), scenario)
    BY <1>2, <1>3, <1>5, <2>3 DEF Told
  <2>5. Onward(h, r(b))
    BY <1>1, <1>5, <2>1, <2>2, <2>4 DEF Local, Onward
  <2> HIDE DEF r
  <2> WITNESS r(b), b
  <2> QED BY <2>1, <2>5, <1>2, <1>5
<1>6. \/ Become(h, f) /\ out.status = 502 /\ UNCHANGED bufferVars
      \/ \E b \in Buffers : Become(h, r(b)) /\ out.status # 502 /\ Allocate(b, bytes[q.raw])
  BY <1>1 DEF ConvertResponse, out
<1> HIDE DEF r, f
<1> QED BY <1>4, <1>5, <1>6

LEMMA TransportClosesStep ==
  ASSUME TypeInv, NEW h \in Handlers, TransportCloses(h)
  PROVE  \E r : /\ Onward(h, r) /\ r.of = handlers[h].of /\ handlers[h].body \in Buffers
               /\ r.raw = handlers[h].raw /\ r.body = handlers[h].body /\ r.closed
               /\ r.reply = handlers[h].reply
<1> DEFINE q == handlers[h]
           r == [q EXCEPT !.pc = "answered", !.closed = TRUE]
<1>1. /\ Local(q, scenario, version, requests) /\ version \in Nat /\ q.pc = "sent"
      /\ UNCHANGED <<scenario, version, requests>>
  BY StepFacts DEF TransportCloses, fileVars
<1>2. q.body \in Buffers
  BY <1>1 DEF Local, Holds, Shaped
<1>3. /\ Local(r, scenario, version, requests) /\ r.of = q.of /\ r.raw = q.raw /\ r.body = q.body
      /\ r.closed = TRUE /\ r.reply = q.reply
  BY <1>1 DEF Local, Fields, Idle, Shaped, Serves, Fresh, Holds, Told, Steps
<1>4. Onward(h, r)
  BY <1>1, <1>3 DEF TransportCloses, Onward
<1> HIDE DEF r
<1> QED BY <1>2, <1>3, <1>4

LEMMA CloseRawStep ==
  ASSUME TypeInv, NEW h \in Handlers, CloseRaw(h)
  PROVE  \E r : /\ Onward(h, r) /\ r.of = handlers[h].of /\ handlers[h].raw \in Buffers
               /\ r.raw = None /\ r.body = handlers[h].body /\ r.closed = handlers[h].closed
               /\ r.reply = handlers[h].reply
<1> DEFINE q == handlers[h]
           r == [q EXCEPT !.pc = "end", !.raw = None]
<1>1. /\ Local(q, scenario, version, requests) /\ version \in Nat /\ q.pc = "copy"
      /\ UNCHANGED <<scenario, version, requests>>
  BY StepFacts DEF CloseRaw, fileVars
<1>2. q.raw \in Buffers
  BY <1>1 DEF Local, Holds, Shaped
<1>3. /\ Local(r, scenario, version, requests) /\ r.of = q.of /\ r.raw = None /\ r.body = q.body
      /\ r.closed = q.closed /\ r.reply = q.reply
  BY <1>1 DEF Local, Fields, Idle, Shaped, Serves, Fresh, Holds, Told, Steps
<1>4. Onward(h, r)
  BY <1>1, <1>3 DEF CloseRaw, Onward
<1> HIDE DEF r
<1> QED BY <1>2, <1>3, <1>4

LEMMA FinishStep ==
  ASSUME TypeInv, NEW h \in Handlers, Finish(h)
  PROVE  Onward(h, Idle)
<1>1. Local(Idle, scenario, version, requests) /\ Idle.of = 0
  BY IdleLemma, StepFacts
<1> QED BY <1>1 DEF Finish, Onward, fileVars

-----------------------------------------------------------------------------
(* Whose a buffer is                                                       *)

\* A body that was closed is no longer its goroutine's, if it went to a pool.
OwnsBody(r, b)   == r.body = b /\ ~(r.closed /\ b \in PoolSized)
Owns(r, b)       == r.raw = b \/ r.reply = b \/ OwnsBody(r, b)
OwnedByWire(w, b) == w.buf = b /\ ~(w.closed /\ b \in PoolSized)

Apart(r) ==
  \A b \in Buffers : /\ r.raw = b => r.reply # b /\ ~OwnsBody(r, b)
                     /\ r.reply = b => ~OwnsBody(r, b)

\* A buffer that a goroutine or a transport still has is in no pool and holds the
\* bytes of its request, and a goroutine has no buffer in two roles.
Separate ==
  /\ \A h \in Handlers, b \in Buffers :
       Owns(handlers[h], b) => pool[b] = 0 /\ bytes[b] = handlers[h].of
  /\ \A h \in Handlers : Apart(handlers[h])
  /\ \A w \in wires, b \in Buffers : OwnedByWire(w, b) => pool[b] = 0 /\ bytes[b] = w.of
  /\ \A h \in Handlers, w \in wires :
       w.of = handlers[h].of => w.buf = handlers[h].body /\ w.closed = handlers[h].closed

\* A goroutine that owns a buffer serves a request, so that no two own the same.
LEMMA OwnersLemma ==
  ASSUME TypeInv, Separate, NEW g \in Handlers, NEW h \in Handlers, NEW b \in Buffers,
         Owns(handlers[g], b), Owns(handlers[h], b)
  PROVE  g = h
<1>1. handlers[g].pc # "idle"
  <2>1. handlers[g].pc = "idle" => handlers[g] = Idle
    BY StepFacts DEF Local, Serves
  <2>2. ~Owns(Idle, b)
    BY NoneAssumption DEF Idle, Owns, OwnsBody
  <2> QED BY <2>1, <2>2
<1>2. handlers[g].of = handlers[h].of
  BY DEF Separate
<1> QED BY <1>1, <1>2 DEF TypeInv, Unique

\* A buffer that may be taken is nobody's.
LEMMA FreeLemma ==
  ASSUME TypeInv, Separate, NEW b \in Buffers, b \in Unreachable \/ pool[b] > 0
  PROVE  /\ \A h \in Handlers : ~Owns(handlers[h], b)
         /\ \A w \in wires : ~OwnedByWire(w, b)
<1>1. CASE pool[b] > 0
  BY <1>1 DEF Separate
<1>2. CASE b \in Unreachable
  <2>1. ASSUME NEW h \in Handlers PROVE ~Owns(handlers[h], b)
    <3>1. {handlers[h].raw, handlers[h].body, handlers[h].reply}
            \in {{handlers[g].raw, handlers[g].body, handlers[g].reply} : g \in Handlers}
      OBVIOUS
    <3>2. {handlers[h].raw, handlers[h].body, handlers[h].reply} \subseteq Held
      BY <3>1, Zenon DEF Held
    <3> QED BY <1>2, <3>2 DEF Unreachable, Owns, OwnsBody
  <2>2. ASSUME NEW w \in wires PROVE ~OwnedByWire(w, b)
    <3>1. w.buf \in {u.buf : u \in wires}
      OBVIOUS
    <3>2. w.buf \in Held
      BY <3>1, Zenon DEF Held
    <3> QED BY <1>2, <3>2 DEF Unreachable, OwnedByWire
  <2> QED BY <2>1, <2>2
<1> QED BY <1>1, <1>2

\* A step that gives its goroutine nothing, and leaves the buffers alone.
LEMMA NothingTaken ==
  ASSUME TypeInv, Separate, NEW h \in Handlers, NEW r, Onward(h, r), r.of = handlers[h].of,
         r.raw \in {handlers[h].raw, None}, r.body = handlers[h].body, r.closed = handlers[h].closed,
         r.reply = handlers[h].reply, UNCHANGED <<bufferVars, wires>>
  PROVE  Separate'
<1>1. handlers'[h] = r /\ \A g \in Handlers \ {h} : handlers'[g] = handlers[g]
  BY OnwardLemma
<1>2. \A b \in Buffers : Owns(r, b) => Owns(handlers[h], b)
  BY NoneAssumption DEF Owns, OwnsBody
<1>3. Apart(r)
  BY NoneAssumption DEF Separate, Apart, OwnsBody
<1>4. \A g \in Handlers, b \in Buffers :
        Owns(handlers'[g], b) => pool'[b] = 0 /\ bytes'[b] = handlers'[g].of
  BY <1>1, <1>2 DEF Separate, bufferVars
<1>5. \A g \in Handlers : Apart(handlers'[g])
  BY <1>1, <1>3 DEF Separate
<1>6. \A w \in wires', b \in Buffers : OwnedByWire(w, b) => pool'[b] = 0 /\ bytes'[b] = w.of
  BY DEF Separate, bufferVars
<1>7. \A g \in Handlers, w \in wires' :
        w.of = handlers'[g].of => w.buf = handlers'[g].body /\ w.closed = handlers'[g].closed
  BY <1>1 DEF Separate
<1> QED BY <1>4, <1>5, <1>6, <1>7 DEF Separate

\* A step that takes the buffer b for its request, into raw, body or reply.
LEMMA OneTaken ==
  ASSUME TypeInv, Separate, NEW h \in Handlers, NEW r, NEW b \in Buffers, Onward(h, r),
         r.of = handlers[h].of, Apart(r),
         \A w \in wires, c \in Buffers : ~(c = b /\ OwnedByWire(w, c)),
         \A g \in Handlers : ~Owns(handlers[g], b),
         \A c \in Buffers : Owns(r, c) => c = b \/ Owns(handlers[h], c),
         bytes' = [bytes EXCEPT ![b] = handlers[h].of],
         pool' = IF pool[b] > 0 THEN [pool EXCEPT ![b] = @ - 1] ELSE pool,
         \/ wires' = wires /\ r.body = handlers[h].body /\ r.closed = handlers[h].closed
         \/ /\ wires' = wires \cup {[of |-> r.of, buf |-> b, closed |-> FALSE]}
            /\ handlers[h].body = None /\ r.body = b /\ ~r.closed /\ r.of # 0
  PROVE  Separate'
<1>1. handlers'[h] = r /\ \A g \in Handlers \ {h} : handlers'[g] = handlers[g]
  BY OnwardLemma
<1>2. /\ bytes'[b] = handlers[h].of /\ pool'[b] = 0
      /\ \A c \in Buffers \ {b} : bytes'[c] = bytes[c] /\ pool'[c] = pool[c]
  BY DEF TypeInv, Typed
<1>3. \A g \in Handlers, c \in Buffers :
        Owns(handlers'[g], c) => pool'[c] = 0 /\ bytes'[c] = handlers'[g].of
  BY <1>1, <1>2 DEF Separate
<1>4. \A g \in Handlers : Apart(handlers'[g])
  BY <1>1 DEF Separate
<1>5. ASSUME NEW w \in wires', NEW c \in Buffers, OwnedByWire(w, c)
      PROVE  pool'[c] = 0 /\ bytes'[c] = w.of
  <2>1. CASE w \in wires
    BY <1>2, <1>5, <2>1 DEF Separate
  <2>2. CASE w \notin wires
    <3>1. w = [of |-> r.of, buf |-> b, closed |-> FALSE]
      BY <1>5, <2>2
    <3> QED BY <3>1, <1>2, <1>5 DEF OwnedByWire
  <2> QED BY <2>1, <2>2
<1>6. ASSUME NEW g \in Handlers, NEW w \in wires', w.of = handlers'[g].of
      PROVE  w.buf = handlers'[g].body /\ w.closed = handlers'[g].closed
  <2>1. CASE wires' = wires /\ r.body = handlers[h].body /\ r.closed = handlers[h].closed
    BY <1>1, <1>6, <2>1 DEF Separate
  <2>2. CASE /\ wires' = wires \cup {[of |-> r.of, buf |-> b, closed |-> FALSE]}
             /\ handlers[h].body = None /\ r.body = b /\ ~r.closed /\ r.of # 0
    <3>1. CASE w \in wires
      <4>1. g # h
        <5>1. w.buf \in Buffers
          BY <3>1 DEF TypeInv, Typed
        <5> QED BY <3>1, <5>1, <1>1, <1>6, <2>2, NoneAssumption DEF Separate
      <4> QED BY <4>1, <1>1, <1>6, <3>1 DEF Separate
    <3>2. CASE w \notin wires
      <4>1. w = [of |-> r.of, buf |-> b, closed |-> FALSE]
        BY <2>2, <3>2
      <4>2. g = h
        <5>1. handlers[h].pc # "idle"
          BY DEF Onward
        <5>2. g # h => handlers[g].of = handlers[h].of
          BY <1>1, <1>6, <4>1
        <5> QED BY <5>1, <5>2 DEF TypeInv, Unique
      <4>3. r.closed = FALSE
        BY <2>2 DEF Onward, Local, Shaped
      <4> QED BY <4>1, <4>2, <4>3, <1>1, <2>2
    <3> QED BY <3>1, <3>2
  <2> QED BY <2>1, <2>2
<1> QED BY <1>3, <1>4, <1>5, <1>6 DEF Separate

\* A step that gives back nothing but what its goroutine owns, if anything at all, and
\* closes the request body on both sides or leaves the request behind.
LEMMA OnesGivenBack ==
  ASSUME TypeInv, Separate, NEW h \in Handlers, NEW r, Onward(h, r),
         \A c \in Buffers : Owns(r, c) => Owns(handlers[h], c) /\ pool'[c] = pool[c] /\ r.of = handlers[h].of,
         \A c \in Buffers : pool'[c] # pool[c] => Owns(handlers[h], c) /\ c \in PoolSized,
         bytes' = bytes, Apart(r),
         \/ wires' = wires /\ r.body = handlers[h].body /\ r.closed = handlers[h].closed
            /\ \A c \in Buffers : pool'[c] # pool[c] => ~OwnsBody(handlers[h], c)
         \/ wires' = ClosedWires(handlers[h].of) /\ (r.of = 0 \/ (r.closed /\ r.body = handlers[h].body))
  PROVE  Separate'
<1>1. handlers'[h] = r /\ \A g \in Handlers \ {h} : handlers'[g] = handlers[g]
  BY OnwardLemma
<1>2. ASSUME NEW g \in Handlers, NEW c \in Buffers, Owns(handlers'[g], c)
      PROVE  pool'[c] = 0 /\ bytes'[c] = handlers'[g].of
  <2>1. CASE g = h
    BY <1>1, <1>2, <2>1 DEF Separate
  <2>2. CASE g # h
    <3>1. Owns(handlers[g], c)
      BY <1>1, <1>2, <2>2
    <3>2. ~Owns(handlers[h], c)
      BY <2>2, <3>1, OwnersLemma
    <3> QED BY <3>1, <3>2, <1>1, <2>2 DEF Separate
  <2> QED BY <2>1, <2>2
<1>3. \A g \in Handlers : Apart(handlers'[g])
  BY <1>1 DEF Separate
<1>4. /\ \A w \in wires : w.of \in 1 .. requests /\ w.buf \in Buffers /\ w.closed \in BOOLEAN
      /\ r.of \in {handlers[h].of, 0} /\ handlers[h].pc # "idle" /\ requests \in Nat
      /\ r.closed \in BOOLEAN /\ r.of \in Nat
  BY DEF TypeInv, Typed, Onward, Local, Shaped
<1>5. ASSUME wires' = ClosedWires(handlers[h].of), NEW w \in wires'
      PROVE  \E u \in wires : /\ w.of = u.of /\ w.buf = u.buf
                              /\ u.of = handlers[h].of => w.closed = TRUE
                              /\ u.of # handlers[h].of => w.closed = u.closed
  <2>1. PICK u \in wires : w = IF u.of = handlers[h].of THEN [u EXCEPT !.closed = TRUE] ELSE u
    BY <1>5 DEF ClosedWires
  <2>2. u \in [of : 1 .. requests, buf : Buffers, closed : BOOLEAN]
    BY DEF TypeInv, Typed
  <2> QED BY <2>1, <2>2
<1>6. ASSUME NEW w \in wires', NEW c \in Buffers, OwnedByWire(w, c)
      PROVE  pool'[c] = 0 /\ bytes'[c] = w.of
  <2>1. CASE wires' = wires
    <3>1. pool[c] = 0 /\ bytes[c] = w.of
      BY <1>6, <2>1 DEF Separate
    <3>2. CASE Owns(handlers[h], c)
      <4>1. w.of = handlers[h].of
        BY <3>1, <3>2 DEF Separate
      <4>2. w.buf = handlers[h].body /\ w.closed = handlers[h].closed
        BY <2>1, <4>1 DEF Separate
      <4>3. OwnsBody(handlers[h], c)
        BY <1>6, <4>2 DEF OwnedByWire, OwnsBody
      <4>4. wires = ClosedWires(handlers[h].of) => c \notin PoolSized
        <5> SUFFICES ASSUME wires = ClosedWires(handlers[h].of), c \in PoolSized PROVE FALSE
          OBVIOUS
        <5>1. PICK u \in wires : /\ w.of = u.of /\ w.buf = u.buf
                                 /\ u.of = handlers[h].of => w.closed = TRUE
          BY <1>5, <2>1
        <5> QED BY <5>1, <4>1, <1>6 DEF OwnedByWire
      <4> QED BY <3>1, <4>3, <4>4, <2>1
    <3> QED BY <3>1, <3>2
  <2>2. CASE wires' = ClosedWires(handlers[h].of)
    <3>1. PICK u \in wires : /\ w.of = u.of /\ w.buf = u.buf
                             /\ u.of = handlers[h].of => w.closed = TRUE
                             /\ u.of # handlers[h].of => w.closed = u.closed
      BY <1>5, <2>2
    <3>2. OwnedByWire(u, c)
      BY <1>6, <3>1, <1>4 DEF OwnedByWire
    <3>3. pool[c] = 0 /\ bytes[c] = w.of
      BY <3>1, <3>2 DEF Separate
    <3>4. CASE u.of = handlers[h].of
      BY <3>1, <3>3, <3>4, <1>6 DEF OwnedByWire
    <3>5. CASE u.of # handlers[h].of
      <4>1. ~Owns(handlers[h], c)
        BY <3>1, <3>3, <3>5 DEF Separate
      <4> QED BY <3>3, <4>1
    <3> QED BY <3>4, <3>5
  <2> QED BY <2>1, <2>2
<1>7. ASSUME NEW g \in Handlers, NEW w \in wires', w.of = handlers'[g].of
      PROVE  w.buf = handlers'[g].body /\ w.closed = handlers'[g].closed
  <2>1. CASE wires' = wires /\ r.body = handlers[h].body /\ r.closed = handlers[h].closed
    BY <1>1, <1>4, <1>7, <2>1 DEF Separate
  <2>2. CASE wires' = ClosedWires(handlers[h].of) /\ (r.of = 0 \/ (r.closed /\ r.body = handlers[h].body))
    <3>1. PICK u \in wires : /\ w.of = u.of /\ w.buf = u.buf
                             /\ u.of = handlers[h].of => w.closed = TRUE
                             /\ u.of # handlers[h].of => w.closed = u.closed
      BY <1>5, <2>2
    <3>2. CASE g = h
      <4>1. r.of # 0 /\ r.of = handlers[h].of /\ u.of = handlers[h].of
        <5>1. u.of # 0 /\ w.of = r.of
          BY <1>1, <1>4, <1>7, <3>2
        <5> QED BY <1>4, <3>1, <5>1
      <4>2. u.buf = handlers[h].body
        BY <4>1 DEF Separate
      <4> QED BY <1>1, <1>4, <2>2, <3>1, <3>2, <4>1, <4>2
    <3>3. CASE g # h
      <4>1. u.of = handlers[g].of
        BY <1>1, <1>7, <3>1, <3>3
      <4>2. u.of # handlers[h].of
        BY <4>1, <1>4, <3>3 DEF TypeInv, Unique
      <4> QED BY <1>1, <3>1, <3>3, <4>1, <4>2 DEF Separate
    <3> QED BY <3>2, <3>3
  <2> QED BY <2>1, <2>2
<1> QED BY <1>2, <1>3, <1>6, <1>7 DEF Separate

-----------------------------------------------------------------------------
(* The invariant is inductive                                              *)

Inv == TypeInv /\ Separate

LEMMA InitInv == Init => Inv
<1> SUFFICES ASSUME Init PROVE Inv
  OBVIOUS
<1>1. /\ scenario \in Scenarios /\ 1 \in DOMAIN file /\ version = 1 /\ requests = 0
      /\ handlers = [h \in Handlers |-> Idle] /\ wires = {}
  BY ScenarioLemma DEF Init
<1>2. Typed
  BY <1>1 DEF Init, Typed
<1>3. Locals /\ Unique
  BY <1>1, IdleLemma DEF Locals, Unique
<1>4. \A b \in Buffers : ~Owns(Idle, b)
  BY NoneAssumption DEF Idle, Owns, OwnsBody
<1>5. Separate
  BY <1>1, <1>4 DEF Separate, Apart, Owns
<1> QED BY <1>2, <1>3, <1>5 DEF Inv, TypeInv

\* What Typed says of the variables that a goroutine's step may change.
LEMMA TypedNext ==
  ASSUME Typed, UNCHANGED <<scenario, version, requests>>,
         \/ resolved' = resolved
         \/ /\ resolved' \in [files : DOMAIN file, stamp : DOMAIN file]
            /\ resolved'.stamp <= resolved'.files /\ resolved'.files <= version,
         transcoders' = transcoders \/ transcoders' \in [Routes -> {None} \cup DOMAIN file],
         bytes' \in [Buffers -> 0 .. requests], pool' \in [Buffers -> {0, 1}],
         \A b \in Buffers : pool'[b] > 0 => b \in PoolSized,
         wires' \subseteq [of : 1 .. requests, buf : Buffers, closed : BOOLEAN]
  PROVE  Typed'
BY DEF Typed, file

LEMMA TypedSame ==
  ASSUME Typed, UNCHANGED <<scenario, version, requests, resolved, transcoders, bufferVars, wires>>
  PROVE  Typed'
BY DEF Typed, file, bufferVars

LEMMA RewriteFileKeeps == Inv /\ RewriteFile => Inv'
<1> SUFFICES ASSUME Inv, RewriteFile PROVE Inv'
  OBVIOUS
<1>1. /\ TypeInv /\ Separate /\ scenario \in Scenarios /\ DOMAIN file = 1 .. Len(file) /\ Len(file) \in Nat
      /\ version' = version + 1 /\ version' \in DOMAIN file /\ version \in Nat /\ file' = file
      /\ UNCHANGED <<scenario, resolved, transcoders, used, bufferVars, wires, requests>>
  BY ScenarioLemma DEF Inv, TypeInv, Typed, RewriteFile, file
<1>2. Typed'
  BY <1>1 DEF TypeInv, Typed, bufferVars
<1>3. ASSUME NEW h \in Handlers
      PROVE  /\ Local(handlers'[h], scenario, version', requests)
             /\ SameBuffers(handlers[h], handlers'[h])
             /\ handlers'[h].pc = handlers[h].pc /\ handlers'[h].of = handlers[h].of
  <2> DEFINE q == handlers[h]
             r == [q EXCEPT !.seen = @ \cup {version'}]
  <2>1. Local(q, scenario, version, requests)
    BY <1>1, StepFacts
  <2>2. CASE q.seen = {}
    <3>1. handlers'[h] = q
      BY <2>2 DEF RewriteFile
    <3>2. Fresh(q, version')
      BY <2>1, <2>2 DEF Local, Fresh
    <3> QED BY <3>1, <3>2, <2>1 DEF Local, SameBuffers
  <2>3. CASE q.seen # {}
    <3>1. handlers'[h] = r
      BY <2>3 DEF RewriteFile
    <3>2. /\ Shaped(r, scenario) /\ Serves(r, requests) /\ Holds(r) /\ Told(r, scenario)
          /\ SameBuffers(q, r) /\ r.pc = q.pc /\ r.of = q.of
      BY <1>1, <2>1, <2>3 DEF Local, Fields, Idle, Shaped, Serves, Fresh, Holds, Told, SameBuffers
    <3>3. Fresh(r, version')
      <4>1. /\ r.seen = q.seen \cup {version + 1} /\ r.pc = q.pc /\ r.stamp = q.stamp
            /\ r.files = q.files
        BY <1>1, <2>1 DEF Local, Fields, Idle, Shaped
      <4>2. \A u \in r.seen : u \in 1 .. version + 1 /\ u .. version + 1 \subseteq r.seen
        BY <1>1, <2>1, <4>1 DEF Local, Fresh
      <4>3. r.pc = "store" => r.files \in r.stamp .. version + 1
        BY <1>1, <2>1, <4>1 DEF Local, Fresh
      <4> QED BY <1>1, <2>1, <2>3, <4>1, <4>2, <4>3 DEF Local, Fresh
    <3> QED BY <3>1, <3>2, <3>3 DEF Local
  <2> QED BY <2>2, <2>3
<1>4. Locals'
  BY <1>1, <1>3 DEF RewriteFile, Locals
<1>5. Unique'
  BY <1>1, <1>3 DEF TypeInv, Unique
<1>6. Separate'
  <2>1. ASSUME NEW h \in Handlers
        PROVE  /\ \A b \in Buffers : Owns(handlers'[h], b) <=> Owns(handlers[h], b)
               /\ Apart(handlers'[h])
    BY <1>1, <1>3 DEF SameBuffers, Owns, OwnsBody, Separate, Apart
  <2> QED BY <1>1, <1>3, <2>1 DEF Separate, bufferVars, SameBuffers
<1> QED BY <1>2, <1>4, <1>5, <1>6 DEF Inv, TypeInv

LEMMA PrepareKeeps ==
  ASSUME Inv, NEW h \in Handlers, NEW route \in scenario.routes, Prepare(h, route)
  PROVE  Inv'
<1>1. PICK r : /\ Become(h, r) /\ Local(r, scenario, version, requests') /\ r.of = requests'
               /\ r.pc # "idle" /\ NoBuffers(r) /\ handlers[h].pc = "idle"
  BY PrepareStep DEF Inv
<1>2. /\ TypeInv /\ Separate /\ requests' = requests + 1 /\ requests \in Nat
      /\ UNCHANGED <<scenario, version, resolved, transcoders, used, bufferVars, wires>>
      /\ \A g \in Handlers : Local(handlers[g], scenario, version, requests)
  BY StepFacts DEF Inv, Prepare, Quiet, fileVars
<1>3. /\ DOMAIN handlers' = Handlers /\ handlers'[h] = r
      /\ \A g \in Handlers \ {h} : handlers'[g] = handlers[g]
  BY <1>1, <1>2, StepFacts DEF Become
<1>4. Typed'
  BY <1>2 DEF TypeInv, Typed, bufferVars, file
<1>5. \A g \in Handlers : handlers[g].of \in 0 .. requests
  BY <1>2, IdleLemma, StepFacts DEF Local, Serves
<1>6. Locals'
  <2>1. ASSUME NEW g \in Handlers \ {h} PROVE Local(handlers[g], scenario, version, requests')
    BY <1>2 DEF Local, Serves
  <2> QED BY <1>1, <1>2, <1>3, <2>1 DEF Locals
<1>7. Unique'
  BY <1>1, <1>2, <1>3, <1>5 DEF TypeInv, Unique
<1>8. Separate'
  <2>2. \A b \in Buffers : ~Owns(r, b)
    BY <1>1, NoneAssumption DEF NoBuffers, Owns, OwnsBody
  <2>3. Apart(r)
    BY <2>2 DEF Apart, Owns
  <2>4. \A w \in wires : w.of # requests'
    BY <1>2 DEF TypeInv, Typed
  <2> QED BY <1>1, <1>2, <1>3, <2>2, <2>3, <2>4 DEF Separate, bufferVars
<1> QED BY <1>4, <1>6, <1>7, <1>8 DEF Inv, TypeInv

\* Steps that move a goroutine on without its buffers.
LEMMA LookupKeeps ==
  ASSUME Inv, NEW h \in Handlers,
         Stat(h) \/ CheckCache(h) \/ ReadFile(h) \/ StoreEntry(h) \/ StoreTranscoder(h) \/ Answer(h)
  PROVE  Inv'
<1>1. TypeInv /\ Separate /\ Typed
  BY DEF Inv, TypeInv
<1>2. PICK r : Onward(h, r) /\ SameBuffers(handlers[h], r)
  BY <1>1, StatStep, CheckCacheStep, ReadFileStep, StoreEntryStep, StoreTranscoderStep, AnswerStep
<1>3. UNCHANGED <<scenario, version, requests, bufferVars, wires>>
  BY DEF Stat, CheckCache, ReadFile, StoreEntry, StoreTranscoder, Answer, fileVars, Quiet
<1>4. \/ resolved' = resolved
      \/ /\ resolved' \in [files : DOMAIN file, stamp : DOMAIN file]
         /\ resolved'.stamp <= resolved'.files /\ resolved'.files <= version
  <2>1. CASE StoreEntry(h)
    BY <1>1, <2>1, StoreEntryStep
  <2>2. CASE Stat(h) \/ CheckCache(h) \/ ReadFile(h) \/ Answer(h)
    <3>1. UNCHANGED fileVars
      BY <2>2 DEF Stat, CheckCache, ReadFile, Answer
    <3> QED BY <3>1 DEF fileVars
  <2>3. CASE StoreTranscoder(h)
    BY <2>3 DEF StoreTranscoder
  <2> QED BY <2>1, <2>2, <2>3
<1>5. transcoders' = transcoders \/ transcoders' \in [Routes -> {None} \cup DOMAIN file]
  BY <1>1, StoreTranscoderStep DEF Stat, CheckCache, ReadFile, StoreEntry, Answer, fileVars
<1>6. Typed'
  BY <1>1, <1>3, <1>4, <1>5, TypedNext DEF Typed, bufferVars
<1>7. Separate'
  BY <1>1, <1>2, <1>3, NothingTaken DEF SameBuffers
<1> QED BY <1>1, <1>2, <1>6, <1>7, OnwardLemma DEF Inv, TypeInv

\* What Acquire and Allocate do to the buffers.
LEMMA TakenLemma ==
  ASSUME TypeInv, Separate, NEW b \in Buffers, NEW n \in 0 .. requests, Acquire(b, n) \/ Allocate(b, n)
  PROVE  /\ bytes' \in [Buffers -> 0 .. requests] /\ pool' \in [Buffers -> {0, 1}]
         /\ \A c \in Buffers : pool'[c] > 0 => c \in PoolSized
         /\ bytes' = [bytes EXCEPT ![b] = n]
         /\ pool' = IF pool[b] > 0 THEN [pool EXCEPT ![b] = @ - 1] ELSE pool
         /\ \A h \in Handlers : ~Owns(handlers[h], b)
         /\ \A w \in wires, c \in Buffers : ~(c = b /\ OwnedByWire(w, c))
<1>1. b \in Unreachable \/ pool[b] > 0
  BY DEF Acquire, Allocate
<1>2. /\ bytes' = [bytes EXCEPT ![b] = n]
      /\ pool' = IF pool[b] > 0 THEN [pool EXCEPT ![b] = @ - 1] ELSE pool
  BY DEF Acquire, Allocate, Unreachable
<1>3. /\ bytes' \in [Buffers -> 0 .. requests] /\ pool' \in [Buffers -> {0, 1}]
      /\ \A c \in Buffers : pool'[c] > 0 => c \in PoolSized
  BY <1>2 DEF TypeInv, Typed
<1> QED BY <1>1, <1>2, <1>3, FreeLemma

LEMMA TypedTaken ==
  ASSUME TypeInv, Separate, NEW b \in Buffers, NEW n \in 0 .. requests, Acquire(b, n) \/ Allocate(b, n),
         UNCHANGED <<scenario, version, requests, resolved, transcoders>>,
         wires' \subseteq [of : 1 .. requests, buf : Buffers, closed : BOOLEAN]
  PROVE  Typed'
<1>1. /\ bytes' \in [Buffers -> 0 .. requests] /\ pool' \in [Buffers -> {0, 1}]
      /\ \A c \in Buffers : pool'[c] > 0 => c \in PoolSized
  BY TakenLemma
<1>2. Typed /\ resolved' = resolved /\ transcoders' = transcoders
  BY DEF TypeInv
<1> QED BY <1>1, <1>2 DEF Typed, file

LEMMA ReadKeeps ==
  ASSUME Inv, NEW h \in Handlers, ReadRequest(h) \/ ReadResponse(h)
  PROVE  Inv'
<1>1. TypeInv /\ Separate /\ Typed
  BY DEF Inv, TypeInv
<1>2. PICK r : Onward(h, r) /\ Reads(h, r)
  BY <1>1, ReadStep
<1>3. UNCHANGED <<scenario, version, requests, resolved, transcoders, wires>>
  BY DEF ReadRequest, ReadResponse, fileVars
<1>4. handlers[h].of \in 0 .. requests
  BY <1>1, <1>2, StepFacts DEF Onward, Local, Serves
<1>5. CASE SameBuffers(handlers[h], r) /\ UNCHANGED bufferVars
  <2>1. Typed'
    BY <1>1, <1>3, <1>5, TypedSame
  <2>2. Separate'
    BY <1>1, <1>2, <1>3, <1>5, NothingTaken DEF SameBuffers
  <2> QED BY <1>1, <1>2, <2>1, <2>2, OnwardLemma DEF Inv, TypeInv
<1>6. ASSUME NEW b \in Buffers, Acquire(b, handlers[h].of), r.raw = b, r.of = handlers[h].of,
             r.body = handlers[h].body, r.closed = handlers[h].closed, r.reply = handlers[h].reply
      PROVE  Inv'
  <2>1. Typed'
    <3>1. wires' \subseteq [of : 1 .. requests, buf : Buffers, closed : BOOLEAN]
      BY <1>1, <1>3 DEF Typed
    <3> QED BY <1>1, <1>3, <1>4, <1>6, <3>1, TypedTaken
  <2>2. /\ \A g \in Handlers : ~Owns(handlers[g], b)
        /\ \A w \in wires, c \in Buffers : ~(c = b /\ OwnedByWire(w, c))
        /\ bytes' = [bytes EXCEPT ![b] = handlers[h].of]
        /\ pool' = IF pool[b] > 0 THEN [pool EXCEPT ![b] = @ - 1] ELSE pool
    BY <1>1, <1>4, <1>6, TakenLemma
  <2>3. Apart(r) /\ \A c \in Buffers : Owns(r, c) => c = b \/ Owns(handlers[h], c)
    BY <1>1, <1>6, <2>2 DEF Separate, Apart, Owns, OwnsBody
  <2>4. Separate'
    BY <1>1, <1>2, <1>3, <1>6, <2>2, <2>3, OneTaken
  <2> QED BY <1>1, <1>2, <2>1, <2>4, OnwardLemma DEF Inv, TypeInv
<1> QED BY <1>2, <1>5, <1>6 DEF Reads

LEMMA ConvertRequestKeeps ==
  ASSUME Inv, NEW h \in Handlers, ConvertRequest(h)
  PROVE  Inv'
<1>1. TypeInv /\ Separate /\ Typed
  BY DEF Inv, TypeInv
<1>2. UNCHANGED <<scenario, version, requests, resolved, transcoders>>
  BY DEF ConvertRequest, fileVars
<1>3. ASSUME NEW r, Onward(h, r), r.of = handlers[h].of, r.raw = None, r.body = handlers[h].body,
             r.closed = handlers[h].closed, r.reply = handlers[h].reply, UNCHANGED <<bufferVars, wires>>
      PROVE  Inv'
  <2>1. Typed'
    BY <1>1, <1>2, <1>3, TypedSame
  <2>2. Separate'
    BY <1>1, <1>2, <1>3, NothingTaken
  <2> QED BY <1>1, <1>3, <2>1, <2>2, OnwardLemma DEF Inv, TypeInv
<1>4. ASSUME NEW r, NEW b \in Buffers, Onward(h, r), Allocate(b, bytes[handlers[h].raw]),
             handlers[h].raw \in Buffers, handlers[h].body = None, ~handlers[h].closed,
             r.of = handlers[h].of, r.of \in 1 .. requests,
             r.raw = None, r.body = b, ~r.closed, r.reply = handlers[h].reply,
             wires' = wires \cup {[of |-> r.of, buf |-> b, closed |-> FALSE]}
      PROVE  Inv'
  <2>1. bytes[handlers[h].raw] = handlers[h].of /\ handlers[h].of \in 0 .. requests
    BY <1>1, <1>4 DEF Separate, Owns, Typed
  <2>2. Typed'
    <3>1. wires' \subseteq [of : 1 .. requests, buf : Buffers, closed : BOOLEAN]
      <4>1. [of |-> r.of, buf |-> b, closed |-> FALSE] \in [of : 1 .. requests, buf : Buffers, closed : BOOLEAN]
        BY <1>4
      <4> QED BY <1>1, <1>4, <4>1 DEF Typed
    <3> QED BY <1>1, <1>2, <1>4, <2>1, <3>1, TypedTaken
  <2>3. /\ \A g \in Handlers : ~Owns(handlers[g], b)
        /\ \A w \in wires, c \in Buffers : ~(c = b /\ OwnedByWire(w, c))
        /\ bytes' = [bytes EXCEPT ![b] = handlers[h].of]
        /\ pool' = IF pool[b] > 0 THEN [pool EXCEPT ![b] = @ - 1] ELSE pool
    BY <1>1, <1>4, <2>1, TakenLemma
  <2>4. Apart(r) /\ \A c \in Buffers : Owns(r, c) => c = b \/ Owns(handlers[h], c)
    BY <1>1, <1>4, <2>3, NoneAssumption DEF Separate, Apart, Owns, OwnsBody
  <2>5. r.of # 0
    BY <1>1, <1>4 DEF Typed
  <2>6. Separate'
    BY <1>1, <1>4, <2>3, <2>4, <2>5, OneTaken
  <2> QED BY <1>1, <1>4, <2>2, <2>6, OnwardLemma DEF Inv, TypeInv
<1>5. \/ \E r : /\ Onward(h, r) /\ r.of = handlers[h].of /\ r.raw = None /\ r.body = handlers[h].body
                /\ r.closed = handlers[h].closed /\ r.reply = handlers[h].reply
                /\ UNCHANGED <<bufferVars, wires>>
      \/ \E r, b : /\ Onward(h, r) /\ b \in Buffers /\ Allocate(b, bytes[handlers[h].raw])
                   /\ handlers[h].raw \in Buffers /\ handlers[h].body = None /\ ~handlers[h].closed
                   /\ r.of = handlers[h].of /\ r.of \in 1 .. requests
                   /\ r.raw = None /\ r.body = b /\ ~r.closed /\ r.reply = handlers[h].reply
                   /\ wires' = wires \cup {[of |-> r.of, buf |-> b, closed |-> FALSE]}
  BY <1>1, ConvertRequestStep
<1> QED BY <1>3, <1>4, <1>5

LEMMA ConvertResponseKeeps ==
  ASSUME Inv, NEW h \in Handlers, ConvertResponse(h)
  PROVE  Inv'
<1>1. TypeInv /\ Separate /\ Typed
  BY DEF Inv, TypeInv
<1>2. UNCHANGED <<scenario, version, requests, resolved, transcoders, wires>>
  BY DEF ConvertResponse, fileVars
<1>3. ASSUME NEW r, Onward(h, r), SameBuffers(handlers[h], r), UNCHANGED bufferVars
      PROVE  Inv'
  <2>1. Typed'
    BY <1>1, <1>2, <1>3, TypedSame
  <2>2. Separate'
    BY <1>1, <1>2, <1>3, NothingTaken DEF SameBuffers
  <2> QED BY <1>1, <1>3, <2>1, <2>2, OnwardLemma DEF Inv, TypeInv
<1>4. ASSUME NEW r, NEW b \in Buffers, Onward(h, r), Allocate(b, bytes[handlers[h].raw]),
             handlers[h].raw \in Buffers, r.of = handlers[h].of, r.raw = handlers[h].raw, r.reply = b,
             r.body = handlers[h].body, r.closed = handlers[h].closed
      PROVE  Inv'
  <2>1. bytes[handlers[h].raw] = handlers[h].of /\ handlers[h].of \in 0 .. requests
    BY <1>1, <1>4 DEF Separate, Owns, Typed
  <2>2. Typed'
    <3>1. wires' \subseteq [of : 1 .. requests, buf : Buffers, closed : BOOLEAN]
      BY <1>1, <1>2 DEF Typed
    <3> QED BY <1>1, <1>2, <1>4, <2>1, <3>1, TypedTaken
  <2>3. /\ \A g \in Handlers : ~Owns(handlers[g], b)
        /\ \A w \in wires, c \in Buffers : ~(c = b /\ OwnedByWire(w, c))
        /\ bytes' = [bytes EXCEPT ![b] = handlers[h].of]
        /\ pool' = IF pool[b] > 0 THEN [pool EXCEPT ![b] = @ - 1] ELSE pool
    BY <1>1, <1>4, <2>1, TakenLemma
  <2>4. Apart(r) /\ \A c \in Buffers : Owns(r, c) => c = b \/ Owns(handlers[h], c)
    BY <1>1, <1>4, <2>3 DEF Separate, Apart, Owns, OwnsBody
  <2>5. Separate'
    BY <1>1, <1>2, <1>4, <2>3, <2>4, OneTaken
  <2> QED BY <1>1, <1>4, <2>2, <2>5, OnwardLemma DEF Inv, TypeInv
<1>5. \/ \E r : Onward(h, r) /\ SameBuffers(handlers[h], r) /\ UNCHANGED bufferVars
      \/ \E r, b : /\ Onward(h, r) /\ b \in Buffers /\ Allocate(b, bytes[handlers[h].raw])
                   /\ handlers[h].raw \in Buffers
                   /\ r.of = handlers[h].of /\ r.raw = handlers[h].raw /\ r.reply = b
                   /\ r.body = handlers[h].body /\ r.closed = handlers[h].closed
  BY <1>1, ConvertResponseStep
<1> QED BY <1>3, <1>4, <1>5

\* A wire whose body has been closed is still a wire.
LEMMA ClosedWiresLemma ==
  ASSUME Typed, NEW n
  PROVE  ClosedWires(n) \subseteq [of : 1 .. requests, buf : Buffers, closed : BOOLEAN]
<1> SUFFICES ASSUME NEW w \in ClosedWires(n)
             PROVE  w \in [of : 1 .. requests, buf : Buffers, closed : BOOLEAN]
  OBVIOUS
<1>1. PICK u \in wires : w = IF u.of = n THEN [u EXCEPT !.closed = TRUE] ELSE u
  BY DEF ClosedWires
<1>2. u \in [of : 1 .. requests, buf : Buffers, closed : BOOLEAN]
  BY DEF Typed
<1> QED BY <1>1, <1>2

\* A buffer that is given back goes to its pool, where it was not.
LEMMA ReleaseLemma ==
  ASSUME TypeInv, Separate, NEW h \in Handlers, NEW b \in Buffers, Owns(handlers[h], b)
  PROVE  /\ Release(b) \in [Buffers -> {0, 1}]
         /\ \A c \in Buffers : Release(b)[c] > 0 => c \in PoolSized
         /\ \A c \in Buffers : Release(b)[c] # pool[c] => c = b /\ c \in PoolSized
<1>1. pool[b] = 0
  BY DEF Separate
<1> QED BY <1>1 DEF Release, TypeInv, Typed

LEMMA TransportClosesKeeps ==
  ASSUME Inv, NEW h \in Handlers, TransportCloses(h)
  PROVE  Inv'
<1>1. TypeInv /\ Separate /\ Typed
  BY DEF Inv, TypeInv
<1>2. PICK r : /\ Onward(h, r) /\ r.of = handlers[h].of /\ handlers[h].body \in Buffers
               /\ r.raw = handlers[h].raw /\ r.body = handlers[h].body /\ r.closed
               /\ r.reply = handlers[h].reply
  BY <1>1, TransportClosesStep
<1>3. /\ UNCHANGED <<scenario, version, requests, resolved, transcoders, bytes>>
      /\ wires' = ClosedWires(handlers[h].of)
  BY DEF TransportCloses, fileVars
<1>4. /\ pool' \in [Buffers -> {0, 1}]
      /\ \A c \in Buffers : pool'[c] > 0 => c \in PoolSized
      /\ \A c \in Buffers : pool'[c] # pool[c] => OwnsBody(handlers[h], c) /\ c \in PoolSized
  <2>1. CASE handlers[h].closed
    BY <1>1, <2>1 DEF TransportCloses, CloseOnce, Typed
  <2>2. CASE ~handlers[h].closed
    <3>1. OwnsBody(handlers[h], handlers[h].body) /\ Owns(handlers[h], handlers[h].body)
      BY <2>2 DEF OwnsBody, Owns
    <3>2. pool' = Release(handlers[h].body)
      BY <2>2 DEF TransportCloses, CloseOnce
    <3> QED BY <1>1, <1>2, <3>1, <3>2, ReleaseLemma
  <2> QED BY <2>1, <2>2
<1>5. wires' \subseteq [of : 1 .. requests, buf : Buffers, closed : BOOLEAN]
  BY <1>1, <1>3, ClosedWiresLemma
<1>6. Typed'
  BY <1>1, <1>3, <1>4, <1>5 DEF Typed, file
<1>7. /\ \A c \in Buffers : Owns(r, c) => Owns(handlers[h], c) /\ pool'[c] = pool[c]
      /\ Apart(r)
  <2>1. r.closed = TRUE
    BY <1>2 DEF Onward, Local, Shaped
  <2>2. Apart(r) /\ \A c \in Buffers : Owns(r, c) => Owns(handlers[h], c)
    BY <1>1, <1>2, <2>1 DEF Separate, Apart, Owns, OwnsBody
  <2>3. ASSUME NEW c \in Buffers, Owns(r, c) PROVE pool'[c] = pool[c]
    <3> SUFFICES ASSUME OwnsBody(handlers[h], c), c \in PoolSized PROVE FALSE
      BY <1>4
    <3>1. handlers[h].raw # c /\ handlers[h].reply # c
      BY <1>1 DEF Separate, Apart
    <3> QED BY <1>2, <2>1, <2>3, <3>1 DEF Owns, OwnsBody
  <2> QED BY <2>2, <2>3
<1>8. \A c \in Buffers : pool'[c] # pool[c] => Owns(handlers[h], c) /\ c \in PoolSized
  BY <1>4 DEF Owns
<1>9. Separate'
  BY <1>1, <1>2, <1>3, <1>7, <1>8, OnesGivenBack
<1> QED BY <1>1, <1>2, <1>6, <1>9, OnwardLemma DEF Inv, TypeInv

LEMMA CloseRawKeeps ==
  ASSUME Inv, NEW h \in Handlers, CloseRaw(h)
  PROVE  Inv'
<1>1. TypeInv /\ Separate /\ Typed
  BY DEF Inv, TypeInv
<1>2. PICK r : /\ Onward(h, r) /\ r.of = handlers[h].of /\ handlers[h].raw \in Buffers
               /\ r.raw = None /\ r.body = handlers[h].body /\ r.closed = handlers[h].closed
               /\ r.reply = handlers[h].reply
  BY <1>1, CloseRawStep
<1>3. /\ UNCHANGED <<scenario, version, requests, resolved, transcoders, bytes, wires>>
      /\ pool' = Release(handlers[h].raw)
  BY DEF CloseRaw, fileVars
<1>4. /\ pool' \in [Buffers -> {0, 1}]
      /\ \A c \in Buffers : pool'[c] > 0 => c \in PoolSized
      /\ \A c \in Buffers : pool'[c] # pool[c] => c = handlers[h].raw /\ c \in PoolSized
  <2>1. Owns(handlers[h], handlers[h].raw)
    BY DEF Owns
  <2> QED BY <1>1, <1>2, <1>3, <2>1, ReleaseLemma
<1>5. Typed'
  BY <1>1, <1>3, <1>4 DEF Typed, file
<1>6. \A c \in Buffers : Owns(r, c) => Owns(handlers[h], c) /\ pool'[c] = pool[c]
  <2>1. ASSUME NEW c \in Buffers, Owns(r, c) PROVE Owns(handlers[h], c) /\ c # handlers[h].raw
    BY <1>1, <1>2, <2>1, NoneAssumption DEF Separate, Apart, Owns, OwnsBody
  <2> QED BY <1>4, <2>1
<1>7. Apart(r)
  BY <1>1, <1>2, NoneAssumption DEF Separate, Apart, OwnsBody
<1>8. \A c \in Buffers : pool'[c] # pool[c] =>
        Owns(handlers[h], c) /\ c \in PoolSized /\ ~OwnsBody(handlers[h], c)
  BY <1>1, <1>4 DEF Separate, Apart, Owns
<1>9. Separate'
  BY <1>1, <1>2, <1>3, <1>6, <1>7, <1>8, OnesGivenBack
<1> QED BY <1>1, <1>2, <1>5, <1>9, OnwardLemma DEF Inv, TypeInv

\* The request body and the reply go back, which are two buffers.
LEMMA ClosedLemma ==
  ASSUME TypeInv, Separate, NEW h \in Handlers
  PROVE  /\ Closed(h) \in [Buffers -> {0, 1}]
         /\ \A c \in Buffers : Closed(h)[c] > 0 => c \in PoolSized
         /\ \A c \in Buffers : Closed(h)[c] # pool[c] => Owns(handlers[h], c) /\ c \in PoolSized
<1> DEFINE q == handlers[h]
           p == IF q.body = None THEN pool ELSE CloseOnce(h)
<1>1. q.body \in Buffers \cup {None}
  BY StepFacts DEF Local, Shaped
<1>2. /\ p \in [Buffers -> {0, 1}]
      /\ \A c \in Buffers : p[c] > 0 => c \in PoolSized
      /\ \A c \in Buffers : p[c] # pool[c] => OwnsBody(q, c) /\ c \in PoolSized
  <2>1. CASE q.body = None \/ q.closed
    <3>1. p = pool
      BY <2>1 DEF CloseOnce
    <3> QED BY <3>1 DEF TypeInv, Typed
  <2>2. CASE q.body \in Buffers /\ ~q.closed
    <3>1. OwnsBody(q, q.body) /\ Owns(q, q.body)
      BY <2>2 DEF OwnsBody, Owns
    <3>2. p = Release(q.body)
      BY <2>2, NoneAssumption DEF CloseOnce
    <3> HIDE DEF p
    <3> QED BY <2>2, <3>1, <3>2, ReleaseLemma
  <2> QED BY <1>1, <2>1, <2>2
<1>3. Closed(h) = IF q.reply \in PoolSized THEN [p EXCEPT ![q.reply] = @ + 1] ELSE p
  BY DEF Closed
<1> HIDE DEF p
<1>4. CASE q.reply \notin PoolSized
  BY <1>2, <1>3, <1>4 DEF Owns
<1>5. CASE q.reply \in PoolSized
  <2>1. q.reply \in Buffers /\ Owns(q, q.reply) /\ pool[q.reply] = 0 /\ ~OwnsBody(q, q.reply)
    BY <1>5, BufferAssumption DEF Owns, Separate, Apart
  <2>2. p[q.reply] = 0
    BY <1>2, <2>1
  <2> QED BY <1>2, <1>3, <1>5, <2>1, <2>2 DEF Owns
<1> QED BY <1>4, <1>5

LEMMA FinishKeeps ==
  ASSUME Inv, NEW h \in Handlers, Finish(h)
  PROVE  Inv'
<1>1. TypeInv /\ Separate /\ Typed
  BY DEF Inv, TypeInv
<1>2. Onward(h, Idle)
  BY <1>1, FinishStep
<1>3. /\ UNCHANGED <<scenario, version, requests, resolved, transcoders, bytes>>
      /\ wires' = ClosedWires(handlers[h].of) /\ pool' = Closed(h)
  BY DEF Finish, fileVars
<1>4. Typed'
  <2>1. wires' \subseteq [of : 1 .. requests, buf : Buffers, closed : BOOLEAN]
    BY <1>1, <1>3, ClosedWiresLemma
  <2> QED BY <1>1, <1>3, <2>1, ClosedLemma DEF Typed, file
<1>5. (\A c \in Buffers : ~Owns(Idle, c)) /\ Apart(Idle) /\ Idle.of = 0
  BY NoneAssumption DEF Owns, OwnsBody, Apart, Idle
<1>6. \A c \in Buffers : pool'[c] # pool[c] => Owns(handlers[h], c) /\ c \in PoolSized
  BY <1>1, <1>3, ClosedLemma
<1>7. Separate'
  BY <1>1, <1>2, <1>3, <1>5, <1>6, OnesGivenBack
<1> QED BY <1>1, <1>2, <1>4, <1>7, OnwardLemma DEF Inv, TypeInv

\* The steps in which no goroutine moves.
LEMMA RestKeeps ==
  ASSUME Inv, UNCHANGED <<fileVars, bufferVars, handlers, requests>>, wires' \subseteq wires
  PROVE  Inv'
<1>1. Typed'
  BY DEF Inv, TypeInv, Typed, file, fileVars, bufferVars
<1>2. Locals' /\ Unique'
  BY DEF Inv, TypeInv, Locals, Unique, fileVars
<1>3. Separate'
  BY DEF Inv, Separate, bufferVars
<1> QED BY <1>1, <1>2, <1>3 DEF Inv, TypeInv

LEMMA NextKeeps == Inv /\ [Next]_vars => Inv'
<1> SUFFICES ASSUME Inv, [Next]_vars PROVE Inv'
  OBVIOUS
<1>1. CASE RewriteFile
  BY <1>1, RewriteFileKeeps
<1>2. ASSUME NEW h \in Handlers, NEW route \in scenario.routes, Prepare(h, route) PROVE Inv'
  BY <1>2, PrepareKeeps
<1>3. ASSUME NEW h \in Handlers,
             Stat(h) \/ CheckCache(h) \/ ReadFile(h) \/ StoreEntry(h) \/ StoreTranscoder(h) \/ Answer(h)
      PROVE  Inv'
  BY <1>3, LookupKeeps
<1>4. ASSUME NEW h \in Handlers, ReadRequest(h) \/ ReadResponse(h) PROVE Inv'
  BY <1>4, ReadKeeps
<1>5. ASSUME NEW h \in Handlers, ConvertRequest(h) \/ ConvertResponse(h) PROVE Inv'
  BY <1>5, ConvertRequestKeeps, ConvertResponseKeeps
<1>6. ASSUME NEW h \in Handlers, TransportCloses(h) \/ CloseRaw(h) \/ Finish(h) PROVE Inv'
  BY <1>6, TransportClosesKeeps, CloseRawKeeps, FinishKeeps
<1>7. ASSUME NEW h \in Handlers, Retry(h) PROVE Inv'
  BY <1>7, RestKeeps DEF Retry
<1>8. ASSUME NEW w \in wires, TransportReads(w) PROVE Inv'
  BY <1>8, RestKeeps DEF TransportReads
<1>9. CASE UNCHANGED vars
  BY <1>9, RestKeeps DEF vars
<1> QED BY <1>1, <1>2, <1>3, <1>4, <1>5, <1>6, <1>7, <1>8, <1>9 DEF Next

\* However many requests are served at once, Inv holds: whose a buffer is, what a
\* goroutine that looks for the descriptor knows, and what becomes of an answer.
THEOREM Invariance == Spec => []Inv
<1>1. Init => Inv
  BY InitInv
<1>2. Inv /\ [Next]_vars => Inv'
  BY NextKeeps
<1> QED BY <1>1, <1>2, PTL DEF Spec

\* Every variable has its type: a buffer is in its pool at most as often as it may be,
\* and never in one whose size it has not.
THEOREM TypeCorrect == Spec => []TypeOK
<1>1. Inv => TypeOK
  <2> SUFFICES ASSUME Inv PROVE TypeOK
    OBVIOUS
  <2>1. Typed
    BY DEF Inv, TypeInv
  <2>2. ASSUME NEW h \in Handlers
        PROVE  /\ handlers[h].pc \in Steps /\ handlers[h].of \in 0 .. requests
               /\ {handlers[h].raw, handlers[h].body, handlers[h].reply} \subseteq Buffers \cup {None}
    <3>1. Local(handlers[h], scenario, version, requests) /\ requests \in Nat
      BY StepFacts DEF Inv
    <3>2. handlers[h].of \in 0 .. requests
      BY <3>1, IdleLemma, StepFacts DEF Local, Serves, Inv
    <3> QED BY <3>1, <3>2 DEF Local, Shaped
  <2> QED BY <2>1, <2>2 DEF TypeOK, Typed
<1> QED BY <1>1, Invariance, PTL

-----------------------------------------------------------------------------
(* What clients, upstreams and the breaker see                             *)

LEMMA NothingSeen ==
  ASSUME [Next]_vars
  PROVE  /\ used' = used \/ \E h \in Handlers : StoreTranscoder(h)
         /\ sent' = sent \/ (\E h \in Handlers : Retry(h)) \/ (\E w \in wires : TransportReads(w))
         /\ replied' = replied \/ \E h \in Handlers : Finish(h)
<1> USE DEF fileVars, Quiet
<1>1. CASE RewriteFile
  BY <1>1 DEF RewriteFile
<1>2. ASSUME NEW h \in Handlers, NEW route \in scenario.routes, Prepare(h, route)
      PROVE  UNCHANGED <<used, sent, replied>>
  BY <1>2 DEF Prepare
<1>3. ASSUME NEW h \in Handlers, Stat(h) \/ CheckCache(h) \/ ReadFile(h)
      PROVE  UNCHANGED <<used, sent, replied>>
  BY <1>3 DEF Stat, CheckCache, ReadFile
<1>4. ASSUME NEW h \in Handlers, StoreEntry(h) PROVE UNCHANGED <<used, sent, replied>>
  BY <1>4 DEF StoreEntry
<1>5. ASSUME NEW h \in Handlers, StoreTranscoder(h) PROVE UNCHANGED <<sent, replied>>
  BY <1>5 DEF StoreTranscoder
<1>6. ASSUME NEW h \in Handlers, ReadRequest(h) \/ ConvertRequest(h) \/ Answer(h)
      PROVE  UNCHANGED <<used, sent, replied>>
  BY <1>6 DEF ReadRequest, ConvertRequest, Answer
<1>7. ASSUME NEW h \in Handlers, ReadResponse(h) \/ ConvertResponse(h) \/ CloseRaw(h) \/ TransportCloses(h)
      PROVE  UNCHANGED <<used, sent, replied>>
  BY <1>7 DEF ReadResponse, ConvertResponse, CloseRaw, TransportCloses
<1>8. ASSUME NEW h \in Handlers, Retry(h) PROVE UNCHANGED <<used, replied>>
  BY <1>8 DEF Retry
<1>9. ASSUME NEW h \in Handlers, Finish(h) PROVE UNCHANGED <<used, sent>>
  BY <1>9 DEF Finish
<1>10. ASSUME NEW w \in wires, TransportReads(w) PROVE UNCHANGED <<used, replied>>
  BY <1>10 DEF TransportReads
<1>11. CASE UNCHANGED vars
  BY <1>11 DEF vars
<1> QED BY <1>1, <1>2, <1>3, <1>4, <1>5, <1>6, <1>7, <1>8, <1>9, <1>10, <1>11 DEF Next

\* However requests share the pools: no client receives what belongs to another, and no
\* upstream either, unless a transport reads or copies a body that was closed before.
THEOREM BodiesStayApart == Spec => []BodiesNotMixed
<1>1. Init => BodiesNotMixed
  BY DEF Init, BodiesNotMixed
<1>2. Inv /\ BodiesNotMixed /\ [Next]_vars => BodiesNotMixed'
  <2> SUFFICES ASSUME Inv, BodiesNotMixed, [Next]_vars PROVE BodiesNotMixed'
    OBVIOUS
  <2>1. \A s \in sent' : s.exposed \/ s.data = s.of
    <3>1. CASE sent' = sent
      BY <3>1 DEF BodiesNotMixed
    <3>2. ASSUME NEW h \in Handlers, Retry(h)
          PROVE  \A s \in sent' : s.exposed \/ s.data = s.of
      <4> DEFINE q == handlers[h]
      <4>1. /\ sent' = {[of |-> q.of, data |-> bytes[q.body], exposed |-> q.body \in PoolSized]}
            /\ q.closed
        BY <3>2 DEF Retry
      <4>2. q.body \in Buffers
        BY <4>1, StepFacts DEF Inv, Local, Shaped, Holds
      <4>3. q.body \notin PoolSized => bytes[q.body] = q.of
        BY <4>2 DEF Inv, Separate, Owns, OwnsBody
      <4>4. \A s \in sent' : /\ s.of = q.of /\ s.data = bytes[q.body]
                             /\ s.exposed = (q.body \in PoolSized)
        BY <4>1
      <4> QED BY <4>3, <4>4, Zenon
    <3>3. ASSUME NEW w \in wires, TransportReads(w)
          PROVE  \A s \in sent' : s.exposed \/ s.data = s.of
      <4>1. sent' = {[of |-> w.of, data |-> bytes[w.buf], exposed |-> w.closed /\ w.buf \in PoolSized]}
        BY <3>3 DEF TransportReads
      <4>2. w.buf \in Buffers
        BY DEF Inv, TypeInv, Typed
      <4>3. ~(w.closed /\ w.buf \in PoolSized) => bytes[w.buf] = w.of
        BY <4>2 DEF Inv, Separate, OwnedByWire
      <4>4. \A s \in sent' : /\ s.of = w.of /\ s.data = bytes[w.buf]
                             /\ s.exposed = (w.closed /\ w.buf \in PoolSized)
        BY <4>1
      <4> QED BY <4>3, <4>4, Zenon
    <3> QED BY <3>1, <3>2, <3>3, NothingSeen
  <2>2. \A r \in replied' : r.data \in {None, r.of}
    <3>1. CASE replied' = replied
      BY <3>1 DEF BodiesNotMixed
    <3>2. ASSUME NEW h \in Handlers, Finish(h), NEW r \in replied'
          PROVE  r.data \in {None, r.of}
      <4>1. /\ r.data = IF handlers[h].reply = None THEN None ELSE bytes[handlers[h].reply]
            /\ r.of = handlers[h].of
        BY <3>2 DEF Finish
      <4>2. handlers[h].reply \in Buffers \cup {None}
        BY StepFacts DEF Inv, Local, Shaped
      <4>3. handlers[h].reply \in Buffers => bytes[handlers[h].reply] = handlers[h].of
        BY DEF Inv, Separate, Owns
      <4> QED BY <4>1, <4>2, <4>3
    <3> QED BY <3>1, <3>2, NothingSeen
  <2> QED BY <2>1, <2>2 DEF BodiesNotMixed
<1> QED BY <1>1, <1>2, Invariance, PTL DEF Spec

\* Whenever the descriptor file is rewritten and whoever stores its entry last, a
\* transcoder is made from a content that the file had after its request had come.
THEOREM DescriptorsAreFresh == Spec => []ResolvedIsFresh
<1>1. Init => ResolvedIsFresh
  BY DEF Init, ResolvedIsFresh
<1>2. Inv /\ ResolvedIsFresh /\ [Next]_vars => ResolvedIsFresh'
  <2> SUFFICES ASSUME Inv, ResolvedIsFresh, [Next]_vars PROVE ResolvedIsFresh'
    OBVIOUS
  <2>1. CASE used' = used
    BY <2>1 DEF ResolvedIsFresh
  <2>2. ASSUME NEW h \in Handlers, StoreTranscoder(h) PROVE ResolvedIsFresh'
    <3>1. handlers[h].files \in handlers[h].seen
      BY <2>2, StoreTranscoderStep DEF Inv
    <3>2. used' = {[files |-> handlers[h].files, seen |-> handlers[h].seen]}
      BY <2>2 DEF StoreTranscoder
    <3> QED BY <3>1, <3>2 DEF ResolvedIsFresh
  <2> QED BY <2>1, <2>2, NothingSeen
<1> QED BY <1>1, <1>2, Invariance, PTL DEF Spec

\* Whatever an upstream answers and wherever it puts the status of a call: a failure
\* reaches the client as a failure, and an HTTP client's breaker counts it.
THEOREM FailuresAreNotLost == Spec => []FailureStaysFailure
<1> DEFINE Table == \A status \in {400, 401, 403, 404, 409, 429, 500, 501, 503, 504} :
                      GrpcCodeToHTTPStatus(HttpStatusToGRPCCode(status)) = status
           Outcomes == \A r \in replied : r.answer # None =>
             CASE Mode[r.route] = "http_json_to_grpc" /\ CallFailed(r.answer) ->
                    r.status >= 400 /\ r.breaker = FALSE
               [] Mode[r.route] = "grpc_to_http_json" /\ r.answer.status >= 400 ->
                    r.code \notin {None, 0} \/ r.status = 502
               [] Mode[r.route] = "none" -> r.status = r.answer.status
               [] OTHER -> \/ r.status = 200 /\ r.breaker = TRUE /\ r.code \in {None, 0}
                           \/ r.status = 502 /\ r.breaker = FALSE
<1>1. Table
  BY DEF GrpcCodeToHTTPStatus, HttpStatusToGRPCCode
<1>2. Init => Outcomes
  BY DEF Init
<1>3. Inv /\ Outcomes /\ [Next]_vars => Outcomes'
  <2> SUFFICES ASSUME Inv, Outcomes, [Next]_vars PROVE Outcomes'
    OBVIOUS
  <2>1. CASE replied' = replied
    BY <2>1
  <2>2. ASSUME NEW h \in Handlers, Finish(h) PROVE Outcomes'
    <3> DEFINE q == handlers[h]
    <3>1. q.pc = "end" /\ Local(q, scenario, version, requests)
      BY <2>2, StepFacts DEF Finish, Inv
    <3>2. q.answer # None => q.counted /\ Right(q.route, q.answer, q.status, q.code)
      BY <3>1 DEF Local, Told
    <3>3. \A r \in replied' : /\ r.route = q.route /\ r.answer = q.answer /\ r.status = q.status
                              /\ r.code = q.code
                              /\ r.breaker = IF q.counted THEN Success(q.status) ELSE None
      BY <2>2 DEF Finish
    <3>4. /\ q.status >= 400 /\ q.status \in Nat => ~Success(q.status)
          /\ Success(200) /\ ~Success(502)
      BY DEF Success
    <3>5. q.counted => \A r \in replied' : r.breaker = Success(q.status)
      BY <3>3
    <3>6. q.status \in Nat /\ Success(q.status) \in BOOLEAN
      BY <3>1 DEF Local, Shaped, Success
    <3> HIDE DEF q
    <3> QED BY <3>2, <3>3, <3>4, <3>5, <3>6 DEF Right
  <2> QED BY <2>1, <2>2, NothingSeen
<1>4. Table /\ Outcomes => FailureStaysFailure
  BY DEF FailureStaysFailure
<1> QED BY <1>1, <1>2, <1>3, <1>4, Invariance, PTL DEF Spec
=============================================================================
