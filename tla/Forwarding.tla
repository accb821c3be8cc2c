----------------------------- MODULE Forwarding -----------------------------
(***************************************************************************)
(* Forwarding with protocol conversion (internal/core/proxy and            *)
(* internal/core/transcoding): concurrent requests share the transcoder    *)
(* cache, the resolver's cache of descriptor files, which may be rewritten *)
(* at any time, and the pools of byte buffers.                             *)
(*                                                                         *)
(* Requests are numbered. The bytes of a buffer are represented by the     *)
(* number of the request they belong to, the content of a descriptor file  *)
(* by its version; a rewritten file differs in size or modification time.  *)
(* Converting is one step, for its protobuf message is nobody else's. Of   *)
(* the two buffers that readAllPooled takes, the one it gives back itself  *)
(* is left out, and so are metadata and the dialling of connections.       *)
(***************************************************************************)
EXTENDS Integers, Sequences, FiniteSets

CONSTANTS
  Handlers,      \* goroutines that serve requests
  Routes,        \* routes, each with a cache key of its own
  Mode,          \* per route: protocol_convert
  Buffers,       \* byte slices
  PoolSized,     \* those whose capacity is that of a pool
  Scenarios,     \* bounds: the file's versions, the routes asked for, whether their
                 \*   transcoders are in the caches already, buffers, answers, how many
                 \*   requests, and whether reading and converting may fail
  None           \* an absent value

\* A configuration with a route of any other mode is refused.
Modes == {"http_json_to_grpc", "grpc_to_http_json", "none"}

ASSUME ModeAssumption    == Mode \in [Routes -> Modes]
ASSUME BufferAssumption  == PoolSized \subseteq Buffers
ASSUME ScenarioAssumption == \A s \in Scenarios :
  /\ s.file # <<>> /\ s.file \in Seq({"good", "missing", "malformed", "methodless"})
  /\ s.routes \subseteq Routes /\ s.buffers \subseteq Buffers
  /\ s.requests \in Nat /\ s.faults \in BOOLEAN
  /\ s.warm => s.file[1] = "good"

\* A gRPC server states the status of a call once, in the header or in the trailer.
ASSUME AnswerAssumption == \A s \in Scenarios : \A a \in s.answers :
  /\ a.status \in Nat /\ {a.header, a.trailer} \subseteq Int \cup {None}
  /\ None \in {a.header, a.trailer}
ASSUME NoneAssumption == None \notin Int \cup Routes \cup Buffers

VARIABLES
  scenario,        \* the scenario, which never changes
  version,         \* of the descriptor file
  resolved,        \* resolver cache: [files, stamp], None if empty
  transcoders,     \* transcoder cache: per route the version it was made from
  bytes,           \* content of each buffer
  pool,            \* how often each buffer is in its pool
  handlers,        \* the goroutines
  wires,           \* request bodies that a transport may yet read
  sent,            \* observer: what an upstream received last
  replied,         \* observer: what a client received last
  used,            \* observer: the resolved file that was used last
  requests         \* requests so far

fileVars   == <<scenario, version, resolved, transcoders, used>>
bufferVars == <<bytes, pool>>
vars == <<fileVars, bufferVars, handlers, wires, sent, replied, requests>>

\* The versions of the descriptor file; an answer is [status, header, trailer, readable].
file    == scenario.file
Answers == scenario.answers

Idle == [pc |-> "idle", of |-> 0, route |-> None, seen |-> {}, stamp |-> 0, files |-> 0,
         raw |-> None, body |-> None, closed |-> FALSE, reply |-> None, answer |-> None,
         status |-> 0, code |-> None, counted |-> FALSE]

Steps == {"idle", "stat", "check", "load", "store", "build", "receive", "convert", "sent", "answered",
           "readback", "rewrite", "copy", "end"}

TypeOK ==
  /\ version \in DOMAIN file
  /\ resolved \in {None} \cup [files : DOMAIN file, stamp : DOMAIN file]
  /\ transcoders \in [Routes -> {None} \cup DOMAIN file]
  /\ bytes \in [Buffers -> 0 .. requests]
  /\ pool \in [Buffers -> Nat] /\ \A b \in Buffers : pool[b] > 0 => b \in PoolSized
  /\ \A h \in Handlers :
       /\ handlers[h].pc \in Steps /\ handlers[h].of \in 0 .. requests
       /\ {handlers[h].raw, handlers[h].body, handlers[h].reply} \subseteq Buffers \cup {None}
  /\ wires \subseteq [of : 1 .. requests, buf : Buffers, closed : BOOLEAN]

Init ==
  /\ scenario \in Scenarios /\ version = 1
  /\ resolved = IF scenario.warm THEN [files |-> 1, stamp |-> 1] ELSE None
  /\ transcoders = [r \in Routes |-> IF scenario.warm THEN 1 ELSE None]
  /\ bytes = [b \in Buffers |-> 0]
  /\ pool = [b \in Buffers |-> 0]
  /\ handlers = [h \in Handlers |-> Idle]
  /\ wires = {} /\ sent = {} /\ replied = {} /\ used = {}
  /\ requests = 0

Become(h, record) == handlers' = [handlers EXCEPT ![h] = record]

\* The file is replaced while a handler looks at it or not.
RewriteFile ==
  /\ version < Len(file) /\ version' = version + 1
  /\ handlers' = [h \in Handlers |->
                    IF handlers[h].seen = {} THEN handlers[h]
                    ELSE [handlers[h] EXCEPT !.seen = @ \cup {version'}]]
  /\ UNCHANGED <<scenario, resolved, transcoders, used, bufferVars, wires, sent, replied, requests>>

-----------------------------------------------------------------------------
(* prepareTranscoder, ResolveGRPCMethod and loadFiles                      *)

Quiet == UNCHANGED <<bufferVars, wires, sent, replied>>

\* A request arrives: no conversion, a cached transcoder, or one to be made.
Prepare(h, r) ==
  LET begun == [Idle EXCEPT !.of = requests', !.route = r]
  IN /\ handlers[h].pc = "idle" /\ requests < scenario.requests
     /\ requests' = requests + 1
     /\ \/ /\ Mode[r] = "none"
           /\ Become(h, [begun EXCEPT !.pc = "answered"])
        \/ /\ Mode[r] # "none" /\ transcoders[r] # None
           /\ Become(h, [begun EXCEPT !.pc = "receive"])
        \/ /\ Mode[r] # "none" /\ transcoders[r] = None
           /\ Become(h, [begun EXCEPT !.pc = "stat", !.seen = {version}])
     /\ UNCHANGED fileVars /\ Quiet

NotPrepared(h) ==
  Become(h, [handlers[h] EXCEPT !.pc = "end", !.seen = {}, !.stamp = 0, !.files = 0, !.status = 500])

Stat(h) ==
  /\ handlers[h].pc = "stat"
  /\ IF file[version] = "missing" THEN NotPrepared(h)
     ELSE Become(h, [handlers[h] EXCEPT !.pc = "check", !.stamp = version])
  /\ UNCHANGED <<fileVars, requests>> /\ Quiet

CheckCache(h) ==
  /\ handlers[h].pc = "check"
  /\ IF resolved # None /\ resolved.stamp = handlers[h].stamp
     THEN Become(h, [handlers[h] EXCEPT !.pc = "build", !.files = resolved.files])
     ELSE Become(h, [handlers[h] EXCEPT !.pc = "load"])
  /\ UNCHANGED <<fileVars, requests>> /\ Quiet

ReadFile(h) ==
  /\ handlers[h].pc = "load"
  /\ IF file[version] \in {"missing", "malformed"} THEN NotPrepared(h)
     ELSE Become(h, [handlers[h] EXCEPT !.pc = "store", !.files = version])
  /\ UNCHANGED <<fileVars, requests>> /\ Quiet

\* Mutant: size and time are asked for when the file has been read.
EntryStampedLate(h) == [files |-> handlers[h].files, stamp |-> version]

\* The size and the time are those from before the file was read.
Entry(h) == [files |-> handlers[h].files, stamp |-> handlers[h].stamp]

StoreEntry(h) ==
  /\ handlers[h].pc = "store"
  /\ resolved' = Entry(h)
  /\ Become(h, [handlers[h] EXCEPT !.pc = "build"])
  /\ UNCHANGED <<scenario, version, transcoders, used, requests>> /\ Quiet

\* The method is looked up and the transcoder stored, over another's if need be.
StoreTranscoder(h) ==
  LET files == handlers[h].files
  IN /\ handlers[h].pc = "build"
     /\ used' = {[files |-> files, seen |-> handlers[h].seen]}
     /\ \/ /\ file[files] = "methodless"
           /\ NotPrepared(h) /\ UNCHANGED transcoders
        \/ /\ file[files] # "methodless"
           /\ transcoders' = [transcoders EXCEPT ![handlers[h].route] = files]
           /\ Become(h, [handlers[h] EXCEPT !.pc = "receive", !.seen = {}, !.stamp = 0, !.files = 0])
     /\ UNCHANGED <<scenario, version, resolved, requests>> /\ Quiet

-----------------------------------------------------------------------------
(* Buffers                                                                 *)

Held == (UNION {{handlers[h].raw, handlers[h].body, handlers[h].reply} : h \in Handlers})
          \cup {w.buf : w \in wires}

\* Buffers that nobody can reach are as good as new.
Unreachable == {b \in Buffers : pool[b] = 0 /\ b \notin Held}

\* acquireBytes and what growBytes makes of it: a pooled buffer or a new one. The one
\* that is outgrown goes back, so at most the content of a pooled one is lost.
Acquire(b, n) ==
  /\ b \in Unreachable \/ pool[b] > 0
  /\ bytes' = [bytes EXCEPT ![b] = n]
  /\ pool' = IF pool[b] > 0 THEN [pool EXCEPT ![b] = @ - 1] ELSE pool

\* Marshalling and framing allocate.
Allocate(b, n) == b \in Unreachable /\ bytes' = [bytes EXCEPT ![b] = n] /\ UNCHANGED pool

\* Mutant: whatever its capacity.
ReleaseAny(b) == [pool EXCEPT ![b] = @ + 1]

Release(b) == IF b \in PoolSized THEN [pool EXCEPT ![b] = @ + 1] ELSE pool

\* Mutant: Close without sync.Once.
CloseEachTime(h) == Release(handlers[h].body)

\* pooledReadCloser.Close of the request body.
CloseOnce(h) == IF handlers[h].closed THEN pool ELSE Release(handlers[h].body)

-----------------------------------------------------------------------------
(* applyRequestTranscoding and the reverse proxy                           *)

\* The buffer is not given back when its content has been converted.
ReadRequest(h) ==
  /\ handlers[h].pc = "receive"
  /\ \/ \E b \in scenario.buffers : /\ Acquire(b, handlers[h].of)
                                    /\ Become(h, [handlers[h] EXCEPT !.pc = "convert", !.raw = b])
     \/ /\ scenario.faults
        /\ Become(h, [handlers[h] EXCEPT !.pc = "end", !.status = 400])
        /\ UNCHANGED bufferVars
  /\ UNCHANGED <<fileVars, wires, sent, replied, requests>>

\* What has been converted goes to the transport.
ConvertRequest(h) ==
  /\ handlers[h].pc = "convert"
  /\ \/ \E b \in scenario.buffers :
          /\ Allocate(b, bytes[handlers[h].raw])
          /\ Become(h, [handlers[h] EXCEPT !.pc = "sent", !.raw = None, !.body = b])
          /\ wires' = wires \cup {[of |-> handlers[h].of, buf |-> b, closed |-> FALSE]}
     \/ /\ scenario.faults
        /\ Become(h, [handlers[h] EXCEPT !.pc = "end", !.raw = None, !.status = 400])
        /\ UNCHANGED <<bufferVars, wires>>
  /\ UNCHANGED <<fileVars, sent, replied, requests>>

\* The transport reads the body, even after an upstream has answered early and the
\* handler has closed it.
TransportReads(w) ==
  /\ sent' = {[of |-> w.of, data |-> bytes[w.buf], exposed |-> w.closed /\ w.buf \in PoolSized]}
  /\ wires' = wires \ {w}
  /\ UNCHANGED <<fileVars, bufferVars, handlers, replied, requests>>

ClosedWires(n) ==
  {IF w.of = n THEN [w EXCEPT !.closed = TRUE] ELSE w : w \in wires}

\* The transport closes the body when it has read it or failed.
TransportCloses(h) ==
  /\ handlers[h].pc = "sent"
  /\ pool' = CloseOnce(h)
  /\ wires' = ClosedWires(handlers[h].of)
  /\ Become(h, [handlers[h] EXCEPT !.pc = "answered", !.closed = TRUE])
  /\ UNCHANGED <<fileVars, bytes, sent, replied, requests>>

\* On a retry GetBody copies what the slice holds by then.
Retry(h) ==
  /\ handlers[h].pc = "answered" /\ handlers[h].closed
  /\ sent' = {[of |-> handlers[h].of, data |-> bytes[handlers[h].body],
              exposed |-> handlers[h].body \in PoolSized]}
  /\ UNCHANGED <<fileVars, bufferVars, handlers, wires, replied, requests>>

\* An answer, perhaps before the body has been read, or none.
Answer(h) ==
  /\ handlers[h].pc \in {"sent", "answered"}
  /\ \/ \E a \in Answers :
          Become(h, IF Mode[handlers[h].route] = "none"
                    THEN [handlers[h] EXCEPT !.pc = "end", !.counted = TRUE, !.answer = a, !.status = a.status]
                    ELSE [handlers[h] EXCEPT !.pc = "readback", !.counted = TRUE, !.answer = a])
     \/ scenario.faults /\ Become(h, [handlers[h] EXCEPT !.pc = "end", !.counted = TRUE, !.status = 502])
  /\ UNCHANGED <<fileVars, bufferVars, wires, sent, replied, requests>>

-----------------------------------------------------------------------------
(* Responses                                                               *)

GrpcCodeToHTTPStatus(code) ==
  CASE code = 0                -> 200
    [] code \in {1, 2, 13, 15} -> 500
    [] code \in {3, 9, 11}     -> 400
    [] code = 4                -> 504
    [] code = 5                -> 404
    [] code \in {6, 10}        -> 409
    [] code = 7                -> 403
    [] code = 8                -> 429
    [] code = 12               -> 501
    [] code = 14               -> 503
    [] code = 16               -> 401
    [] OTHER                   -> 500

HttpStatusToGRPCCode(status) ==
  CASE status = 400            -> 3
    [] status = 401            -> 16
    [] status = 403            -> 7
    [] status = 404            -> 5
    [] status = 409            -> 10
    [] status = 429            -> 8
    [] status = 501            -> 12
    [] status \in {502, 503}   -> 14
    [] status = 504            -> 4
    [] OTHER                   -> IF status >= 500 THEN 13 ELSE 2

\* Mutant: the status is asked for before the body, and with it the trailers, is read.
GrpcStatusOfHeader(a) == a.header

\* Grpc-Status: the header's, or the trailer's; -1 is one that is no number.
GrpcStatus(a) == IF a.header # None THEN a.header ELSE a.trailer

Failed(a)    == GrpcStatus(a) \notin {None, 0}
CodeOf(a)    == IF GrpcStatus(a) = -1 THEN 13 ELSE GrpcStatus(a)

\* The body is read into a buffer, which the response now holds.
ReadResponse(h) ==
  /\ handlers[h].pc = "readback"
  /\ \/ \E b \in scenario.buffers : /\ Acquire(b, handlers[h].of)
                                    /\ Become(h, [handlers[h] EXCEPT !.pc = "rewrite", !.raw = b])
     \/ /\ scenario.faults
        /\ Become(h, [handlers[h] EXCEPT !.pc = "end", !.status = 502])
        /\ UNCHANGED bufferVars
  /\ UNCHANGED <<fileVars, wires, sent, replied, requests>>

\* What becomes of an answer: the status of the HTTP response and that of the call.
Outcome(mode, a) ==
  CASE mode = "http_json_to_grpc" /\ Failed(a) ->
         [status |-> GrpcCodeToHTTPStatus(CodeOf(a)), code |-> None]
    [] mode = "grpc_to_http_json" /\ a.status >= 400 ->
         [status |-> 200, code |-> HttpStatusToGRPCCode(a.status)]
    [] OTHER ->
         IF ~a.readable THEN [status |-> 502, code |-> None]
         ELSE [status |-> 200, code |-> IF mode = "grpc_to_http_json" THEN 0 ELSE None]

\* Its content is converted, or its message taken, before the buffer goes back.
ConvertResponse(h) ==
  LET out == Outcome(Mode[handlers[h].route], handlers[h].answer)
  IN /\ handlers[h].pc = "rewrite"
     /\ \/ /\ out.status = 502
           /\ Become(h, [handlers[h] EXCEPT !.pc = "copy", !.status = 502])
           /\ UNCHANGED bufferVars
        \/ \E b \in scenario.buffers :
             /\ out.status # 502 /\ Allocate(b, bytes[handlers[h].raw])
             /\ Become(h, [handlers[h] EXCEPT !.pc = "copy", !.reply = b,
                             !.status = out.status, !.code = out.code])
     /\ UNCHANGED <<fileVars, wires, sent, replied, requests>>

\* rewriteResponse closes the body that was read; so does the proxy on an error.
CloseRaw(h) ==
  /\ handlers[h].pc = "copy"
  /\ pool' = Release(handlers[h].raw)
  /\ Become(h, [handlers[h] EXCEPT !.pc = "end", !.raw = None])
  /\ UNCHANGED <<fileVars, bytes, wires, sent, replied, requests>>

\* The client is given the reply, whose body is closed, and the request's body is
\* closed for good; the breaker learns what the client was told.
Closed(h) ==
  LET p == IF handlers[h].body = None THEN pool ELSE CloseOnce(h)
  IN IF handlers[h].reply \in PoolSized THEN [p EXCEPT ![handlers[h].reply] = @ + 1] ELSE p

Success(status) == status \in 200 .. 399

Finish(h) ==
  /\ handlers[h].pc = "end"
  /\ replied' =
       {[of |-> handlers[h].of, route |-> handlers[h].route, answer |-> handlers[h].answer,
         data |-> IF handlers[h].reply = None THEN None ELSE bytes[handlers[h].reply],
         status |-> handlers[h].status, code |-> handlers[h].code,
         breaker |-> IF handlers[h].counted THEN Success(handlers[h].status) ELSE None]}
  /\ pool' = Closed(h)
  /\ wires' = ClosedWires(handlers[h].of)
  /\ Become(h, Idle)
  /\ UNCHANGED <<fileVars, bytes, sent, requests>>

-----------------------------------------------------------------------------
Next ==
  \/ RewriteFile
  \/ \E h \in Handlers :
       \/ \E r \in scenario.routes : Prepare(h, r)
       \/ Stat(h) \/ CheckCache(h) \/ ReadFile(h) \/ StoreEntry(h) \/ StoreTranscoder(h)
       \/ ReadRequest(h) \/ ConvertRequest(h) \/ TransportCloses(h) \/ Retry(h) \/ Answer(h)
       \/ ReadResponse(h) \/ ConvertResponse(h) \/ CloseRaw(h) \/ Finish(h)
  \/ \E w \in wires : TransportReads(w)

Spec == Init /\ [][Next]_vars

-----------------------------------------------------------------------------
\* However requests share buffers: what a client receives comes from the answer to its
\* request, and what an upstream receives from the request it belongs to, unless the
\* transport reads or copies the body only after it was closed and the buffer is one
\* that went back to a pool.
BodiesNotMixed ==
  /\ \A s \in sent : s.exposed \/ s.data = s.of
  /\ \A r \in replied : r.data \in {None, r.of}

\* Whenever the descriptor file is rewritten and whoever stores its entry last: the
\* resolver hands out a content that the file had after the handler had asked.
ResolvedIsFresh == \A u \in used : u.files \in u.seen

CallFailed(a) == {a.header, a.trailer} \ {None, 0} # {}

\* A call that failed reaches an HTTP client, and the breaker, as a failure, wherever
\* the upstream put its status; a failed HTTP answer reaches a gRPC client as a failed
\* call; and nothing else does but what cannot be converted. Translated there and
\* back the statuses that the table names stay what they are, 502 excepted.
FailureStaysFailure ==
  /\ \A r \in replied : r.answer # None =>
       CASE Mode[r.route] = "http_json_to_grpc" /\ CallFailed(r.answer) ->
              r.status >= 400 /\ r.breaker = FALSE
         [] Mode[r.route] = "grpc_to_http_json" /\ r.answer.status >= 400 ->
              r.code \notin {None, 0} \/ r.status = 502
         [] Mode[r.route] = "none" -> r.status = r.answer.status
         [] OTHER -> \/ r.status = 200 /\ r.breaker = TRUE /\ r.code \in {None, 0}
                     \/ r.status = 502 /\ r.breaker = FALSE
  /\ \A status \in {400, 401, 403, 404, 409, 429, 500, 501, 503, 504} :
       GrpcCodeToHTTPStatus(HttpStatusToGRPCCode(status)) = status
=============================================================================
