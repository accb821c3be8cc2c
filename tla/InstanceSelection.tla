------------------------- MODULE InstanceSelection --------------------------
(***************************************************************************)
(* One load balancer and the request handlers that use it: the proxy's     *)
(* getHealthyInstance, the auth plugin's pickInstance, and the health      *)
(* checker's hook. A handler asks the balancer for an instance under the   *)
(* balancer's lock and then the health checker, under the checker's lock,  *)
(* whether it may use it, up to as many times as there were instances when *)
(* it began. Handlers share the cursor and the connection counts.          *)
(*                                                                         *)
(* Init is what a configuration leaves behind: every instance of a new     *)
(* balancer is alive, whatever the health checker knows about it.          *)
(***************************************************************************)
EXTENDS Balancing

CONSTANTS
  Algorithms,   \* values of load_balancer
  Handlers,     \* request goroutines
  Callers,      \* who uses a service with that algorithm: "proxy", "auth"
  CursorModulus, \* the cursors wrap here (2^64 in the code)
  MaxRequests   \* bound: requests started

ASSUME AlgorithmAssumption ==
  Algorithms \subseteq {"round_robin", "weighted_round_robin",
                         "least_connections", "consistent_hash"}
ASSUME CallersAssumption  == Callers \in [Algorithms -> SUBSET {"proxy", "auth"}]
ASSUME RequestsAssumption == MaxRequests \in Nat
ASSUME HandlersAssumption == IsFiniteSet(Handlers)

\* So large a modulus is never reached in the code. A small one that is a whole
\* number of turns, whatever the rotation, makes the wrap invisible here as well.
ASSUME CursorAssumption ==
  /\ CursorModulus \in Nat \ {0}
  /\ \A A \in (SUBSET Instances) \ {{}}, a \in Algorithms : CursorModulus % Turn(A, a) = 0

VARIABLES
  algorithm, \* the one this service is configured with
  alive,     \* instances whose Alive flag is set
  healthy,   \* instances the health checker reports healthy
  hook,      \* status change whose hook has not run yet: [inst, up], inst 0: none
  cursor,    \* index of RR, current of WRR
  conn,      \* Connections of LC
  ring,      \* ring of CH, as it was last rebuilt
  handler,   \* the handlers
  started,   \* requests started, see MaxRequests
  picks,     \* observer: picks of each instance since rotation last changed
  late,      \* observer: numbers that went to picks for an older rotation since then
  misses,    \* observer: numbers in a row that brought nobody a healthy instance, since
             \*   rotation or health last changed
  lost,      \* observer: picks that nobody is going to release
  zeroed     \* observer: instances whose count a recovery has reset
             \*   while somebody held them

balancer  == <<algorithm, alive, cursor, conn, ring>>
observers == <<picks, late, misses, lost, zeroed>>
vars == <<balancer, healthy, hook, handler, started, observers>>

None == 0   \* no instance

\* The rings that the balancer may have with A in rotation: CH alone has virtual nodes.
RingsFor(A) == Rings(IF algorithm = "consistent_hash" THEN A ELSE {})

NoPicks == [i \in Instances |-> 0]

\* The local variables of a handler that has no request.
Idle == [pc |-> "idle", caller |-> "proxy", inst |-> None, left |-> 0, snap |-> {}]

Handler ==
  [pc     : {"idle", "key", "next", "count", "checkKey", "check", "serving", "validating"},
   caller : {"proxy", "auth"},
   inst   : Instances \cup {None},   \* instance picked last
   left   : 0 .. InstanceCount,      \* tries left
   snap   : SUBSET Instances]        \* healthyInstances of a WRR pick under way

TypeOK ==
  /\ algorithm \in Algorithms
  /\ alive \subseteq Instances
  /\ healthy \subseteq Instances
  /\ hook \in [inst : Instances \cup {None}, up : BOOLEAN]
  /\ cursor \in 0 .. CursorModulus - 1
  /\ conn \in [Instances -> 0 .. MaxRequests * InstanceCount]
  /\ ring \in RingsFor(alive)
  /\ handler \in [Handlers -> Handler]
  /\ started \in 0 .. MaxRequests
  /\ picks \in [Instances -> 0 .. MaxRequests * InstanceCount]
  /\ late \in Nat /\ misses \in Nat
  /\ lost \in [Instances -> 0 .. MaxRequests * InstanceCount]
  /\ zeroed \subseteq Instances

Init ==
  /\ algorithm \in Algorithms
  /\ alive = Instances
  /\ healthy \in SUBSET Instances
  /\ hook = [inst |-> None, up |-> FALSE]
  /\ cursor = 0
  /\ conn = [i \in Instances |-> 0]
  /\ ring \in RingsFor(alive)
  /\ handler = [h \in Handlers |-> Idle]
  /\ started = 0
  /\ picks = NoPicks /\ late = 0 /\ misses = 0
  /\ lost = [i \in Instances |-> 0]
  /\ zeroed = {}

-----------------------------------------------------------------------------
At(h, p)    == handler[h].pc = p
Step(h, r)  == handler' = [handler EXCEPT ![h] = r]
Fail(h)     == Step(h, Idle)
Offered(h, i, p) == [handler[h] EXCEPT !.pc = p, !.inst = i, !.snap = {}]
Serve(h)         == Step(h, [Idle EXCEPT !.pc = "serving", !.inst = handler[h].inst])
Validate(h)      == Step(h, [Idle EXCEPT !.pc = "validating"])
Offer(h, i, p)   == Step(h, Offered(h, i, p))

\* The next number goes to a pick of i among the instances in rotation, or to one that
\* was chosen from an older rotation.
CountPick(i) ==
  /\ picks' = [picks EXCEPT ![i] = @ + 1]
  /\ misses' = IF i \in healthy THEN 0 ELSE misses + 1
  /\ UNCHANGED late
CountLatePick ==
  /\ late' = late + 1
  /\ misses' = misses + 1
  /\ UNCHANGED picks

\* Nobody is going to release this pick (only LC counts connections).
Lose(i) ==
  lost' = IF algorithm = "least_connections" THEN [lost EXCEPT ![i] = @ + 1] ELSE lost

\* The cursor's atomic increment, and a mutant that forgets it.
AdvancedNever == cursor
Advanced == (cursor + 1) % CursorModulus

\* GetAllInstances; an empty answer ends the request (502, breaker failure).
Begin(h, c) ==
  /\ At(h, "idle")
  /\ started < MaxRequests
  /\ started' = started + 1
  /\ IF alive = {} THEN Fail(h)
     ELSE Step(h, [pc |-> IF algorithm = "consistent_hash" /\ c = "proxy"
                          THEN "key" ELSE "next",
                   caller |-> c, inst |-> None, left |-> Cardinality(alive),
                   snap |-> {}])
  /\ UNCHANGED <<balancer, healthy, hook, observers>>

\* Consistent hash, proxy only: the instance of the request's own key. A key
\* that is empty falls back to the path, so there always is one.
GetInstanceByKey(h, hash) ==
  /\ At(h, "key")
  /\ IF alive = {} THEN Step(h, [handler[h] EXCEPT !.pc = "next"])
     ELSE Offer(h, PickFromRing(ring, hash), "checkKey")
  /\ UNCHANGED <<balancer, healthy, hook, started, observers>>

CheckKey(h) ==
  /\ At(h, "checkKey")
  /\ IF handler[h].inst \in healthy
     THEN Serve(h)
     ELSE Step(h, [handler[h] EXCEPT !.pc = "next", !.inst = None])
  /\ UNCHANGED <<balancer, healthy, hook, started, observers>>

\* GetNextInstance, one action per algorithm; nobody alive is an error at once.
NextNone(h) ==
  /\ At(h, "next")
  /\ alive = {}
  /\ Fail(h)
  /\ UNCHANGED <<balancer, healthy, hook, started, observers>>

NextRoundRobin(h) ==
  LET i == RoundRobin(alive, cursor) IN
  /\ algorithm = "round_robin"
  /\ At(h, "next")
  /\ alive # {}
  /\ cursor' = Advanced
  /\ Offer(h, i, "check")
  /\ CountPick(i)
  /\ UNCHANGED <<algorithm, alive, conn, ring, healthy, hook, started, lost, zeroed>>

\* WRR filters under the lock, then takes its number outside of it.
SnapshotWeighted(h) ==
  /\ algorithm = "weighted_round_robin"
  /\ At(h, "next")
  /\ alive # {}
  /\ Step(h, [handler[h] EXCEPT !.pc = "count", !.snap = alive])
  /\ UNCHANGED <<balancer, healthy, hook, started, observers>>

NextWeighted(h) ==
  LET i == WeightedRoundRobin(handler[h].snap, cursor) IN
  /\ At(h, "count")
  /\ cursor' = Advanced
  /\ Offer(h, i, "check")
  /\ IF handler[h].snap = alive THEN CountPick(i) ELSE CountLatePick
  /\ UNCHANGED <<algorithm, alive, conn, ring, healthy, hook, started, lost, zeroed>>

NextLeastConnections(h) ==
  LET i == LeastConnections(alive, conn) IN
  /\ algorithm = "least_connections"
  /\ At(h, "next")
  /\ alive # {}
  /\ conn' = [conn EXCEPT ![i] = @ + 1]
  /\ Offer(h, i, "check")
  /\ UNCHANGED <<algorithm, alive, cursor, ring, healthy, hook, started, observers>>

\* The key is the decimal form of a counter: its hash may be any.
NextByCounter(h, hash) ==
  /\ algorithm = "consistent_hash"
  /\ At(h, "next")
  /\ alive # {}
  /\ Offer(h, PickFromRing(ring, hash), "check")
  /\ UNCHANGED <<balancer, healthy, hook, started, observers>>

\* IsInstanceHealthy says yes. Only the proxy releases the connection later.
Accept(h) ==
  LET i == handler[h].inst IN
  /\ At(h, "check")
  /\ i \in healthy
  /\ IF handler[h].caller = "proxy"
     THEN Serve(h) /\ UNCHANGED lost
     ELSE Validate(h) /\ Lose(i)
  /\ UNCHANGED <<balancer, healthy, hook, started, picks, late, misses, zeroed>>

\* It says no: try again.
Retry(h) ==
  /\ At(h, "check")
  /\ handler[h].inst \notin healthy
  /\ handler[h].left > 1
  /\ Step(h, [handler[h] EXCEPT !.pc = "next", !.inst = None, !.left = @ - 1])
  /\ Lose(handler[h].inst)
  /\ UNCHANGED <<balancer, healthy, hook, started, picks, late, misses, zeroed>>

\* It says no for the last time: the proxy gives up, the auth plugin uses the
\* first instance anyway, uncounted.
Exhaust(h) ==
  /\ At(h, "check")
  /\ handler[h].inst \notin healthy
  /\ handler[h].left = 1
  /\ Lose(handler[h].inst)
  /\ IF handler[h].caller = "proxy" THEN Fail(h)
     ELSE Validate(h)
  /\ UNCHANGED <<balancer, healthy, hook, started, picks, late, misses, zeroed>>

\* Mutants: the floor left out; nothing released.
ReleaseUnfloored(i) ==
  IF algorithm = "least_connections" THEN [conn EXCEPT ![i] = @ - 1] ELSE conn
ReleaseNothing(i) == conn

\* The request is over; the deferred ReleaseConnection floors the count at 0 and
\* does nothing for the other algorithms.
Release(i) ==
  IF algorithm = "least_connections" THEN [conn EXCEPT ![i] = IF @ > 0 THEN @ - 1 ELSE 0]
  ELSE conn

Finish(h) ==
  /\ At(h, "serving")
  /\ conn' = Release(handler[h].inst)
  /\ Fail(h)
  /\ UNCHANGED <<algorithm, alive, cursor, ring, healthy, hook, started, observers>>

FinishValidate(h) ==
  /\ At(h, "validating")
  /\ Fail(h)
  /\ UNCHANGED <<balancer, healthy, hook, started, observers>>

-----------------------------------------------------------------------------
\* The handlers that hold a pick of i.
Holders(i) == {h \in Handlers : handler[h].pc \in {"check", "serving"} /\ handler[h].inst = i}

\* The health checker sees a status change, and then tells the balancer, which rebuilds
\* its ring if that changes rotation.
StatusChange(i) ==
  /\ hook.inst = None
  /\ healthy' = IF i \in healthy THEN healthy \ {i} ELSE healthy \cup {i}
  /\ hook' = [inst |-> i, up |-> i \notin healthy]
  /\ misses' = 0
  /\ UNCHANGED <<balancer, handler, started, picks, late, lost, zeroed>>

SetInstanceAlive ==
  LET i == hook.inst IN
  /\ i # None
  /\ hook' = [inst |-> None, up |-> FALSE]
  /\ alive' = IF hook.up THEN alive \cup {i} ELSE alive \ {i}
  /\ IF hook.up /\ algorithm = "least_connections"
     THEN /\ conn' = [conn EXCEPT ![i] = 0]
          /\ lost' = [lost EXCEPT ![i] = 0]
          /\ zeroed' = IF Holders(i) = {} THEN zeroed ELSE zeroed \cup {i}
     ELSE UNCHANGED <<conn, lost, zeroed>>
  /\ IF alive' = alive THEN UNCHANGED ring ELSE ring' \in RingsFor(alive')
  /\ IF alive' = alive THEN UNCHANGED <<picks, late, misses>>
     ELSE picks' = NoPicks /\ late' = 0 /\ misses' = 0
  /\ UNCHANGED <<algorithm, cursor, healthy, handler, started>>

Next ==
  \/ \E h \in Handlers :
       \/ \E c \in Callers[algorithm] : Begin(h, c)
       \/ \E hash \in Hashes : GetInstanceByKey(h, hash) \/ NextByCounter(h, hash)
       \/ CheckKey(h)
       \/ NextNone(h)
       \/ NextRoundRobin(h)
       \/ SnapshotWeighted(h)
       \/ NextWeighted(h)
       \/ NextLeastConnections(h)
       \/ Accept(h)
       \/ Retry(h)
       \/ Exhaust(h)
       \/ Finish(h)
       \/ FinishValidate(h)
  \/ \E i \in Instances : StatusChange(i)
  \/ SetInstanceAlive

Spec == Init /\ [][Next]_vars

-----------------------------------------------------------------------------
(* Properties.                                                             *)

TotalPicks == MapThenSumSet(LAMBDA i : picks[i], Instances)

\* As long as rotation does not change, however many handlers race for the cursor,
\* nobody gets more or less than his share: each instance has had its weight's worth of
\* every complete turn, and at most that of one turn more. A handler that filtered the
\* instances before the change and takes its number after it withholds this one number
\* from the others, and each handler can do so once.
ShareKept ==
  LET turn  == Turn(alive, algorithm)
      drawn == TotalPicks + late
  IN /\ late <= Cardinality(Handlers)
     /\ \A i \in alive :
          /\ picks[i] + late >= (drawn \div turn) * Share(alive, algorithm, i)
          /\ picks[i] <= ((drawn + turn - 1) \div turn) * Share(alive, algorithm, i)

\* The count of an instance is what its handlers hold plus what was lost; a
\* reset on recovery may leave it short of that, never beyond.
CountWithinUse ==
  algorithm = "least_connections" =>
    \A i \in Instances :
      LET use == Cardinality(Holders(i)) + lost[i] IN
      /\ conn[i] <= use
      /\ i \notin zeroed => conn[i] = use


\* "Get a healthy instance" (getHealthyInstance): no single handler can count on it, since
\* concurrent ones take each other's numbers, and a heavy instance takes all tries of a
\* lone one. But together they find a healthy instance that takes part, if there is one:
\* a turn of numbers brings one of them there, unless late picks withheld its numbers.
TurnFindsHealthy ==
  algorithm \in {"round_robin", "weighted_round_robin"} =>
    \A i \in alive \cap healthy :
      Share(alive, algorithm, i) > 0 => misses < (late + 1) * Turn(alive, algorithm)

\* The promise of consistent hashing: when an instance leaves or joins the ring only the
\* keys it had, or gets, move. Others can move as well, but only between instances that
\* both hash to the virtual node which answers for them: a rebuild may order these anew.
OnlyItsKeysMove ==
  [][algorithm = "consistent_hash" /\ alive # {} /\ alive' # {} /\ SetInstanceAlive =>
       \A hash \in Hashes :
         LET before == PickFromRing(ring, hash)
             after  == PickFromRing(ring', hash)
         IN \/ before = after
            \/ hook.inst \in {before, after}
            \/ NodeFor(DOMAIN ring, hash) \in VirtualNodes[before] \cap VirtualNodes[after]]_vars
=============================================================================
