---------------------------- MODULE TokenBucket -----------------------------
(***************************************************************************)
(* MemoryTokenBucket (internal/core/limiter/token_bucket.go): one limiter, *)
(* one bucket per identifier, refilled lazily when the identifier is seen. *)
(* Allow runs under the lock of the identifier's shard, so it is atomic.   *)
(*                                                                         *)
(* Time is counted in units, UnitsPerSecond of them to a second, so that   *)
(* int(elapsed.Seconds() * refillRate) is an integer division.             *)
(*                                                                         *)
(* Two observers are not in the code: `window` counts what one identifier  *)
(* is granted from a moment picked at will, `lastGrant` is when it was     *)
(* last granted something.                                                 *)
(***************************************************************************)
EXTENDS Integers

CONSTANTS
  Ids,             \* identifiers (client address, path, "global")
  Capacity,        \* rule.TokenBucket.Capacity
  RefillRate,      \* rule.TokenBucket.RefillRate, tokens per second
  UnitsPerSecond,  \* resolution of the clock
  MaxTime          \* bound: the clock stops here

\* What validateGatewayConfig lets through.
ASSUME LimitAssumption ==
  /\ Capacity \in Nat \ {0}
  /\ RefillRate \in Nat

ASSUME ClockAssumption ==
  /\ UnitsPerSecond \in Nat \ {0}
  /\ MaxTime \in Nat

VARIABLES
  now,
  seen,        \* identifiers that have a bucket
  tokens,      \* bucket.tokens
  lastCheck,   \* bucket.lastCheck
  window,      \* observer: [start, count] per identifier
  lastGrant    \* observer

vars == <<now, seen, tokens, lastCheck, window, lastGrant>>

TypeOK ==
  /\ now \in 0 .. MaxTime
  /\ seen \in SUBSET Ids
  /\ tokens \in [Ids -> 0 .. Capacity - 1]
  /\ lastCheck \in [Ids -> 0 .. now]
  /\ window \in [Ids -> [start : 0 .. now, count : Nat]]
  /\ lastGrant \in [Ids -> 0 .. now]

Init ==
  /\ now = 0
  /\ seen = {}
  /\ tokens = [id \in Ids |-> 0]
  /\ lastCheck = [id \in Ids |-> 0]
  /\ window = [id \in Ids |-> [start |-> 0, count |-> 0]]
  /\ lastGrant = [id \in Ids |-> 0]

-----------------------------------------------------------------------------
\* The first visit creates a full bucket stamped with the current time.
Held(id)    == IF id \in seen THEN tokens[id] ELSE Capacity
Stamp(id)   == IF id \in seen THEN lastCheck[id] ELSE now

\* Whole tokens earned since the stamp. While there is none the stamp stays, so
\* that frequent calls do not throw the fractions away.
Earned(id)  == ((now - Stamp(id)) * RefillRate) \div UnitsPerSecond
\* Mutant: the bucket overflows.
FilledUncapped(id) == Held(id) + Earned(id)
Filled(id)  == IF Held(id) + Earned(id) > Capacity THEN Capacity ELSE Held(id) + Earned(id)

\* Mutants: the stamp never moves; the stamp moves with every call.
RestampNever(id)  == Stamp(id)
RestampAlways(id) == now
Restamp(id) == IF Earned(id) > 0 THEN now ELSE Stamp(id)

\* Allow(identifier) = true
Grant(id) ==
  /\ Filled(id) > 0
  /\ tokens' = [tokens EXCEPT ![id] = Filled(id) - 1]
  /\ lastCheck' = [lastCheck EXCEPT ![id] = Restamp(id)]
  /\ seen' = seen \cup {id}
  /\ window' = [window EXCEPT ![id].count = @ + 1]
  /\ lastGrant' = [lastGrant EXCEPT ![id] = now]
  /\ UNCHANGED now

\* Allow(identifier) = false
Deny(id) ==
  /\ Filled(id) <= 0
  /\ tokens' = [tokens EXCEPT ![id] = Filled(id)]
  /\ lastCheck' = [lastCheck EXCEPT ![id] = Restamp(id)]
  /\ seen' = seen \cup {id}
  /\ UNCHANGED <<now, window, lastGrant>>

Tick ==
  /\ now < MaxTime
  /\ now' = now + 1
  /\ UNCHANGED <<seen, tokens, lastCheck, window, lastGrant>>

\* The observer starts a new window.
Watch(id) ==
  /\ window' = [window EXCEPT ![id] = [start |-> now, count |-> 0]]
  /\ UNCHANGED <<now, seen, tokens, lastCheck, lastGrant>>

Next ==
  \/ \E id \in Ids : Grant(id) \/ Deny(id) \/ Watch(id)
  \/ Tick

Spec == Init /\ [][Next]_vars

-----------------------------------------------------------------------------
\* The promise of a token bucket: in any window of time an identifier is
\* granted at most a full bucket plus what the rate yields over the window.
WindowBound ==
  \A id \in Ids :
    window[id].count <=
      Capacity + ((now - window[id].start) * RefillRate) \div UnitsPerSecond

\* An identifier that polls as fast as it likes is not starved: one that Allow
\* would deny now was granted a request less than one token period ago.
DeniedOnlyWhenSpent ==
  \A id \in Ids :
    Filled(id) <= 0 =>
      id \in seen /\ (now - lastGrant[id]) * RefillRate < UnitsPerSecond
=============================================================================
