---------------------------- MODULE RateLimiter ----------------------------
(***************************************************************************)
(* The request limiter of rate_limiter.go: a sliding window per key,       *)
(* guarded by a mutex, a cleanup goroutine per limiter, and the middleware *)
(* that creates the global limiter on first use WITHOUT synchronisation,   *)
(* so that requests that race on the first use may each create one.        *)
(*                                                                         *)
(* A []time.Time of accepted requests is the set of their positions in the *)
(* limiter's history "accepted", which also holds their times: filtering a *)
(* slice is taking a subset, its length is the cardinality.                *)
(***************************************************************************)
EXTENDS Integers, FiniteSets, Sequences

CONSTANTS
  Goroutines, (* goroutines that serve requests                            *)
  Limiters,   (* addresses NewRateLimiter may return                       *)
  Clients,    (* client addresses                                          *)
  MaxReqs,    (* rate_limit_rps                                            *)
  Window,     (* the window, in ticks                                      *)
  MaxClock,   (* bound on the clock                                        *)
  Nil         (* the nil pointer                                           *)

ASSUME LimitsAssumption ==
  /\ MaxReqs \in Nat
  /\ Window \in Nat \ {0}
  /\ MaxClock \in Nat
ASSUME GoroutinesAssumption == IsFiniteSet(Goroutines)
ASSUME NilAssumption == Nil \notin Limiters \cup Clients

VARIABLES
  clock,              (* the clock                                         *)
  globalRateLimiter,  (* the unsynchronised global                         *)
  created,            (* limiters that exist, each with its cleanup loop   *)
  requests,           (* the requests map of each limiter                  *)
  accepted,           (* history: when each limiter accepted, per key      *)
  step,               (* where each request is in the middleware           *)
  key,                (* the key of each request                           *)
  limiter             (* the limiter each request has loaded               *)

limiterVars == <<clock, globalRateLimiter, created, requests, accepted, step, key, limiter>>
limits == <<created, requests, accepted>>

Moments == 0..MaxClock

LimiterTypeOK ==
  /\ clock \in Moments
  /\ globalRateLimiter \in Limiters \cup {Nil}
  /\ created \subseteq Limiters
  /\ requests \in [Limiters -> [Clients -> SUBSET Nat]]
  /\ accepted \in [Limiters -> [Clients -> Seq(Moments)]]
  /\ step \in [Goroutines -> {"idle", "create", "load", "allow", "allowed", "denied"}]
  /\ key \in [Goroutines -> Clients \cup {Nil}]
  /\ limiter \in [Goroutines -> Limiters \cup {Nil}]
  /\ \A h \in Goroutines : step[h] # "idle" => key[h] \in Clients

LimiterInit ==
  /\ clock = 0
  /\ globalRateLimiter = Nil
  /\ created = {}
  /\ requests = [l \in Limiters |-> [k \in Clients |-> {}]]
  /\ accepted = [l \in Limiters |-> [k \in Clients |-> <<>>]]
  /\ step = [h \in Goroutines |-> "idle"]
  /\ key = [h \in Goroutines |-> Nil]
  /\ limiter = [h \in Goroutines |-> Nil]

-----------------------------------------------------------------------------
\* Mutant of Arrive: the key is not determined.
ArriveWithoutKey(h, k) ==
  /\ step[h] = "idle"
  /\ step' = [step EXCEPT ![h] = IF globalRateLimiter = Nil THEN "create" ELSE "load"]
  /\ UNCHANGED <<clock, globalRateLimiter, limits, key, limiter>>

\* Mutant of Arrive: every request creates a limiter.
ArriveAndCreate(h, k) ==
  /\ step[h] = "idle"
  /\ step' = [step EXCEPT ![h] = "create"]
  /\ key' = [key EXCEPT ![h] = k]
  /\ UNCHANGED <<clock, globalRateLimiter, limits, limiter>>

\* rateLimitMiddleware reads the global once to see whether it is nil ...
Arrive(h, k) ==
  /\ step[h] = "idle"
  /\ step' = [step EXCEPT ![h] = IF globalRateLimiter = Nil THEN "create" ELSE "load"]
  /\ key' = [key EXCEPT ![h] = k]
  /\ UNCHANGED <<clock, globalRateLimiter, limits, limiter>>

\* ... assigns it if it was, whatever it is by now ...
NewRateLimiter(h) ==
  /\ step[h] = "create"
  /\ \E l \in Limiters \ created :
       /\ created' = created \cup {l}
       /\ globalRateLimiter' = l
  /\ step' = [step EXCEPT ![h] = "load"]
  /\ UNCHANGED <<clock, requests, accepted, key, limiter>>

\* ... and reads it again to call Allow, which takes the limiter's mutex.
Load(h) ==
  /\ step[h] = "load"
  /\ limiter' = [limiter EXCEPT ![h] = globalRateLimiter]
  /\ step' = [step EXCEPT ![h] = "allow"]
  /\ UNCHANGED <<clock, globalRateLimiter, limits, key>>

\* Mutant of validReqs: the cutoff itself still counts.
validReqsAtCutoff(l, k) == {i \in requests[l][k] : accepted[l][k][i] >= clock - Window}

\* The requests of a key that are after the cutoff.
validReqs(l, k) == {i \in requests[l][k] : accepted[l][k][i] > clock - Window}

\* Mutant of Accept: one request too many.
AcceptOneMore(h) ==
  LET l == limiter[h]
      k == key[h]
      valid == validReqs(l, k)
  IN
  /\ step[h] = "allow"
  /\ Cardinality(valid) <= MaxReqs
  /\ accepted' = [accepted EXCEPT ![l][k] = Append(@, clock)]
  /\ requests' = [requests EXCEPT ![l][k] = valid \cup {Len(accepted[l][k]) + 1}]
  /\ step' = [step EXCEPT ![h] = "allowed"]
  /\ UNCHANGED <<clock, globalRateLimiter, created, key, limiter>>

Accept(h) ==
  LET l == limiter[h]
      k == key[h]
      valid == validReqs(l, k)
  IN
  /\ step[h] = "allow"
  /\ Cardinality(valid) < MaxReqs
  /\ accepted' = [accepted EXCEPT ![l][k] = Append(@, clock)]
  /\ requests' = [requests EXCEPT ![l][k] = valid \cup {Len(accepted[l][k]) + 1}]
  /\ step' = [step EXCEPT ![h] = "allowed"]
  /\ UNCHANGED <<clock, globalRateLimiter, created, key, limiter>>

Deny(h) ==
  LET l == limiter[h]
      k == key[h]
      valid == validReqs(l, k)
  IN
  /\ step[h] = "allow"
  /\ Cardinality(valid) >= MaxReqs
  /\ requests' = [requests EXCEPT ![l][k] = valid]
  /\ step' = [step EXCEPT ![h] = "denied"]
  /\ UNCHANGED <<clock, globalRateLimiter, created, accepted, key, limiter>>

\* The response is sent: the next handler's, or a 429.
Respond(h) ==
  /\ step[h] \in {"allowed", "denied"}
  /\ step' = [step EXCEPT ![h] = "idle"]
  /\ key' = [key EXCEPT ![h] = Nil]
  /\ limiter' = [limiter EXCEPT ![h] = Nil]
  /\ UNCHANGED <<clock, globalRateLimiter, limits>>

\* One tick of a limiter's own ticker filters every key; a key left without
\* requests is deleted, which reads as no requests.
cleanup(l) ==
  /\ l \in created
  /\ requests' = [requests EXCEPT ![l] = [k \in Clients |-> validReqs(l, k)]]
  /\ UNCHANGED <<clock, globalRateLimiter, created, accepted, step, key, limiter>>

ClockTick ==
  /\ clock < MaxClock
  /\ clock' = clock + 1
  /\ UNCHANGED <<globalRateLimiter, limits, step, key, limiter>>

LimiterNext ==
  \/ \E h \in Goroutines, k \in Clients : Arrive(h, k)
  \/ \E h \in Goroutines : NewRateLimiter(h)
  \/ \E h \in Goroutines : Load(h)
  \/ \E h \in Goroutines : Accept(h)
  \/ \E h \in Goroutines : Deny(h)
  \/ \E h \in Goroutines : Respond(h)
  \/ \E l \in Limiters : cleanup(l)
  \/ ClockTick

LimiterSpec == LimiterInit /\ [][LimiterNext]_limiterVars

-----------------------------------------------------------------------------
\* Every request of a history is at least a window after the one MaxReqs
\* places before it.
Spaced(times) ==
  \A i \in 1..Len(times) :
    i + MaxReqs \in 1..Len(times) => times[i + MaxReqs] - times[i] >= Window

\* No limiter ever accepts more than MaxReqs requests of a key within one
\* window, wherever the window starts.  Holds across cleanups, refusals and
\* requests of other keys (rate_limiter.go:33-80).
WindowBound == \A l \in Limiters, k \in Clients : Spaced(accepted[l][k])

\* The positions of a history that lie in the window that ends at t.
Recent(times, t) == {i \in 1..Len(times) : times[i] > t - Window}

\* A request is refused only when MaxReqs others of its key were really accepted
\* in the last window: refusals do not count, and a client that waits is served
\* again (rate_limiter.go:41-50).
DenialsAreEarned ==
  [][\A h \in Goroutines : step[h] = "allow" /\ step'[h] = "denied" =>
       Cardinality(Recent(accepted[limiter[h]][key[h]], clock)) >= MaxReqs]_limiterVars

\* The race on the first use is bounded: a handler creates at most one limiter,
\* so a client gets at most |Goroutines| budgets, never one per request.
CreationsBounded ==
  Cardinality(created) + Cardinality({h \in Goroutines : step[h] = "create"})
    <= Cardinality(Goroutines)

\* No request calls Allow through a nil pointer.
NeverNil == \A h \in Goroutines : step[h] = "allow" => limiter[h] \in created

\* What the race on the first use can do: leave some limiters behind, and no request
\* without one (rate_limiter.go:83-104).
RaceIsHarmless == CreationsBounded /\ NeverNil

-----------------------------------------------------------------------------
(***************************************************************************)
(* The inductive invariant behind the properties.                          *)
(***************************************************************************)

\* The global is set once and for all by the first creation, before any load.
Pointers ==
  /\ globalRateLimiter \in created \cup {Nil}
  /\ globalRateLimiter = Nil => created = {}
  /\ \A h \in Goroutines : step[h] = "load" => globalRateLimiter # Nil
  /\ NeverNil

Sorted(times) == \A i, j \in 1..Len(times) : i <= j => times[i] <= times[j]

\* A limiter's map forgets nothing that is still in the window, and its history
\* grows with the clock.
Remembers(l, k) ==
  /\ Sorted(accepted[l][k])
  /\ \A i \in 1..Len(accepted[l][k]) : accepted[l][k][i] <= clock
  /\ requests[l][k] \subseteq 1..Len(accepted[l][k])
  /\ Recent(accepted[l][k], clock) \subseteq requests[l][k]

LimiterInv ==
  /\ LimiterTypeOK
  /\ Pointers
  /\ \A l \in Limiters, k \in Clients : Remembers(l, k) /\ Spaced(accepted[l][k])
=============================================================================
