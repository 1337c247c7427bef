-------------------------- MODULE CommandExecutor --------------------------
(***************************************************************************)
(* The command executor of utils.go: executeCommandWithTimeout runs a      *)
(* shell command for a request handler and memoises its result, success or *)
(* failure, for cacheTTL.  Handlers run concurrently, so several callers   *)
(* may look up, run and store the same command in any interleaving.        *)
(*                                                                         *)
(* A caller's call is three steps, as in the code: the lookup under the    *)
(* read lock (with the allow-list check that follows it, which reads no    *)
(* shared state), the end of the process, outside of any lock, and the     *)
(* store under the write lock, which also prunes the map.                  *)
(***************************************************************************)
EXTENDS Integers, FiniteSets

CONSTANTS
  Callers,   (* goroutines that serve requests                             *)
  Commands,  (* command lines                                              *)
  Timeouts,  (* the timeouts callers pass: no other time is compared to    *)
             (* them, so how long they are does not matter                 *)
  Allowed,   (* command lines whose program is in allowedCommands          *)
  TTL,       (* cacheTTL                                                   *)
  Limit,     (* entries above which a store prunes the map (100)           *)
  MaxTime,   (* bound on the clock                                         *)
  NoEntry    (* a key the map does not hold                                *)

ASSUME CommandsAssumption == Allowed \subseteq Commands
ASSUME TimeAssumption ==
  /\ TTL \in Nat \ {0}
  /\ Limit \in Nat
  /\ MaxTime \in Nat

VARIABLES
  now,           (* the clock                                              *)
  commandCache,  (* the memo table, guarded by cacheMutex                  *)
  pc,            (* where each caller is                                   *)
  call,          (* the locals of each caller's call                       *)
  stored         (* history: when a result of each key was last stored     *)

vars == <<now, commandCache, pc, call, stored>>

\* A run of a command under a timeout; cacheKey is cmd + "|" + timeout, which
\* keeps both apart.
Runs == [cmd : Commands, timeout : Timeouts]

\* Mutant of cacheKey: the key forgets the timeout.
cacheKeyOfCommand(run) == [run EXCEPT !.timeout = CHOOSE t \in Timeouts : TRUE]

cacheKey(run) == run
Keys == {cacheKey(run) : run \in Runs}

\* What a process leaves behind: success, an error with output left by
\* filterSudoErrorString, or an error without.  A process killed at its deadline
\* ends like one that failed: callers do not tell errors apart.  "of" is the run
\* that produced it.
Results == [of : Runs, outcome : {"ok", "failed", "silent"}]
NotFound(run) == [of |-> run, outcome |-> "silent"]

Times == 0..MaxTime
Never == -TTL

cachedResult == [result : Results, timestamp : Times]

\* The locals of a call: what was asked, and the result it has so far.
Locals == [run : Runs, result : Results]

ASSUME NoEntryAssumption == NoEntry \notin cachedResult \cup Locals

TypeOK ==
  /\ now \in Times
  /\ commandCache \in [Keys -> cachedResult \cup {NoEntry}]
  /\ pc \in [Callers -> {"idle", "running", "storing", "returning"}]
  /\ call \in [Callers -> Locals \cup {NoEntry}]
  /\ \A c \in Callers : pc[c] # "idle" => call[c] \in Locals
  /\ stored \in [Keys -> Times \cup {Never}]

Init ==
  /\ now = 0
  /\ commandCache = [k \in Keys |-> NoEntry]
  /\ pc = [c \in Callers |-> "idle"]
  /\ call = [c \in Callers |-> NoEntry]
  /\ stored = [k \in Keys |-> Never]

-----------------------------------------------------------------------------
\* Mutant of Fresh: an entry lives one tick longer.
FreshAtTTL(k) ==
  /\ commandCache[k] # NoEntry
  /\ now - commandCache[k].timestamp <= TTL

Fresh(k) ==
  /\ commandCache[k] # NoEntry
  /\ now - commandCache[k].timestamp < TTL

\* Caller c leaves the lookup for pc "next", with this result.
Answered(c, run, result, next) ==
  /\ pc[c] = "idle"
  /\ pc' = [pc EXCEPT ![c] = next]
  /\ call' = [call EXCEPT ![c] = [run |-> run, result |-> result]]
  /\ UNCHANGED <<now, commandCache, stored>>

\* A fresh entry is returned without running anything.
Serve(c, run) ==
  /\ Fresh(cacheKey(run))
  /\ Answered(c, run, commandCache[cacheKey(run)].result, "returning")

\* A command outside of the allow-list is neither run nor remembered.
Refuse(c, run) ==
  /\ ~Fresh(cacheKey(run))
  /\ run.cmd \notin Allowed
  /\ Answered(c, run, NotFound(run), "returning")

\* Mutant of Start: the table is not consulted.
StartUnasked(c, run) ==
  /\ run.cmd \in Allowed
  /\ Answered(c, run, NotFound(run), "running")

\* The process is started, under a context that expires after the timeout.
Start(c, run) ==
  /\ ~Fresh(cacheKey(run))
  /\ run.cmd \in Allowed
  /\ Answered(c, run, NotFound(run), "running")

\* The process ends, by itself or at the deadline.
Finish(c) ==
  /\ pc[c] = "running"
  /\ \E r \in Results :
       /\ r.of = call[c].run
       /\ call' = [call EXCEPT ![c].result = r]
  /\ pc' = [pc EXCEPT ![c] = "storing"]
  /\ UNCHANGED <<now, commandCache, stored>>

\* An error without output is stored on a path of its own, which does not prune.
Silent(r) == r.outcome = "silent"

\* Mutant of Inserted: the expiry is stored instead of the time.
InsertedExpiry(k, r) ==
  [commandCache EXCEPT ![k] = [result |-> r, timestamp |-> now + TTL]]

Inserted(k, r) ==
  [commandCache EXCEPT ![k] = [result |-> r, timestamp |-> now]]

Outdated(entry) == entry # NoEntry /\ now - entry.timestamp > 2 * TTL

Cached(cache) == {k \in Keys : cache[k] # NoEntry}

\* Mutant of Pruned: a full table is emptied.
PrunedAll(cache) ==
  IF Cardinality(Cached(cache)) > Limit THEN [k \in Keys |-> NoEntry] ELSE cache

Pruned(cache) ==
  IF Cardinality(Cached(cache)) > Limit
  THEN [k \in Keys |-> IF Outdated(cache[k]) THEN NoEntry ELSE cache[k]]
  ELSE cache

Store(c) ==
  LET k == cacheKey(call[c].run)
      r == call[c].result
  IN
  /\ pc[c] = "storing"
  /\ commandCache' = IF Silent(r) THEN Inserted(k, r) ELSE Pruned(Inserted(k, r))
  /\ stored' = [stored EXCEPT ![k] = now]
  /\ pc' = [pc EXCEPT ![c] = "returning"]
  /\ UNCHANGED <<now, call>>

Return(c) ==
  /\ pc[c] = "returning"
  /\ pc' = [pc EXCEPT ![c] = "idle"]
  /\ call' = [call EXCEPT ![c] = NoEntry]
  /\ UNCHANGED <<now, commandCache, stored>>

Tick ==
  /\ now < MaxTime
  /\ now' = now + 1
  /\ UNCHANGED <<commandCache, pc, call, stored>>

Next ==
  \/ \E c \in Callers, run \in Runs : Serve(c, run)
  \/ \E c \in Callers, run \in Runs : Refuse(c, run)
  \/ \E c \in Callers, run \in Runs : Start(c, run)
  \/ \E c \in Callers : Finish(c)
  \/ \E c \in Callers : Store(c)
  \/ \E c \in Callers : Return(c)
  \/ Tick

Spec == Init /\ [][Next]_vars

-----------------------------------------------------------------------------
\* Whoever stored it and in whatever order the runs ended, what the table holds
\* for a key, and what a call for it returns, was produced by running exactly
\* that command under that timeout, and by nothing outside of the allow-list
\* (the cache key of utils.go:94 and the check of utils.go:146).
ResultsBelongToTheirKey ==
  /\ \A run \in Runs : commandCache[cacheKey(run)] # NoEntry =>
       /\ commandCache[cacheKey(run)].result.of = run
       /\ run.cmd \in Allowed
  /\ \A c \in Callers : pc[c] # "idle" =>
       /\ call[c].result.of = call[c].run
       /\ call[c].run.cmd \notin Allowed =>
            pc[c] = "returning" /\ call[c].result = NotFound(call[c].run)

\* A result stored less than TTL ago is still in the table: neither another
\* caller's store nor a prune takes it away (utils.go:191-200).
FreshRetained ==
  \A k \in Keys : now - stored[k] < TTL =>
    /\ commandCache[k] # NoEntry
    /\ commandCache[k].timestamp = stored[k]

\* A process is started only when no result of the same command was stored in
\* the last TTL, so that two runs of one command overlap or are TTL apart:
\* what makes a repeated side effect silently disappear, and what keeps the
\* status pages from spawning a process per request (utils.go:96-103).
RunsAreSpaced ==
  [][\A c \in Callers : pc[c] = "idle" /\ pc'[c] = "running" =>
       now - stored[cacheKey(call'[c].run)] >= TTL]_vars

-----------------------------------------------------------------------------
\* The inductive invariant behind the properties.
IInv ==
  /\ TypeOK
  /\ ResultsBelongToTheirKey
  /\ FreshRetained

-----------------------------------------------------------------------------
(***************************************************************************)
(* Refinement: the part of the table that lookups can see is a CommandMemo.*)
(***************************************************************************)
VisibleEntry(k) ==
  IF Fresh(k)
  THEN [result |-> commandCache[k].result, left |-> TTL - (now - commandCache[k].timestamp)]
  ELSE [result |-> NoEntry, left |-> 0]

Abstract == INSTANCE CommandMemo WITH
  memo <- [k \in Keys |-> VisibleEntry(k)],
  Unknown <- NoEntry,
  AllowedKeys <- {k \in Keys : k.cmd \in Allowed}

\* The executor keeps a memo table: what a caller can be served was stored less
\* than TTL ago by a run of its own command, whatever others stored or pruned
\* (utils.go:93-203).
KeepsAMemo == Abstract!Spec
=============================================================================
