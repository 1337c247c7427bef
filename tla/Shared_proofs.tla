--------------------------- MODULE Shared_proofs ---------------------------
(***************************************************************************)
(* Theorems about what all requests go through: the request limiter in     *)
(* front of the handlers, the session they need and the settings that rule *)
(* it, and the command executor behind them, for any handlers, keys,       *)
(* commands, timeouts and settings, and any budget, window, TTL, limit and *)
(* delay.                                                                  *)
(***************************************************************************)
EXTENDS CommandExecutor, RateLimiter, Sessions, FiniteSetTheorems, TLAPS

-----------------------------------------------------------------------------
(***************************************************************************)
(* The command executor.                                                   *)
(***************************************************************************)
\* The table is as large as the code lets it be, so that the invariant of its
\* entries does not depend on how many there are: what a prune takes away was
\* stored more than 2*TTL ago.
LEMMA PrunedKeepsTheRest ==
  ASSUME TypeOK, NEW cache \in [Keys -> cachedResult \cup {NoEntry}]
  PROVE  /\ Pruned(cache) \in [Keys -> cachedResult \cup {NoEntry}]
         /\ \A k \in Keys : \/ Pruned(cache)[k] = cache[k]
                            \/ /\ Pruned(cache)[k] = NoEntry
                               /\ cache[k] # NoEntry
                               /\ now - cache[k].timestamp > 2 * TTL
BY DEF Pruned, Outdated

\* What a store does to the table.
LEMMA StoreEffect ==
  ASSUME IInv, NEW c \in Callers, Store(c)
  PROVE  LET k0 == cacheKey(call[c].run)
             entry == [result |-> call[c].result, timestamp |-> now]
         IN  /\ k0 \in Keys
             /\ entry \in cachedResult
             /\ commandCache' \in [Keys -> cachedResult \cup {NoEntry}]
             /\ commandCache'[k0] = entry
             /\ \A k \in Keys \ {k0} :
                  \/ commandCache'[k] = commandCache[k]
                  \/ /\ commandCache'[k] = NoEntry
                     /\ commandCache[k] # NoEntry
                     /\ now - commandCache[k].timestamp > 2 * TTL
<1> DEFINE k0 == cacheKey(call[c].run)
           entry == [result |-> call[c].result, timestamp |-> now]
           table == [commandCache EXCEPT ![k0] = entry]
<1>1. call[c] \in Locals
  BY DEF IInv, TypeOK, Store
<1>2. k0 \in Keys /\ entry \in cachedResult
  BY <1>1 DEF Locals, Keys, cacheKey, cachedResult, IInv, TypeOK
<1>3. table \in [Keys -> cachedResult \cup {NoEntry}]
  BY <1>2 DEF IInv, TypeOK
<1>4. commandCache' = table \/ commandCache' = Pruned(table)
  BY DEF Store, Inserted
<1>5. table[k0] = entry /\ \A k \in Keys \ {k0} : table[k] = commandCache[k]
  BY <1>2 DEF IInv, TypeOK
<1>6. ~(now - table[k0].timestamp > 2 * TTL)
  BY <1>5, TimeAssumption DEF IInv, TypeOK, Times
<1> HIDE DEF k0, entry, table
<1>7. /\ commandCache' \in [Keys -> cachedResult \cup {NoEntry}]
      /\ \A k \in Keys : \/ commandCache'[k] = table[k]
                         \/ /\ commandCache'[k] = NoEntry
                            /\ table[k] # NoEntry
                            /\ now - table[k].timestamp > 2 * TTL
  BY <1>3, <1>4, PrunedKeepsTheRest DEF IInv
<1>8. QED
  BY <1>2, <1>5, <1>6, <1>7 DEF k0, entry

\* The inductive invariant: utils.go's executor as a whole.
THEOREM Inductive == Spec => []IInv
<1> USE TimeAssumption, NoEntryAssumption
<1>1. Init => IInv
  <2> SUFFICES ASSUME Init PROVE IInv
    OBVIOUS
  <2>1. TypeOK
    BY DEF Init, TypeOK, Times
  <2>2. ResultsBelongToTheirKey
    BY DEF Init, ResultsBelongToTheirKey, Keys
  <2>3. FreshRetained
    BY DEF Init, FreshRetained, Never
  <2>4. QED
    BY <2>1, <2>2, <2>3 DEF IInv
<1>2. IInv /\ [Next]_vars => IInv'
  <2> SUFFICES ASSUME IInv, [Next]_vars
               PROVE  IInv'
    OBVIOUS
  <2> USE DEF IInv
  <2>1. \A run \in Runs : cacheKey(run) \in Keys
    BY DEF Keys
  <2>2. ASSUME NEW c \in Callers, NEW run \in Runs, Serve(c, run)
        PROVE  IInv'
    <3> DEFINE hit == commandCache[cacheKey(run)]
    <3>1. hit \in cachedResult /\ hit.result.of = run /\ run.cmd \in Allowed
      BY <2>1, <2>2 DEF Serve, Fresh, TypeOK, ResultsBelongToTheirKey
    <3>2. /\ pc' = [pc EXCEPT ![c] = "returning"]
          /\ call' = [call EXCEPT ![c] = [run |-> run, result |-> hit.result]]
          /\ UNCHANGED <<now, commandCache, stored>>
      BY <2>2 DEF Serve, Answered
    <3>3. [run |-> run, result |-> hit.result] \in Locals
      BY <3>1 DEF Locals, cachedResult, TypeOK
    <3>4. TypeOK'
      BY <3>2, <3>3 DEF TypeOK
    <3>5. ResultsBelongToTheirKey'
      BY <3>1, <3>2 DEF TypeOK, ResultsBelongToTheirKey
    <3>6. QED
      BY <3>2, <3>4, <3>5 DEF FreshRetained
  <2>3. ASSUME NEW c \in Callers, NEW run \in Runs, Refuse(c, run) \/ Start(c, run)
        PROVE  IInv'
    <3> DEFINE locals == [run |-> run, result |-> NotFound(run)]
    <3>1. locals \in Locals
      BY DEF Locals, Results, NotFound, TypeOK
    <3>2. /\ \/ pc' = [pc EXCEPT ![c] = "returning"]
             \/ pc' = [pc EXCEPT ![c] = "running"] /\ run.cmd \in Allowed
          /\ call' = [call EXCEPT ![c] = locals]
          /\ UNCHANGED <<now, commandCache, stored>>
      BY <2>3 DEF Refuse, Start, Answered
    <3>3. TypeOK'
      BY <3>1, <3>2 DEF TypeOK
    <3>4. ResultsBelongToTheirKey'
      BY <3>2 DEF TypeOK, ResultsBelongToTheirKey, NotFound
    <3>5. QED
      BY <3>2, <3>3, <3>4 DEF FreshRetained
  <2>4. ASSUME NEW c \in Callers, Finish(c)
        PROVE  IInv'
    <3>1. call[c] \in Locals /\ pc[c] = "running"
      BY <2>4 DEF Finish, TypeOK
    <3>2. PICK r \in Results : r.of = call[c].run /\ call' = [call EXCEPT ![c].result = r]
      BY <2>4 DEF Finish
    <3>4. [call[c] EXCEPT !.result = r] \in Locals
      BY <3>1, <3>2 DEF Locals
    <3>5. pc' = [pc EXCEPT ![c] = "storing"] /\ UNCHANGED <<now, commandCache, stored>>
      BY <2>4 DEF Finish
    <3>6. TypeOK'
      BY <3>2, <3>4, <3>5 DEF TypeOK
    <3>7. ResultsBelongToTheirKey'
      BY <3>1, <3>2, <3>5 DEF TypeOK, ResultsBelongToTheirKey, Locals
    <3>8. QED
      BY <3>5, <3>6, <3>7 DEF FreshRetained
  <2>5. ASSUME NEW c \in Callers, Store(c)
        PROVE  IInv'
    <3> DEFINE k0 == cacheKey(call[c].run)
               entry == [result |-> call[c].result, timestamp |-> now]
    <3>1. /\ k0 \in Keys
          /\ entry \in cachedResult
          /\ commandCache' \in [Keys -> cachedResult \cup {NoEntry}]
          /\ commandCache'[k0] = entry
          /\ \A k \in Keys \ {k0} :
               \/ commandCache'[k] = commandCache[k]
               \/ /\ commandCache'[k] = NoEntry
                  /\ commandCache[k] # NoEntry
                  /\ now - commandCache[k].timestamp > 2 * TTL
      BY <2>5, StoreEffect
    <3>2. /\ pc[c] = "storing"
          /\ pc' = [pc EXCEPT ![c] = "returning"]
          /\ stored' = [stored EXCEPT ![k0] = now]
          /\ UNCHANGED <<now, call>>
      BY <2>5 DEF Store
    <3>3. call[c] \in Locals /\ call[c].result.of = call[c].run /\ call[c].run.cmd \in Allowed
      BY <3>2 DEF TypeOK, ResultsBelongToTheirKey
    <3>4. TypeOK'
      BY <3>1, <3>2, <3>3 DEF TypeOK
    <3>5. ResultsBelongToTheirKey'
      <4>1. ASSUME NEW run \in Runs, commandCache'[cacheKey(run)] # NoEntry
            PROVE  /\ commandCache'[cacheKey(run)].result.of = run
                   /\ run.cmd \in Allowed
        <5>1. CASE cacheKey(run) = k0
          BY <5>1, <3>1, <3>3 DEF cacheKey
        <5>2. CASE cacheKey(run) # k0
          BY <5>2, <4>1, <3>1, <2>1 DEF ResultsBelongToTheirKey
        <5>3. QED
          BY <5>1, <5>2
      <4>2. QED
        BY <4>1, <3>2, <3>3 DEF TypeOK, ResultsBelongToTheirKey
    <3>6. FreshRetained'
      <4> SUFFICES ASSUME NEW k \in Keys, now - stored'[k] < TTL
                   PROVE  commandCache'[k] # NoEntry /\ commandCache'[k].timestamp = stored'[k]
        BY <3>2 DEF FreshRetained
      <4>1. CASE k = k0
        BY <4>1, <3>1, <3>2 DEF TypeOK
      <4>2. CASE k # k0
        <5>1. stored'[k] = stored[k]
          BY <4>2, <3>2 DEF TypeOK
        <5>2. commandCache[k] # NoEntry /\ commandCache[k].timestamp = stored[k]
          BY <5>1 DEF FreshRetained
        <5>3. now \in Int /\ stored[k] \in Int
          BY DEF TypeOK, Times, Never
        <5>4. ~(now - commandCache[k].timestamp > 2 * TTL)
          BY <5>1, <5>2, <5>3
        <5>5. QED
          BY <4>2, <3>1, <5>1, <5>2, <5>4
      <4>3. QED
        BY <4>1, <4>2
    <3>7. QED
      BY <3>4, <3>5, <3>6
  <2>6. ASSUME NEW c \in Callers, Return(c)
        PROVE  IInv'
    BY <2>6 DEF Return, TypeOK, ResultsBelongToTheirKey, FreshRetained
  <2>7. CASE Tick
    <3>1. now' = now + 1 /\ now \in Int /\ \A k \in Keys : stored[k] \in Int
      BY <2>7 DEF Tick, TypeOK, Times, Never
    <3>2. FreshRetained'
      BY <2>7, <3>1 DEF Tick, FreshRetained
    <3>3. TypeOK' /\ ResultsBelongToTheirKey'
      BY <2>7 DEF Tick, TypeOK, Times, ResultsBelongToTheirKey
    <3>4. QED
      BY <3>2, <3>3
  <2>8. CASE UNCHANGED vars
    BY <2>8 DEF vars, TypeOK, ResultsBelongToTheirKey, FreshRetained
  <2>9. QED
    BY <2>2, <2>3, <2>4, <2>5, <2>6, <2>7, <2>8 DEF Next
<1>3. QED
  BY <1>1, <1>2, PTL DEF Spec

\* Type correctness of the executor's state.
THEOREM TypeCorrect == Spec => []TypeOK
BY Inductive, PTL DEF IInv

\* No caller is ever given the result of another command, another timeout or a
\* command outside of the allow-list (utils.go:94, 146, 192).
THEOREM ResultsAreTheirOwn == Spec => []ResultsBelongToTheirKey
BY Inductive, PTL DEF IInv

\* A stored result serves every lookup of its key for TTL (utils.go:96-103, 191-200).
THEOREM FreshIsRetained == Spec => []FreshRetained
BY Inductive, PTL DEF IInv

\* Whatever the interleaving, a command is not started again within TTL of a
\* stored result of it (utils.go:96-103).
THEOREM RunsSpaced == Spec => RunsAreSpaced
<1> DEFINE SpacedStart ==
      \A c \in Callers : pc[c] = "idle" /\ pc'[c] = "running" =>
        now - stored[cacheKey(call'[c].run)] >= TTL
<1>1. IInv /\ [Next]_vars => [SpacedStart]_vars
  <2> SUFFICES ASSUME IInv, Next, NEW c \in Callers, pc[c] = "idle", pc'[c] = "running"
               PROVE  now - stored[cacheKey(call'[c].run)] >= TTL
    BY DEF vars
  <2> USE DEF IInv
  <2>1. \E run \in Runs : Start(c, run)
    <3>1. \A d \in Callers, run \in Runs :
            ~Serve(d, run) /\ ~Refuse(d, run) /\ (Start(d, run) => d = c)
      BY DEF Serve, Refuse, Start, Answered, TypeOK
    <3>2. \A d \in Callers : ~Finish(d) /\ ~Store(d) /\ ~Return(d)
      BY DEF Finish, Store, Return, TypeOK
    <3>3. ~Tick
      BY DEF Tick
    <3>4. QED
      BY <3>1, <3>2, <3>3 DEF Next
  <2>2. PICK run \in Runs : Start(c, run)
    BY <2>1
  <2>3. call'[c].run = run /\ ~Fresh(cacheKey(run)) /\ cacheKey(run) \in Keys
    BY <2>2 DEF Start, Answered, TypeOK, Keys
  <2>4. now \in Int /\ stored[cacheKey(run)] \in Int /\ TTL \in Int
    BY <2>3, TimeAssumption DEF TypeOK, Times, Never
  <2>5. ~(now - stored[cacheKey(run)] < TTL)
    BY <2>3 DEF FreshRetained, Fresh
  <2>6. QED
    BY <2>3, <2>4, <2>5
<1>2. QED
  BY <1>1, Inductive, PTL DEF Spec, RunsAreSpaced

\* The executor implements the memo table its handlers rely on: whatever the
\* interleaving of lookups, runs, stores and prunes, an entry is visible from the
\* store of a result of its command until it is TTL old (utils.go:93-203).
THEOREM ImplementsMemo == Spec => KeepsAMemo
<1> USE TimeAssumption, NoEntryAssumption
<1> DEFINE visible == [k \in Keys |-> VisibleEntry(k)]
<1>1. Init => Abstract!Init
  BY DEF Init, Abstract!Init, Abstract!NothingRemembered, Abstract!Forgotten, VisibleEntry, Fresh
<1>2. IInv /\ [Next]_vars => [Abstract!Next]_visible
  <2> SUFFICES ASSUME IInv, [Next]_vars
               PROVE  Abstract!Next \/ visible' = visible
    OBVIOUS
  <2> USE DEF IInv
  <2>1. ASSUME UNCHANGED <<now, commandCache>>
        PROVE  visible' = visible
    BY <2>1 DEF VisibleEntry, Fresh
  <2>2. ASSUME NEW c \in Callers, NEW run \in Runs,
               Serve(c, run) \/ Refuse(c, run) \/ Start(c, run)
        PROVE  visible' = visible
    BY <2>1, <2>2 DEF Serve, Refuse, Start, Answered
  <2>3. ASSUME NEW c \in Callers, Finish(c) \/ Return(c)
        PROVE  visible' = visible
    BY <2>1, <2>3 DEF Finish, Return
  <2>4. ASSUME NEW c \in Callers, Store(c)
        PROVE  Abstract!Next
    <3>1. PICK k0 \in Keys, r0 \in Results :
            k0 = cacheKey(call[c].run) /\ r0 = call[c].result
      BY <2>4, StoreEffect DEF cachedResult
    <3>2. /\ now' = now /\ now \in Int
          /\ k0 \in {k \in Keys : k.cmd \in Allowed}
      BY <2>4, <3>1 DEF Store, TypeOK, Times, ResultsBelongToTheirKey, cacheKey
    <3>3. /\ commandCache'[k0] = [result |-> r0, timestamp |-> now]
          /\ [result |-> r0, timestamp |-> now] \in cachedResult
          /\ \A k \in Keys \ {k0} :
               \/ commandCache'[k] = commandCache[k]
               \/ /\ commandCache'[k] = NoEntry
                  /\ commandCache[k] # NoEntry
                  /\ now - commandCache[k].timestamp > 2 * TTL
      BY <2>4, <3>1, StoreEffect
    <3>4. VisibleEntry(k0)' = [result |-> r0, left |-> TTL]
      <4>1. /\ commandCache'[k0] # NoEntry
            /\ commandCache'[k0].timestamp = now
            /\ commandCache'[k0].result = r0
        BY <3>3
      <4>2. Fresh(k0)'
        BY <3>2, <4>1 DEF Fresh
      <4>3. QED
        BY <3>2, <4>1, <4>2 DEF VisibleEntry
    <3>5. ASSUME NEW k \in Keys \ {k0}
          PROVE  VisibleEntry(k)' = VisibleEntry(k)
      <4>1. CASE commandCache'[k] = commandCache[k]
        BY <3>2, <4>1 DEF VisibleEntry, Fresh
      <4>2. CASE /\ commandCache'[k] = NoEntry
                 /\ commandCache[k] # NoEntry
                 /\ now - commandCache[k].timestamp > 2 * TTL
        <5>1. commandCache[k].timestamp \in Int
          BY <4>2 DEF TypeOK, cachedResult, Times
        <5>2. ~(now - commandCache[k].timestamp < TTL)
          BY <3>2, <4>2, <5>1
        <5>3. QED
          BY <4>2, <5>2 DEF VisibleEntry, Fresh
      <4>3. QED
        BY <3>3, <4>1, <4>2
    <3>6. visible' = [visible EXCEPT ![k0] = [result |-> r0, left |-> TTL]]
      BY <3>4, <3>5
    <3>7. Abstract!Produce(k0)
      <4>1. /\ visible'[k0] = [result |-> r0, left |-> TTL]
            /\ visible'[k0].result = r0
        BY <3>4
      <4>2. r0 \in Results
        BY <3>3 DEF cachedResult
      <4>3. QED
        BY <3>2, <3>6, <4>1, <4>2 DEF Abstract!Produce, Abstract!Remembered
    <3>8. QED
      BY <3>7 DEF Abstract!Next
  <2>5. ASSUME Tick
        PROVE  Abstract!Next
    <3>1. now' = now + 1 /\ commandCache' = commandCache /\ now \in Int
      BY <2>5 DEF Tick, TypeOK, Times
    <3>2. ASSUME NEW k \in Keys
          PROVE  VisibleEntry(k)' = Abstract!Older(VisibleEntry(k))
      <4>1. commandCache[k] # NoEntry => commandCache[k].timestamp \in Int
        BY DEF TypeOK, cachedResult, Times
      <4>2. CASE ~Fresh(k)
        BY <3>1, <4>1, <4>2 DEF VisibleEntry, Fresh, Abstract!Older, Abstract!Forgotten
      <4>3. CASE Fresh(k) /\ now + 1 - commandCache[k].timestamp < TTL
        BY <3>1, <4>1, <4>3 DEF VisibleEntry, Fresh, Abstract!Older, Abstract!Forgotten
      <4>4. CASE Fresh(k) /\ ~(now + 1 - commandCache[k].timestamp < TTL)
        BY <3>1, <4>1, <4>4 DEF VisibleEntry, Fresh, Abstract!Older, Abstract!Forgotten
      <4>5. QED
        BY <4>2, <4>3, <4>4
    <3>3. visible' = [k \in DOMAIN visible |-> Abstract!Older(visible[k])]
      BY <3>2
    <3>4. QED
      BY <3>3 DEF Abstract!Next, Abstract!Age, Abstract!Aged
  <2>6. CASE UNCHANGED vars
    BY <2>1, <2>6 DEF vars
  <2>7. QED
    BY <2>2, <2>3, <2>4, <2>5, <2>6 DEF Next
<1>3. QED
  BY <1>1, <1>2, Inductive, PTL DEF Spec, KeepsAMemo, Abstract!Spec

-----------------------------------------------------------------------------
(***************************************************************************)
(* The request limiter.                                                    *)
(***************************************************************************)
\* A history with fewer than MaxReqs requests in the window that ends at t stays
\* sorted and spaced when t is appended to it: the arithmetic behind Allow.
LEMMA AppendKeepsSpaced ==
  ASSUME NEW s \in Seq(Moments), NEW t \in Moments,
         Sorted(s), \A i \in 1..Len(s) : s[i] <= t,
         Spaced(s),
         Cardinality(Recent(s, t)) < MaxReqs
  PROVE  /\ Sorted(Append(s, t))
         /\ Spaced(Append(s, t))
         /\ \A i \in 1..Len(Append(s, t)) : Append(s, t)[i] <= t
         /\ Recent(Append(s, t), t) = Recent(s, t) \cup {Len(s) + 1}
<1> DEFINE n == Len(s)
           a == Append(s, t)
<1> USE LimitsAssumption DEF Moments
<1>1. n \in Nat /\ Len(a) = n + 1
  OBVIOUS
<1>2. \A i \in 1..n : a[i] = s[i] /\ s[i] \in Moments
  OBVIOUS
<1>3. a[n + 1] = t
  OBVIOUS
<1> HIDE DEF a, n
<1>4. Sorted(a) /\ \A i \in 1..Len(a) : a[i] <= t
  <2>1. \A i \in 1..Len(a) : a[i] \in Moments /\ a[i] <= t
    BY <1>1, <1>2, <1>3 DEF n
  <2>2. ASSUME NEW i \in 1..Len(a), NEW j \in 1..Len(a), i <= j
        PROVE  a[i] <= a[j]
    <3>1. CASE j = n + 1
      BY <1>3, <2>1, <3>1
    <3>2. CASE j # n + 1
      <4>1. i \in 1..n /\ j \in 1..n
        BY <1>1, <2>2, <3>2
      <4> QED BY <1>2, <2>2, <4>1 DEF Sorted, n
    <3> QED BY <3>1, <3>2
  <2> QED BY <2>1, <2>2 DEF Sorted
<1>5. Recent(a, t) = Recent(s, t) \cup {n + 1}
  BY <1>1, <1>2, <1>3 DEF Recent, n
<1>6. ASSUME NEW i \in 1..n, i + MaxReqs = n + 1
      PROVE  s[i] <= t - Window
  <2>1. SUFFICES ASSUME s[i] > t - Window
                 PROVE  FALSE
    BY <1>1, <1>2
  <2>2. \A j \in i..n : s[j] > t - Window
    BY <2>1, <1>1, <1>2 DEF Sorted, n
  <2>3. i..n \subseteq Recent(s, t)
    BY <2>2, <1>1 DEF Recent, n
  <2>4. IsFiniteSet(Recent(s, t))
    <3>1. IsFiniteSet(1..n)
      BY <1>1, FS_Interval
    <3>2. Recent(s, t) \subseteq 1..n
      BY DEF Recent, n
    <3>3. QED
      BY <3>1, <3>2, FS_Subset
  <2>5. Cardinality(i..n) <= Cardinality(Recent(s, t))
    BY <2>3, <2>4, FS_Subset
  <2>6. Cardinality(i..n) = MaxReqs
    BY <1>1, <1>6, FS_Interval
  <2>7. Cardinality(Recent(s, t)) \in Nat
    BY <2>4, FS_CardinalityType
  <2>8. QED
    BY <2>5, <2>6, <2>7
<1>7. MaxReqs > 0
  <2>1. Cardinality(Recent(s, t)) \in Nat
    <3>1. IsFiniteSet(1..n)
      BY <1>1, FS_Interval
    <3>2. Recent(s, t) \subseteq 1..n
      BY DEF Recent, n
    <3>3. QED
      BY <3>1, <3>2, FS_Subset, FS_CardinalityType
  <2>2. QED
    BY <2>1
<1>8. Spaced(a)
  <2> SUFFICES ASSUME NEW i \in 1..Len(a), i + MaxReqs \in 1..Len(a)
               PROVE  a[i + MaxReqs] - a[i] >= Window
    BY DEF Spaced
  <2>1. i \in 1..n
    BY <1>1, <1>7
  <2>2. CASE i + MaxReqs \in 1..n
    BY <2>1, <2>2, <1>2 DEF Spaced, n
  <2>3. CASE i + MaxReqs = n + 1
    <3>1. a[i + MaxReqs] = t /\ a[i] = s[i] /\ s[i] \in Nat
      BY <2>1, <2>3, <1>2, <1>3
    <3>2. s[i] <= t - Window
      BY <2>1, <2>3, <1>6
    <3>3. QED
      BY <3>1, <3>2
  <2>4. QED
    BY <1>1, <2>1, <2>2, <2>3
<1>9. QED
  BY <1>4, <1>5, <1>8 DEF a, n

\* Filtering what a limiter remembers loses nothing of the current window.
LEMMA ValidIsRecent ==
  ASSUME LimiterTypeOK, NEW l \in Limiters, NEW k \in Clients, Remembers(l, k)
  PROVE  validReqs(l, k) = Recent(accepted[l][k], clock)
BY DEF validReqs, Recent, Remembers

\* The clock only makes the window smaller.
LEMMA TickRemembers ==
  ASSUME LimiterTypeOK, clock' = clock + 1, UNCHANGED <<requests, accepted>>,
         NEW l \in Limiters, NEW k \in Clients, Remembers(l, k)
  PROVE  Remembers(l, k)'
<1> DEFINE s == accepted[l][k]
<1>1. s \in Seq(Moments) /\ s' = s /\ requests'[l][k] = requests[l][k] /\ clock \in Nat
  BY DEF LimiterTypeOK, Moments
<1>2. \A i \in 1..Len(s) : s[i] \in Nat
  BY <1>1, LimitsAssumption DEF Moments
<1>3. Recent(s, clock + 1) \subseteq Recent(s, clock)
  BY <1>1, <1>2, LimitsAssumption DEF Recent
<1>4. \A i \in 1..Len(s) : s[i] <= clock + 1
  BY <1>1, <1>2 DEF Remembers
<1>5. QED
  BY <1>1, <1>3, <1>4 DEF Remembers

\* What Allow and cleanup do to one key of one limiter.
LEMMA FilterRemembers ==
  ASSUME LimiterTypeOK, clock' = clock, NEW l \in Limiters, NEW k \in Clients,
         Remembers(l, k), Spaced(accepted[l][k]),
         accepted'[l][k] = accepted[l][k],
         requests'[l][k] = validReqs(l, k)
  PROVE  Remembers(l, k)' /\ Spaced(accepted[l][k])'
<1>1. validReqs(l, k) \subseteq requests[l][k]
  BY DEF validReqs
<1>2. validReqs(l, k) = Recent(accepted[l][k], clock)
  BY ValidIsRecent
<1>3. QED
  BY <1>1, <1>2 DEF Remembers, Spaced, Sorted, Recent

LEMMA AcceptRemembers ==
  ASSUME LimiterTypeOK, clock' = clock, NEW l \in Limiters, NEW k \in Clients,
         Remembers(l, k), Spaced(accepted[l][k]),
         Cardinality(validReqs(l, k)) < MaxReqs,
         accepted'[l][k] = Append(accepted[l][k], clock),
         requests'[l][k] = validReqs(l, k) \cup {Len(accepted[l][k]) + 1}
  PROVE  Remembers(l, k)' /\ Spaced(accepted[l][k])'
<1> DEFINE s == accepted[l][k]
<1>1. s \in Seq(Moments) /\ clock \in Moments
  BY DEF LimiterTypeOK
<1>2. validReqs(l, k) = Recent(s, clock)
  BY ValidIsRecent
<1>3. /\ Sorted(Append(s, clock))
      /\ Spaced(Append(s, clock))
      /\ \A i \in 1..Len(Append(s, clock)) : Append(s, clock)[i] <= clock
      /\ Recent(Append(s, clock), clock) = Recent(s, clock) \cup {Len(s) + 1}
  BY <1>1, <1>2, AppendKeepsSpaced DEF Remembers
<1>4. Recent(Append(s, clock), clock) \subseteq 1..Len(Append(s, clock))
  BY DEF Recent
<1>5. Spaced(accepted[l][k])'
  BY <1>3 DEF Spaced
<1>6. Remembers(l, k)'
  BY <1>2, <1>3, <1>4 DEF Remembers, Sorted, Recent
<1>7. QED
  BY <1>5, <1>6

\* The inductive invariant: rate_limiter.go as a whole.
THEOREM LimiterInductive == LimiterSpec => []LimiterInv
<1> USE LimitsAssumption, NilAssumption
<1>1. LimiterInit => LimiterInv
  <2> SUFFICES ASSUME LimiterInit PROVE LimiterInv
    OBVIOUS
  <2>1. LimiterTypeOK
    BY DEF LimiterInit, LimiterTypeOK, Moments
  <2>2. Pointers
    BY DEF LimiterInit, Pointers, NeverNil
  <2>3. ASSUME NEW l \in Limiters, NEW k \in Clients
        PROVE  Remembers(l, k) /\ Spaced(accepted[l][k])
    <3>1. accepted[l][k] = <<>> /\ requests[l][k] = {}
      BY DEF LimiterInit
    <3>2. 1..Len(accepted[l][k]) = {}
      BY <3>1
    <3>3. QED
      BY <3>1, <3>2 DEF Remembers, Spaced, Sorted, Recent
  <2>4. QED
    BY <2>1, <2>2, <2>3 DEF LimiterInv
<1>2. LimiterInv /\ [LimiterNext]_limiterVars => LimiterInv'
  <2> SUFFICES ASSUME LimiterInv, [LimiterNext]_limiterVars
               PROVE  LimiterInv'
    OBVIOUS
  <2> USE DEF LimiterInv
  <2>1. ASSUME UNCHANGED <<clock, requests, accepted>>
        PROVE  (\A l \in Limiters, k \in Clients : Remembers(l, k) /\ Spaced(accepted[l][k]))'
    BY <2>1 DEF Remembers, Spaced, Sorted, Recent
  <2>2. ASSUME NEW h \in Goroutines, NEW k \in Clients, Arrive(h, k)
        PROVE  LimiterInv'
    BY <2>1, <2>2 DEF Arrive, limits, LimiterTypeOK, Pointers, NeverNil
  <2>3. ASSUME NEW h \in Goroutines, NewRateLimiter(h)
        PROVE  LimiterInv'
    BY <2>1, <2>3 DEF NewRateLimiter, LimiterTypeOK, Pointers, NeverNil
  <2>4. ASSUME NEW h \in Goroutines, Load(h)
        PROVE  LimiterInv'
    BY <2>1, <2>4 DEF Load, limits, LimiterTypeOK, Pointers, NeverNil
  <2>5. ASSUME NEW h \in Goroutines, Accept(h)
        PROVE  LimiterInv'
    <3> DEFINE l0 == limiter[h]
               k0 == key[h]
    <3>1. l0 \in Limiters /\ k0 \in Clients
      BY <2>5 DEF Accept, LimiterTypeOK, Pointers, NeverNil
    <3>2. /\ clock' = clock
          /\ Cardinality(validReqs(l0, k0)) < MaxReqs
          /\ accepted'[l0][k0] = Append(accepted[l0][k0], clock)
          /\ requests'[l0][k0] = validReqs(l0, k0) \cup {Len(accepted[l0][k0]) + 1}
      BY <2>5, <3>1 DEF Accept, LimiterTypeOK
    <3>3. ASSUME NEW l \in Limiters, NEW k \in Clients
          PROVE  (Remembers(l, k) /\ Spaced(accepted[l][k]))'
      <4>1. CASE l = l0 /\ k = k0
        BY <3>1, <3>2, <4>1, AcceptRemembers
      <4>2. CASE ~(l = l0 /\ k = k0)
        <5>1. accepted'[l][k] = accepted[l][k] /\ requests'[l][k] = requests[l][k]
          BY <2>5, <3>1, <4>2 DEF Accept, LimiterTypeOK
        <5>2. QED
          BY <3>2, <5>1 DEF Remembers, Spaced, Sorted, Recent
      <4>3. QED
        BY <4>1, <4>2
    <3>4. LimiterTypeOK'
      <4>1. /\ Append(accepted[l0][k0], clock) \in Seq(Moments)
            /\ validReqs(l0, k0) \cup {Len(accepted[l0][k0]) + 1} \in SUBSET Nat
        BY <3>1 DEF LimiterTypeOK, validReqs
      <4>2. /\ accepted' \in [Limiters -> [Clients -> Seq(Moments)]]
            /\ requests' \in [Limiters -> [Clients -> SUBSET Nat]]
        BY <2>5, <3>1, <4>1 DEF Accept, LimiterTypeOK
      <4>3. QED
        BY <2>5, <4>2 DEF Accept, LimiterTypeOK
    <3>5. Pointers'
      BY <2>5 DEF Accept, LimiterTypeOK, Pointers, NeverNil
    <3>6. QED
      BY <3>3, <3>4, <3>5
  <2>6. ASSUME NEW h \in Goroutines, Deny(h)
        PROVE  LimiterInv'
    <3> DEFINE l0 == limiter[h]
               k0 == key[h]
    <3>1. l0 \in Limiters /\ k0 \in Clients
      BY <2>6 DEF Deny, LimiterTypeOK, Pointers, NeverNil
    <3>2. requests'[l0][k0] = validReqs(l0, k0) /\ UNCHANGED <<clock, accepted>>
      BY <2>6, <3>1 DEF Deny, LimiterTypeOK
    <3>3. ASSUME NEW l \in Limiters, NEW k \in Clients
          PROVE  (Remembers(l, k) /\ Spaced(accepted[l][k]))'
      <4>1. CASE l = l0 /\ k = k0
        BY <3>1, <3>2, <4>1, FilterRemembers
      <4>2. CASE ~(l = l0 /\ k = k0)
        <5>1. requests'[l][k] = requests[l][k]
          BY <2>6, <3>1, <4>2 DEF Deny, LimiterTypeOK
        <5>2. QED
          BY <3>2, <5>1 DEF Remembers, Spaced, Sorted, Recent
      <4>3. QED
        BY <4>1, <4>2
    <3>4. LimiterTypeOK'
      BY <2>6, <3>1 DEF Deny, LimiterTypeOK, validReqs
    <3>5. Pointers'
      BY <2>6 DEF Deny, LimiterTypeOK, Pointers, NeverNil
    <3>6. QED
      BY <3>3, <3>4, <3>5
  <2>7. ASSUME NEW h \in Goroutines, Respond(h)
        PROVE  LimiterInv'
    BY <2>1, <2>7 DEF Respond, limits, LimiterTypeOK, Pointers, NeverNil
  <2>8. ASSUME NEW l0 \in Limiters, cleanup(l0)
        PROVE  LimiterInv'
    <3>1. ASSUME NEW l \in Limiters, NEW k \in Clients
          PROVE  (Remembers(l, k) /\ Spaced(accepted[l][k]))'
      <4>1. UNCHANGED <<clock, accepted>>
        BY <2>8 DEF cleanup
      <4>2. CASE l = l0
        <5>1. requests'[l][k] = validReqs(l, k)
          BY <2>8, <4>2 DEF cleanup, LimiterTypeOK
        <5>2. QED
          BY <4>1, <5>1, FilterRemembers
      <4>3. CASE l # l0
        <5>1. requests'[l][k] = requests[l][k]
          BY <2>8, <4>3 DEF cleanup, LimiterTypeOK
        <5>2. QED
          BY <4>1, <5>1 DEF Remembers, Spaced, Sorted, Recent
      <4>4. QED
        BY <4>2, <4>3
    <3>2. LimiterTypeOK'
      BY <2>8 DEF cleanup, LimiterTypeOK, validReqs
    <3>3. Pointers'
      BY <2>8 DEF cleanup, Pointers, NeverNil
    <3>4. QED
      BY <3>1, <3>2, <3>3
  <2>9. CASE ClockTick
    <3>1. clock' = clock + 1 /\ UNCHANGED <<requests, accepted>>
      BY <2>9 DEF ClockTick, limits
    <3>2. \A l \in Limiters, k \in Clients : (Remembers(l, k) /\ Spaced(accepted[l][k]))'
      BY <3>1, TickRemembers DEF Spaced
    <3>3. LimiterTypeOK' /\ Pointers'
      BY <2>9 DEF ClockTick, limits, LimiterTypeOK, Moments, Pointers, NeverNil
    <3>4. QED
      BY <3>2, <3>3
  <2>10. CASE UNCHANGED limiterVars
    BY <2>1, <2>10 DEF limiterVars, LimiterTypeOK, Pointers, NeverNil
  <2>11. QED
    BY <2>2, <2>3, <2>4, <2>5, <2>6, <2>7, <2>8, <2>9, <2>10 DEF LimiterNext
<1>3. QED
  BY <1>1, <1>2, PTL DEF LimiterSpec

\* Type correctness of the limiter's state.
THEOREM LimiterTypeCorrect == LimiterSpec => []LimiterTypeOK
BY LimiterInductive, PTL DEF LimiterInv

\* Allow's sliding window really bounds what is accepted (rate_limiter.go:33-54).
THEOREM WindowIsBounded == LimiterSpec => []WindowBound
<1>1. LimiterInv => WindowBound
  BY DEF LimiterInv, WindowBound
<1>2. QED
  BY <1>1, LimiterInductive, PTL

\* The middleware never calls Allow through nil (rate_limiter.go:83-104).
THEOREM PointerIsSet == LimiterSpec => []NeverNil
BY LimiterInductive, PTL DEF LimiterInv, Pointers

\* A step of the middleware that refuses a request follows MaxReqs acceptances of
\* its key within the window (rate_limiter.go:41-50).
THEOREM RefusalsAreEarned == LimiterSpec => DenialsAreEarned
<1> DEFINE Earned ==
      \A h \in Goroutines : step[h] = "allow" /\ step'[h] = "denied" =>
        Cardinality(Recent(accepted[limiter[h]][key[h]], clock)) >= MaxReqs
<1>1. LimiterInv /\ [LimiterNext]_limiterVars => [Earned]_limiterVars
  <2> SUFFICES ASSUME LimiterInv, LimiterNext, NEW h \in Goroutines,
                      step[h] = "allow", step'[h] = "denied"
               PROVE  Cardinality(Recent(accepted[limiter[h]][key[h]], clock)) >= MaxReqs
    BY DEF limiterVars
  <2>1. \A g \in Goroutines :
           /\ \A k \in Clients : ~Arrive(g, k)
           /\ ~NewRateLimiter(g) /\ ~Load(g) /\ ~Accept(g) /\ ~Respond(g)
           /\ Deny(g) => g = h
    BY DEF LimiterInv, LimiterTypeOK, Arrive, NewRateLimiter, Load, Accept, Respond, Deny
  <2>2. (\A l \in Limiters : ~cleanup(l)) /\ ~ClockTick
    BY DEF LimiterInv, LimiterTypeOK, cleanup, ClockTick
  <2>3. Deny(h)
    BY <2>1, <2>2 DEF LimiterNext
  <2>4. limiter[h] \in Limiters /\ key[h] \in Clients
    BY DEF LimiterInv, LimiterTypeOK, Pointers, NeverNil
  <2>5. validReqs(limiter[h], key[h]) = Recent(accepted[limiter[h]][key[h]], clock)
    BY <2>4, ValidIsRecent DEF LimiterInv
  <2>6. QED
    BY <2>3, <2>5 DEF Deny
<1>2. QED
  BY <1>1, LimiterInductive, PTL DEF LimiterSpec, DenialsAreEarned

\* The number of limiters the race on the first use can leave behind
\* (rate_limiter.go:83-88).
THEOREM RaceIsBounded == LimiterSpec => []CreationsBounded
<1> DEFINE Creating == {h \in Goroutines : step[h] = "create"}
           Counted == IsFiniteSet(created) /\ CreationsBounded
<1> USE GoroutinesAssumption
<1>1. IsFiniteSet(Goroutines) /\ Cardinality(Goroutines) \in Nat
  BY FS_CardinalityType
<1>2. IsFiniteSet(Creating) /\ Cardinality(Creating) \in Nat
      /\ Cardinality(Creating) <= Cardinality(Goroutines)
  <2>1. Creating \subseteq Goroutines
    OBVIOUS
  <2>2. QED
    BY <2>1, <1>1, FS_Subset, FS_CardinalityType
<1>3. IsFiniteSet(Creating') /\ Cardinality(Creating') \in Nat
      /\ Cardinality(Creating') <= Cardinality(Goroutines)
  <2>1. Creating' \subseteq Goroutines
    OBVIOUS
  <2>2. QED
    BY <2>1, <1>1, FS_Subset, FS_CardinalityType
<1>4. LimiterInit => Counted
  <2> SUFFICES ASSUME LimiterInit PROVE Counted
    OBVIOUS
  <2>1. created = {}
    BY DEF LimiterInit
  <2>2. IsFiniteSet(created) /\ Cardinality(created) = 0
    BY <2>1, FS_EmptySet
  <2>3. QED
    BY <2>2, <1>1, <1>2 DEF CreationsBounded
<1>5. LimiterInv /\ Counted /\ [LimiterNext]_limiterVars => Counted'
  <2> SUFFICES ASSUME LimiterInv, Counted, [LimiterNext]_limiterVars
               PROVE  Counted'
    OBVIOUS
  <2>1. ASSUME created' = created, Creating' \subseteq Creating
        PROVE  Counted'
    <3>1. Cardinality(Creating') <= Cardinality(Creating)
      BY <2>1, <1>2, FS_Subset
    <3>2. Cardinality(created) \in Nat
      BY FS_CardinalityType
    <3>3. QED
      BY <2>1, <3>1, <3>2, <1>1, <1>2, <1>3 DEF CreationsBounded
  <2>2. ASSUME NEW h \in Goroutines, NEW k \in Clients, Arrive(h, k)
        PROVE  Counted'
    <3>1. CASE globalRateLimiter = Nil
      <4>1. created = {} /\ created' = {}
        BY <2>2, <3>1 DEF LimiterInv, Pointers, Arrive, limits
      <4>2. QED
        BY <4>1, <1>1, <1>3, FS_EmptySet DEF CreationsBounded
    <3>2. CASE globalRateLimiter # Nil
      BY <2>1, <2>2, <3>2 DEF Arrive, limits, LimiterInv, LimiterTypeOK
    <3>3. QED
      BY <3>1, <3>2
  <2>3. ASSUME NEW h \in Goroutines, NewRateLimiter(h)
        PROVE  Counted'
    <3>1. PICK l \in Limiters \ created : created' = created \cup {l}
      BY <2>3 DEF NewRateLimiter
    <3>2. h \in Creating /\ Creating' = Creating \ {h}
      BY <2>3 DEF NewRateLimiter, LimiterInv, LimiterTypeOK
    <3>3. IsFiniteSet(created') /\ Cardinality(created') = Cardinality(created) + 1
      BY <3>1, FS_AddElement
    <3>4. Cardinality(Creating') = Cardinality(Creating) - 1
      BY <3>2, <1>2, FS_RemoveElement
    <3>5. Cardinality(created) \in Nat
      BY FS_CardinalityType
    <3>6. QED
      BY <3>3, <3>4, <3>5, <1>1, <1>2, <1>3 DEF CreationsBounded
  <2>4. ASSUME NEW h \in Goroutines, Load(h) \/ Accept(h) \/ Deny(h) \/ Respond(h)
        PROVE  Counted'
    BY <2>1, <2>4 DEF Load, Accept, Deny, Respond, limits, LimiterInv, LimiterTypeOK
  <2>5. ASSUME NEW l \in Limiters, cleanup(l)
        PROVE  Counted'
    BY <2>1, <2>5 DEF cleanup
  <2>6. CASE ClockTick
    BY <2>1, <2>6 DEF ClockTick, limits
  <2>7. CASE UNCHANGED limiterVars
    BY <2>1, <2>7 DEF limiterVars
  <2>8. QED
    BY <2>2, <2>3, <2>4, <2>5, <2>6, <2>7 DEF LimiterNext
<1>6. QED
  BY <1>4, <1>5, LimiterInductive, PTL DEF LimiterSpec

\* The race on the first use creates at most one limiter per handler and leaves none
\* without one (rate_limiter.go:83-104).
THEOREM RaceHarmless == LimiterSpec => []RaceIsHarmless
BY RaceIsBounded, PointerIsSet, PTL DEF RaceIsHarmless

-----------------------------------------------------------------------------
(***************************************************************************)
(* Sessions: the inductive invariant.                                      *)
(***************************************************************************)
Pending(h) == DOMAIN local[h].asked

\* Requests that are to do the same key know of it.
Separate ==
  \A g, h \in Handlers : g # h => Pending(g) \cap Pending(h) \subseteq local[g].met

\* The key at work is one of the request's; no other request has written its row if
\* none was to do it.
Written(h) ==
  stage[h] = "apply" =>
    /\ local[h].key \in Pending(h)
    /\ local[h].key \notin local[h].met /\ ~local[h].failed
         => rows[local[h].key] = local[h].asked[local[h].key]

\* A token whose cookie is still to come has the timeout in force before it, less the
\* ticks since it was signed.
InTime(token, timeout) ==
  token.calm =>
    IF token.valid > 0 THEN token.valid + token.waited = timeout
    ELSE timeout <= token.waited

Coming ==
  \A h \in Handlers :
    stage[h] = "cookie" => InTime(local[h].token, running["session_timeout"])

SessionsInv ==
  /\ SessionsTypeOK
  /\ Separate
  /\ \A h \in Handlers : Written(h)
  /\ Coming
  /\ ShownIsInForce
  /\ ExpireTogether

-----------------------------------------------------------------------------
(***************************************************************************)
(* Sessions: lemmas about the data.                                        *)
(***************************************************************************)
\* The two keys and what belongs to them.
LEMMA KeyFacts ==
  /\ "session_timeout" \in SettingKeys /\ "timezone" \in SettingKeys
  /\ \A k \in SettingKeys : k = "session_timeout" \/ k = "timezone"
  /\ Settings["session_timeout"] = SessionTimeouts
  /\ Settings["timezone"] = Zones
  /\ \A k \in SettingKeys : Settings[k] \subseteq SessionTimeouts \cup Zones
  /\ SessionTimeouts \subseteq Nat \ {0}
BY SessionsAssumption DEF SettingKeys, Settings

\* A request has keys, and values that may be sent for them.
LEMMA RequestFacts ==
  ASSUME NEW ask \in Requests
  PROVE  /\ DOMAIN ask \subseteq SettingKeys
         /\ ask = [k \in DOMAIN ask |-> ask[k]]
         /\ \A k \in DOMAIN ask : ask[k] \in Settings[k] \cup {Unset, Invalid}
         /\ \A k \in DOMAIN ask : ask[k] \in Values
<1>1. PICK K \in SUBSET SettingKeys :
        /\ ask \in [K -> Values]
        /\ \A k \in K : ask[k] \in Settings[k] \cup {Unset, Invalid}
  BY DEF Requests
<1>2. DOMAIN ask = K /\ ask = [k \in DOMAIN ask |-> ask[k]]
  BY <1>1
<1>3. QED
  BY <1>1, <1>2

\* What makes a request.
LEMMA MakesRequest ==
  ASSUME NEW K \in SUBSET SettingKeys, NEW ask \in [K -> Values],
         \A k \in K : ask[k] \in Settings[k] \cup {Unset, Invalid}
  PROVE  ask \in Requests
BY DEF Requests

\* Without one of its keys a request is a request, with the values it had.
LEMMA RestFacts ==
  ASSUME NEW ask \in Requests, NEW k
  PROVE  LET rest == Restrict(ask, DOMAIN ask \ {k}) IN
         /\ rest \in Requests
         /\ DOMAIN rest = DOMAIN ask \ {k}
<1> DEFINE K == DOMAIN ask \ {k}
           rest == Restrict(ask, K)
<1>1. rest = [i \in K |-> ask[i]]
  BY DEF Restrict
<1>2. K \in SUBSET SettingKeys /\ \A i \in K : ask[i] \in Values
  BY RequestFacts
<1>3. rest \in [K -> Values]
  BY <1>1, <1>2
<1>4. \A i \in K : rest[i] \in Settings[i] \cup {Unset, Invalid}
  BY <1>1, RequestFacts
<1>5. rest \in Requests
  <2> HIDE DEF K, rest
  <2>1. QED
    BY <1>2, <1>3, <1>4, MakesRequest
<1>6. QED
  BY <1>1, <1>5

\* Nothing is asked of an idle handler.
LEMMA NoLocalsFacts ==
  /\ NoRequest \in Requests /\ DOMAIN NoRequest = {}
  /\ NoToken \in Tokens
  /\ NoLocals \in SessionLocals
  /\ NoLocals.asked = NoRequest /\ NoLocals.met = {}
  /\ NoCookie \in Cookies
<1>1. NoRequest \in [{} -> Values] /\ DOMAIN NoRequest = {}
  BY DEF NoRequest
<1>2. NoRequest \in Requests
  BY <1>1, MakesRequest
<1>3. NoToken \in Tokens
  BY SessionsAssumption DEF NoToken, Tokens
<1>4. QED
  BY <1>1, <1>2, <1>3, KeyFacts DEF NoLocals, SessionLocals, NoCookie, Cookies

\* What may come of a value is a setting of its key.
LEMMA OutcomeFacts ==
  ASSUME SessionsTypeOK, NEW k \in SettingKeys, NEW value \in Settings[k] \cup {Unset, Invalid},
         NEW outcome \in Outcomes(k, value)
  PROVE  /\ outcome[1] \in Settings[k]
         /\ outcome[2] \in BOOLEAN
         /\ ~outcome[2] => \/ outcome[1] = value
                           \/ value = Unset
                           \/ k = "session_timeout" /\ value = Invalid
<1>1. running[k] \in Settings[k]
  BY DEF SessionsTypeOK
<1>2. CASE value \in Settings[k]
  <2>1. outcome = <<value, FALSE>> \/ outcome = <<running[k], TRUE>>
    BY <1>2 DEF Outcomes
  <2>2. CASE outcome = <<value, FALSE>>
    <3>1. outcome[1] = value /\ outcome[2] = FALSE
      BY <2>2
    <3>2. QED
      BY <1>2, <3>1
  <2>3. CASE outcome = <<running[k], TRUE>>
    <3>1. outcome[1] = running[k] /\ outcome[2] = TRUE
      BY <2>3
    <3>2. QED
      BY <1>1, <3>1
  <2>4. QED
    BY <2>1, <2>2, <2>3
<1>3. CASE value \notin Settings[k]
  <2>1. outcome = <<running[k], k = "timezone" /\ value = Invalid>>
    BY <1>3 DEF Outcomes
  <2>2. outcome[1] = running[k] /\ outcome[2] = (k = "timezone" /\ value = Invalid)
    BY <2>1
  <2>3. QED
    BY <1>1, <1>3, <2>2, KeyFacts
<1>4. QED
  BY <1>2, <1>3

\* What the handler is left with after a key: one key less.
LEMMA FinishedFacts ==
  ASSUME SessionsTypeOK, NEW h \in Handlers
  PROVE  /\ Finished(h) \in SessionLocals
         /\ DOMAIN Finished(h).asked = Pending(h) \ {local[h].key}
         /\ \A k \in DOMAIN Finished(h).asked :
              k \in local[h].met => k \in Finished(h).met
<1> DEFINE k == local[h].key
           rest == Restrict(local[h].asked, DOMAIN local[h].asked \ {k})
           left == [local[h] EXCEPT !.asked = rest, !.met = @ \ {k},
                                    !.key = NoLocals.key, !.failed = FALSE]
<1>1. local[h] \in SessionLocals /\ NoLocals \in SessionLocals
  BY NoLocalsFacts DEF SessionsTypeOK
<1>2. rest \in Requests /\ DOMAIN rest = Pending(h) \ {k}
  BY <1>1, RestFacts DEF SessionLocals, Pending
<1> HIDE DEF rest
<1>3. CASE rest = NoRequest
  <2>1. Finished(h) = NoLocals
    BY <1>3 DEF Finished, rest
  <2>2. QED
    BY <1>2, <1>3, <2>1, NoLocalsFacts
<1>4. CASE rest # NoRequest
  <2>1. Finished(h) = left
    BY <1>4 DEF Finished, rest
  <2>2. left \in SessionLocals /\ left.asked = rest /\ left.met = local[h].met \ {k}
    BY <1>1, <1>2 DEF SessionLocals
  <2>3. QED
    BY <1>2, <2>1, <2>2
<1>5. QED
  BY <1>3, <1>4

\* A stirred token is not calm; all else stays.
LEMMA StirredFacts ==
  ASSUME SessionsTypeOK, NEW o \in Handlers
  PROVE  /\ Stirred(o) \in SessionLocals
         /\ Stirred(o).asked = local[o].asked
         /\ Stirred(o).key = local[o].key
         /\ Stirred(o).failed = local[o].failed
         /\ Stirred(o).met = local[o].met
         /\ \/ Stirred(o).token = local[o].token
            \/ ~Stirred(o).token.calm
         /\ stage[o] = "cookie" /\ Stirred(o).token.calm
              => /\ Stirred(o).token = local[o].token
                 /\ running'["session_timeout"] = running["session_timeout"]
<1>1. local[o] \in SessionLocals
  BY DEF SessionsTypeOK
<1>2. [local[o] EXCEPT !.token.calm = FALSE] \in SessionLocals
  BY <1>1 DEF SessionLocals, Tokens
<1>3. QED
  BY <1>1, <1>2 DEF Stirred, SessionLocals, Tokens

-----------------------------------------------------------------------------
(***************************************************************************)
(* Sessions: the actions, one lemma each.                                  *)
(***************************************************************************)
\* What is true of the settings stays so when a handler that has no keys to do goes on.
LEMMA SettingsStay ==
  ASSUME SessionsInv, NEW h \in Handlers, NEW label, NEW locals, locals.asked = NoRequest,
         label # "apply", Goto(h, label, locals), UNCHANGED <<rows, running, sure>>
  PROVE  /\ Separate'
         /\ \A o \in Handlers : Written(o)'
         /\ ShownIsInForce'
<1>1. /\ local'[h] = locals /\ stage'[h] = label
      /\ \A o \in Handlers \ {h} : local'[o] = local[o] /\ stage'[o] = stage[o]
  BY DEF Goto, SessionsInv, SessionsTypeOK
<1>2. DOMAIN local'[h].asked = {}
  BY <1>1, NoLocalsFacts
<1>3. Separate'
  BY <1>1, <1>2 DEF SessionsInv, Separate, Pending
<1>4. ASSUME NEW o \in Handlers PROVE Written(o)'
  BY <1>1 DEF SessionsInv, Written, Pending
<1>5. ShownIsInForce'
  BY DEF SessionsInv, ShownIsInForce
<1>6. QED
  BY <1>3, <1>4, <1>5

\* loginAPIHandler, and the first-login change.
LEMMA LoginKeeps ==
  ASSUME SessionsInv, NEW h \in Handlers, loginAPI(h)
  PROVE  SessionsInv'
<1> DEFINE locals == [NoLocals EXCEPT !.token = GenerateToken]
<1>1. running["session_timeout"] \in Nat \ {0}
  BY KeyFacts DEF SessionsInv, SessionsTypeOK
<1>2. /\ GenerateToken \in Tokens
      /\ InTime(GenerateToken, running["session_timeout"])
  BY <1>1, SessionsAssumption DEF GenerateToken, Tokens, InTime
<1>3. locals \in SessionLocals /\ locals.asked = NoRequest /\ locals.token = GenerateToken
  BY <1>2, NoLocalsFacts DEF SessionLocals
<1>4. Goto(h, "cookie", locals) /\ UNCHANGED <<rows, running, cookie, sure>>
  BY DEF loginAPI
<1> HIDE DEF locals
<1>5. SessionsTypeOK'
  BY <1>3, <1>4 DEF SessionsInv, SessionsTypeOK, Goto
<1>6. Coming'
  BY <1>2, <1>3, <1>4 DEF SessionsInv, SessionsTypeOK, Coming, Goto
<1>7. ExpireTogether'
  BY <1>4 DEF SessionsInv, ExpireTogether
<1>8. QED
  BY <1>3, <1>4, <1>5, <1>6, <1>7, SettingsStay DEF SessionsInv

\* The cookie of a login.
LEMMA SetCookieKeeps ==
  ASSUME SessionsInv, NEW h \in Handlers, SetCookie(h)
  PROVE  SessionsInv'
<1> DEFINE token == local[h].token
<1>1. running["session_timeout"] \in Nat \ {0} /\ token \in Tokens
  BY KeyFacts DEF SessionsInv, SessionsTypeOK, SessionLocals
<1>2. InTime(token, running["session_timeout"])
  BY DEF SessionsInv, Coming, SetCookie
<1>3. cookie' = [token |-> token, age |-> running["session_timeout"]]
  BY DEF SetCookie, cookieExpiry
<1>4. Goto(h, "idle", NoLocals) /\ UNCHANGED <<rows, running, sure>>
  BY DEF SetCookie, Done
<1> HIDE DEF token
<1>5. SessionsTypeOK'
  <2>1. cookie' \in Cookies
    BY <1>1, <1>3 DEF Cookies
  <2>2. QED
    BY <1>4, <2>1, NoLocalsFacts DEF SessionsInv, SessionsTypeOK, Goto
<1>6. Coming'
  BY <1>4 DEF SessionsInv, SessionsTypeOK, Coming, Goto
<1>7. ExpireTogether'
  BY <1>1, <1>2, <1>3 DEF ExpireTogether, InTime, Tokens
<1>8. QED
  BY <1>4, <1>5, <1>6, <1>7, NoLocalsFacts, SettingsStay DEF SessionsInv

\* logoutAPIHandler.
LEMMA LogoutKeeps ==
  ASSUME SessionsInv, NEW h \in Handlers, logoutAPI(h)
  PROVE  SessionsInv'
<1>1. PICK label \in {"clear", "idle"} :
        /\ Goto(h, label, NoLocals) /\ UNCHANGED <<rows, running, sure>>
        /\ cookie' \in {cookie, NoCookie}
  BY DEF logoutAPI, Done
<1>2. SessionsTypeOK'
  BY <1>1, NoLocalsFacts DEF SessionsInv, SessionsTypeOK, Goto
<1>3. Coming'
  BY <1>1 DEF SessionsInv, SessionsTypeOK, Coming, Goto
<1>4. ExpireTogether'
  BY <1>1 DEF SessionsInv, ExpireTogether
<1>5. QED
  BY <1>1, <1>2, <1>3, <1>4, NoLocalsFacts, SettingsStay DEF SessionsInv

\* A request of systemConfigHandler begins: whoever shares a key with it knows.
LEMMA AskKeeps ==
  ASSUME SessionsInv, NEW h \in Handlers, NEW ask \in Asks, systemConfig(h, ask)
  PROVE  SessionsInv'
<1> DEFINE mine == [NoLocals EXCEPT !.asked = ask,
                                    !.met = UNION {Shared(i, ask) : i \in Handlers}]
           theirs(o) == [local[o] EXCEPT !.met = @ \cup Shared(o, ask)]
<1>1. ask \in Requests /\ DOMAIN ask \subseteq SettingKeys
  BY SessionsAssumption, RequestFacts
<1>2. /\ stage[h] = "idle" /\ stage' = [stage EXCEPT ![h] = "save"]
      /\ local' = [o \in Handlers |-> IF o = h THEN mine ELSE theirs(o)]
      /\ UNCHANGED <<rows, running, cookie, sure>>
  BY DEF systemConfig
<1>3. \A o \in Handlers : Shared(o, ask) \subseteq SettingKeys
  BY <1>1 DEF Shared
<1>4. /\ mine \in SessionLocals /\ mine.asked = ask
      /\ \A o \in Handlers : Shared(o, ask) \subseteq mine.met
  <2>1. UNION {Shared(i, ask) : i \in Handlers} \in SUBSET SettingKeys
    BY <1>3
  <2>2. QED
    BY <1>1, <2>1, NoLocalsFacts DEF SessionLocals
<1>5. ASSUME NEW o \in Handlers
      PROVE  /\ theirs(o) \in SessionLocals
             /\ theirs(o).asked = local[o].asked /\ theirs(o).key = local[o].key
             /\ theirs(o).failed = local[o].failed /\ theirs(o).token = local[o].token
             /\ theirs(o).met = local[o].met \cup Shared(o, ask)
  BY <1>3 DEF SessionsInv, SessionsTypeOK, SessionLocals
<1> HIDE DEF mine, theirs
<1>6. SessionsTypeOK'
  BY <1>2, <1>4, <1>5 DEF SessionsInv, SessionsTypeOK
<1>7. Separate'
  <2> SUFFICES ASSUME NEW f \in Handlers, NEW g \in Handlers, f # g,
                      NEW k \in Pending(f)' \cap Pending(g)'
               PROVE  k \in local'[f].met
    BY DEF Separate
  <2>1. CASE f = h
    <3>1. k \in Shared(g, ask)
      BY <1>2, <1>4, <1>5, <2>1 DEF Pending, Shared
    <3>2. QED
      BY <1>2, <1>4, <2>1, <3>1
  <2>2. CASE g = h
    <3>1. k \in Shared(f, ask) /\ f # h
      BY <1>2, <1>4, <1>5, <2>2 DEF Pending, Shared
    <3>2. QED
      BY <1>2, <1>5, <3>1
  <2>3. CASE f # h /\ g # h
    <3>1. k \in Pending(f) \cap Pending(g)
      BY <1>2, <1>5, <2>3 DEF Pending
    <3>2. QED
      BY <1>2, <1>5, <2>3, <3>1 DEF SessionsInv, Separate
  <2>4. QED
    BY <2>1, <2>2, <2>3
<1>8. ASSUME NEW o \in Handlers PROVE Written(o)'
  <2>1. CASE o = h
    BY <1>2, <2>1 DEF SessionsInv, SessionsTypeOK, Written
  <2>2. CASE o # h
    <3>1. stage'[o] = stage[o] /\ local'[o] = theirs(o)
      BY <1>2, <2>2 DEF SessionsInv, SessionsTypeOK
    <3>2. QED
      BY <1>2, <1>5, <3>1 DEF SessionsInv, Written, Pending
  <2>3. QED
    BY <2>1, <2>2
<1>9. Coming'
  <2> SUFFICES ASSUME NEW o \in Handlers, stage'[o] = "cookie"
               PROVE  InTime(local'[o].token, running'["session_timeout"])
    BY DEF Coming
  <2>1. o # h /\ stage[o] = "cookie"
    BY <1>2 DEF SessionsInv, SessionsTypeOK
  <2>2. local'[o].token = local[o].token
    BY <1>2, <1>5, <2>1
  <2>3. QED
    BY <1>2, <2>1, <2>2 DEF SessionsInv, Coming
<1>10. ShownIsInForce' /\ ExpireTogether'
  BY <1>2 DEF SessionsInv, ShownIsInForce, ExpireTogether
<1>11. QED
  BY <1>6, <1>7, <1>8, <1>9, <1>10 DEF SessionsInv

\* A row is written: no other request at work on the key believes itself alone.
LEMMA SetConfigKeeps ==
  ASSUME SessionsInv, NEW h \in Handlers, SetConfig(h)
  PROVE  SessionsInv'
<1>1. PICK k \in DOMAIN local[h].asked, failed \in BOOLEAN :
        /\ rows' = IF failed THEN rows ELSE [rows EXCEPT ![k] = local[h].asked[k]]
        /\ sure' = [sure EXCEPT ![k] = FALSE]
        /\ Goto(h, "apply", [local[h] EXCEPT !.key = k, !.failed = failed])
  BY DEF SetConfig
<1> DEFINE locals == [local[h] EXCEPT !.key = k, !.failed = failed]
<1>2. UNCHANGED <<running, cookie>> /\ stage[h] = "save"
  BY DEF SetConfig
<1>3. k \in SettingKeys /\ local[h].asked[k] \in Values /\ local[h] \in SessionLocals
  BY RequestFacts DEF SessionsInv, SessionsTypeOK, SessionLocals
<1>4. /\ locals \in SessionLocals /\ locals.key = k /\ locals.failed = failed
      /\ locals.asked = local[h].asked /\ locals.met = local[h].met
  BY <1>3 DEF SessionLocals
<1>5. Goto(h, "apply", locals)
  BY <1>1
<1> HIDE DEF locals
<1>6. /\ local'[h] = locals /\ stage'[h] = "apply"
      /\ \A o \in Handlers \ {h} : local'[o] = local[o] /\ stage'[o] = stage[o]
  BY <1>5 DEF Goto, SessionsInv, SessionsTypeOK
<1>7. SessionsTypeOK'
  BY <1>1, <1>2, <1>3, <1>4, <1>5 DEF SessionsInv, SessionsTypeOK, Goto
<1>8. Separate'
  BY <1>4, <1>6 DEF SessionsInv, Separate, Pending
<1>9. ASSUME NEW o \in Handlers PROVE Written(o)'
  <2>1. CASE o = h
    <3>1. ~failed => rows'[k] = local[h].asked[k]
      BY <1>1, <1>3 DEF SessionsInv, SessionsTypeOK
    <3>2. QED
      BY <1>4, <1>6, <2>1, <3>1 DEF Written, Pending
  <2>2. CASE o # h
    <3> SUFFICES ASSUME stage[o] = "apply"
                 PROVE  /\ local[o].key \in Pending(o)
                        /\ local[o].key \notin local[o].met /\ ~local[o].failed
                             => rows'[local[o].key] = local[o].asked[local[o].key]
      BY <1>6, <2>2 DEF Written, Pending
    <3>1. /\ local[o].key \in Pending(o)
          /\ local[o].key \notin local[o].met /\ ~local[o].failed
               => rows[local[o].key] = local[o].asked[local[o].key]
      BY DEF SessionsInv, Written
    <3>2. local[o].key \notin local[o].met => local[o].key # k
      BY <2>2, <3>1 DEF SessionsInv, Separate, Pending
    <3>3. local[o].key \in SettingKeys
      BY DEF SessionsInv, SessionsTypeOK, SessionLocals
    <3>4. local[o].key # k => rows'[local[o].key] = rows[local[o].key]
      BY <1>1, <1>3, <3>3 DEF SessionsInv, SessionsTypeOK
    <3>5. QED
      BY <3>1, <3>2, <3>4
  <2>3. QED
    BY <2>1, <2>2
<1>10. Coming'
  BY <1>2, <1>6 DEF SessionsInv, Coming
<1>11. ShownIsInForce'
  <2> SUFFICES ASSUME NEW i \in SettingKeys, sure'[i]
               PROVE  \/ rows'[i] = running'[i]
                      \/ rows'[i] = Unset
                      \/ i = "session_timeout" /\ rows'[i] = Invalid
    BY DEF ShownIsInForce
  <2>1. i # k /\ sure[i]
    BY <1>1, <1>3 DEF SessionsInv, SessionsTypeOK
  <2>2. rows'[i] = rows[i] /\ running'[i] = running[i]
    BY <1>1, <1>2, <1>3, <2>1 DEF SessionsInv, SessionsTypeOK
  <2>3. QED
    BY <2>1, <2>2 DEF SessionsInv, ShownIsInForce
<1>12. ExpireTogether'
  BY <1>2 DEF SessionsInv, ExpireTogether
<1>13. QED
  BY <1>7, <1>8, <1>9, <1>10, <1>11, <1>12 DEF SessionsInv

\* A key takes effect: if its request was alone with it and nothing failed, the row is
\* the one it wrote.
LEMMA ApplyKeeps ==
  ASSUME SessionsInv, NEW h \in Handlers, Apply(h)
  PROVE  SessionsInv'
<1> DEFINE k == local[h].key
           value == local[h].asked[k]
<1>1. PICK outcome \in Outcomes(k, value) :
        /\ running' = [running EXCEPT ![k] = outcome[1]]
        /\ sure' = [sure EXCEPT
                      ![k] = ~local[h].failed /\ ~outcome[2] /\ k \notin local[h].met]
  BY DEF Apply
<1>2. /\ stage[h] = "apply"
      /\ local' = [o \in Handlers |-> IF o = h THEN Finished(h) ELSE Stirred(o)]
      /\ stage' = [stage EXCEPT ![h] = IF Finished(h) = NoLocals THEN "idle" ELSE "save"]
      /\ UNCHANGED <<rows, cookie>>
  BY DEF Apply
<1>3. /\ SessionsTypeOK /\ local[h] \in SessionLocals /\ k \in SettingKeys /\ k \in Pending(h)
      /\ value \in Settings[k] \cup {Unset, Invalid}
  <2>1. SessionsTypeOK /\ local[h] \in SessionLocals /\ k \in Pending(h)
    BY <1>2 DEF SessionsInv, SessionsTypeOK, Written
  <2>2. local[h].asked \in Requests /\ k \in DOMAIN local[h].asked
    BY <2>1 DEF SessionLocals, Pending
  <2>3. QED
    BY <2>1, <2>2, RequestFacts
<1> HIDE DEF k, value
<1>4. /\ outcome[1] \in Settings[k] /\ outcome[2] \in BOOLEAN
      /\ ~outcome[2] => \/ outcome[1] = value \/ value = Unset
                        \/ k = "session_timeout" /\ value = Invalid
  BY <1>3, OutcomeFacts
<1>5. SessionsTypeOK'
  <2>1. /\ running' \in [SettingKeys -> SessionTimeouts \cup Zones]
        /\ \A i \in SettingKeys : running'[i] \in Settings[i]
    BY <1>1, <1>3, <1>4, KeyFacts DEF SessionsTypeOK
  <2>2. local' \in [Handlers -> SessionLocals]
    BY <1>2, <1>3, FinishedFacts, StirredFacts
  <2>3. sure' \in [SettingKeys -> BOOLEAN]
    BY <1>1, <1>3 DEF SessionsTypeOK
  <2>4. QED
    BY <1>2, <1>3, <2>1, <2>2, <2>3 DEF SessionsTypeOK
<1>6. /\ local'[h] = Finished(h) /\ stage'[h] \in {"idle", "save"}
      /\ \A o \in Handlers \ {h} : local'[o] = Stirred(o) /\ stage'[o] = stage[o]
  BY <1>2, <1>3 DEF SessionsTypeOK
<1>7. Separate'
  <2> SUFFICES ASSUME NEW f \in Handlers, NEW g \in Handlers, f # g,
                      NEW i \in Pending(f)' \cap Pending(g)'
               PROVE  i \in local'[f].met
    BY DEF Separate
  <2>1. \A o \in Handlers : Pending(o)' \subseteq Pending(o)
    BY <1>3, <1>6, FinishedFacts, StirredFacts DEF Pending
  <2>2. i \in local[f].met
    BY <2>1 DEF SessionsInv, Separate
  <2>3. CASE f = h
    BY <1>3, <1>6, <2>2, <2>3, FinishedFacts DEF Pending
  <2>4. CASE f # h
    BY <1>3, <1>6, <2>2, <2>4, StirredFacts
  <2>5. QED
    BY <2>3, <2>4
<1>8. ASSUME NEW o \in Handlers PROVE Written(o)'
  <2>1. CASE o = h
    BY <1>6, <2>1 DEF Written
  <2>2. CASE o # h
    BY <1>2, <1>3, <1>6, <2>2, StirredFacts DEF SessionsInv, Written, Pending
  <2>3. QED
    BY <2>1, <2>2
<1>9. Coming'
  <2> SUFFICES ASSUME NEW o \in Handlers, stage'[o] = "cookie", local'[o].token.calm
               PROVE  InTime(local'[o].token, running'["session_timeout"])
    BY DEF Coming, InTime
  <2>1. o # h /\ stage[o] = "cookie" /\ local'[o] = Stirred(o)
    BY <1>6
  <2>2. /\ Stirred(o).token = local[o].token
        /\ running'["session_timeout"] = running["session_timeout"]
    BY <1>3, <2>1, StirredFacts
  <2>3. QED
    BY <2>1, <2>2 DEF SessionsInv, Coming
<1>10. ShownIsInForce'
  <2> SUFFICES ASSUME NEW i \in SettingKeys, sure'[i]
               PROVE  \/ rows'[i] = running'[i]
                      \/ rows'[i] = Unset
                      \/ i = "session_timeout" /\ rows'[i] = Invalid
    BY DEF ShownIsInForce
  <2>1. CASE i = k
    <3>1. ~local[h].failed /\ ~outcome[2] /\ k \notin local[h].met
      BY <1>1, <1>3, <2>1 DEF SessionsTypeOK
    <3>2. rows[k] = value
      BY <1>2, <3>1 DEF SessionsInv, Written, k, value
    <3>3. running'[k] = outcome[1]
      BY <1>1, <1>3 DEF SessionsTypeOK
    <3>4. QED
      BY <1>2, <1>4, <2>1, <3>1, <3>2, <3>3
  <2>2. CASE i # k
    <3>1. sure[i] /\ running'[i] = running[i]
      BY <1>1, <1>3, <2>2 DEF SessionsTypeOK
    <3>2. QED
      BY <1>2, <3>1 DEF SessionsInv, ShownIsInForce
  <2>3. QED
    BY <2>1, <2>2
<1>11. ExpireTogether'
  BY <1>2 DEF SessionsInv, ExpireTogether
<1>12. QED
  BY <1>5, <1>7, <1>8, <1>9, <1>10, <1>11 DEF SessionsInv

\* A token a tick later, and one whose secret is gone.
LEMMA OlderFacts ==
  ASSUME NEW token \in Tokens
  PROVE  /\ Older(token) \in Tokens
         /\ Older(token).valid = Less(token.valid)
         /\ Older(token).waited = token.waited
         /\ Older(token).calm = token.calm
         /\ token.waited < MaxDelay =>
              /\ Waiting(token) \in Tokens
              /\ Waiting(token).valid = Less(token.valid)
              /\ Waiting(token).waited = token.waited + 1
              /\ Waiting(token).calm = token.calm
         /\ Void(token) \in Tokens
         /\ ~Void(token).calm
<1>1. token.valid \in Nat /\ Less(token.valid) \in Nat
  BY DEF Tokens, Less
<1>2. token.waited < MaxDelay => token.waited + 1 \in 0..MaxDelay
  BY SessionsAssumption DEF Tokens
<1>3. QED
  BY <1>1, <1>2, SessionsAssumption DEF Older, Waiting, Void, Tokens

\* A tick: the cookie, and the tokens whose cookies are still to come.
LEMMA TickKeeps ==
  ASSUME SessionsInv, Elapse
  PROVE  SessionsInv'
<1> DEFINE later(o) == Waiting(local[o].token)
<1>1. UNCHANGED <<rows, running, stage, sure>>
  BY DEF Elapse
<1>2. /\ cookie \in Cookies /\ cookie.token \in Tokens /\ cookie.age \in Nat
      /\ running["session_timeout"] \in Nat \ {0}
  BY KeyFacts DEF SessionsInv, SessionsTypeOK, Cookies
<1>3. ASSUME NEW o \in Handlers, stage[o] = "cookie"
      PROVE  /\ local[o].token \in Tokens
             /\ later(o) \in Tokens
             /\ later(o).valid = Less(local[o].token.valid)
             /\ later(o).waited = local[o].token.waited + 1
             /\ later(o).calm = local[o].token.calm
  <2>1. local[o].token \in Tokens /\ local[o].token.waited < MaxDelay
    BY <1>3 DEF Elapse, SessionsInv, SessionsTypeOK, SessionLocals
  <2>2. QED
    BY <2>1, OlderFacts
<1>4. ASSUME NEW o \in Handlers
      PROVE  /\ local'[o] \in SessionLocals
             /\ local'[o].asked = local[o].asked /\ local'[o].key = local[o].key
             /\ local'[o].failed = local[o].failed /\ local'[o].met = local[o].met
             /\ stage[o] = "cookie" => local'[o].token = later(o)
  <2>1. local[o] \in SessionLocals
    BY DEF SessionsInv, SessionsTypeOK
  <2>2. CASE stage[o] = "cookie"
    <3>1. local'[o] = [local[o] EXCEPT !.token = later(o)]
      BY <2>2 DEF Elapse
    <3> HIDE DEF later
    <3>2. QED
      BY <1>3, <2>1, <2>2, <3>1 DEF SessionLocals
  <2>3. CASE stage[o] # "cookie"
    <3>1. local'[o] = local[o]
      BY <2>3 DEF Elapse
    <3>2. QED
      BY <2>1, <2>3, <3>1
  <2>4. QED
    BY <2>2, <2>3
<1>5. \/ cookie.age <= 1 /\ cookie' = NoCookie
      \/ /\ cookie.age > 1
         /\ cookie' = [token |-> Older(cookie.token), age |-> cookie.age - 1]
  BY <1>2 DEF Elapse
<1> HIDE DEF later
<1>6. SessionsTypeOK'
  <2>1. cookie' \in Cookies
    BY <1>2, <1>5, OlderFacts, NoLocalsFacts DEF Cookies
  <2>2. local' \in [Handlers -> SessionLocals]
    <3>1. local' = [o \in Handlers |-> local'[o]]
      BY DEF Elapse
    <3>2. QED
      BY <1>4, <3>1
  <2>3. QED
    BY <1>1, <2>1, <2>2 DEF SessionsInv, SessionsTypeOK
<1>7. Separate'
  <2> SUFFICES ASSUME NEW f \in Handlers, NEW g \in Handlers, f # g,
                      NEW i \in Pending(f)' \cap Pending(g)'
               PROVE  i \in local'[f].met
    BY DEF Separate
  <2>1. i \in Pending(f) \cap Pending(g)
    BY <1>4 DEF Pending
  <2>2. QED
    BY <1>4, <2>1 DEF SessionsInv, Separate
<1>8. ASSUME NEW o \in Handlers PROVE Written(o)'
  BY <1>1, <1>4 DEF SessionsInv, Written, Pending
<1>9. Coming'
  <2> SUFFICES ASSUME NEW o \in Handlers, stage'[o] = "cookie", local'[o].token.calm
               PROVE  InTime(local'[o].token, running'["session_timeout"])
    BY DEF Coming, InTime
  <2>1. stage[o] = "cookie" /\ local'[o].token = later(o)
    BY <1>1, <1>4
  <2>2. InTime(local[o].token, running["session_timeout"])
    BY <2>1 DEF SessionsInv, Coming
  <2>3. InTime(later(o), running["session_timeout"])
    BY <1>2, <1>3, <2>1, <2>2 DEF InTime, Less, Tokens
  <2>4. QED
    BY <1>1, <2>1, <2>3
<1>10. ShownIsInForce'
  BY <1>1 DEF SessionsInv, ShownIsInForce
<1>11. ExpireTogether'
  <2>1. CASE cookie' = NoCookie
    BY <2>1 DEF ExpireTogether
  <2>2. CASE cookie.age > 1 /\ cookie' = [token |-> Older(cookie.token), age |-> cookie.age - 1]
    <3>1. cookie # NoCookie
      BY <2>2 DEF NoCookie
    <3>2. /\ cookie'.age = cookie.age - 1
          /\ cookie'.token.valid = Less(cookie.token.valid)
          /\ cookie'.token.waited = cookie.token.waited
          /\ cookie'.token.calm = cookie.token.calm
      BY <1>2, <2>2, OlderFacts
    <3>3. cookie.token.valid \in Nat /\ cookie.token.waited \in Nat
      BY <1>2, SessionsAssumption DEF Tokens
    <3>4. cookie.token.calm => InTime(cookie.token, cookie.age)
      BY <3>1, <3>3 DEF SessionsInv, ExpireTogether, InTime
    <3>5. cookie'.token.calm =>
            IF cookie'.token.valid > 0
              THEN cookie'.age = cookie'.token.valid + cookie'.token.waited
              ELSE cookie'.age <= cookie'.token.waited
      BY <1>2, <3>2, <3>3, <3>4 DEF InTime, Less
    <3>6. QED
      BY <3>5 DEF ExpireTogether
  <2>3. QED
    BY <1>5, <2>1, <2>2
<1>12. QED
  BY <1>6, <1>7, <1>8, <1>9, <1>10, <1>11 DEF SessionsInv

\* A restart of the panel: the settings it does not take from the rows.
LEMMA RestartKeeps ==
  ASSUME SessionsInv, Restart
  PROVE  SessionsInv'
<1>1. /\ rows' = rows
      /\ running' = [running EXCEPT !["session_timeout"] = token_expiry]
      /\ sure' = [sure EXCEPT !["session_timeout"] = FALSE]
      /\ stage' = [h \in Handlers |-> "idle"]
      /\ local' = [h \in Handlers |-> NoLocals]
  BY DEF Restart
<1>2. \/ cookie' = cookie
      \/ cookie' = [cookie EXCEPT !.token = Void(@)]
  BY DEF Restart
<1>3. cookie' \in Cookies /\ (cookie' = cookie \/ ~cookie'.token.calm)
  <2>1. cookie \in Cookies /\ cookie.token \in Tokens
    BY DEF SessionsInv, SessionsTypeOK, Cookies
  <2>2. Void(cookie.token) \in Tokens /\ ~Void(cookie.token).calm
    BY <2>1, OlderFacts
  <2>3. QED
    BY <1>2, <2>1, <2>2 DEF Cookies
<1>4. SessionsTypeOK'
  BY <1>1, <1>3, NoLocalsFacts, KeyFacts, SessionsAssumption DEF SessionsInv, SessionsTypeOK
<1>5. Separate'
  BY <1>1, NoLocalsFacts DEF Separate, Pending
<1>6. (\A h \in Handlers : Written(h))' /\ Coming'
  BY <1>1 DEF Written, Coming
<1>7. ShownIsInForce'
  BY <1>1 DEF SessionsInv, SessionsTypeOK, ShownIsInForce
<1>8. ExpireTogether'
  BY <1>3 DEF SessionsInv, ExpireTogether
<1>9. QED
  BY <1>4, <1>5, <1>6, <1>7, <1>8 DEF SessionsInv

-----------------------------------------------------------------------------
(***************************************************************************)
(* Sessions: the theorems.                                                 *)
(***************************************************************************)
\* The first start: no row, no token, and loadConfig's TokenExpiry.
LEMMA InitHolds == SessionsInit => SessionsInv
<1> SUFFICES ASSUME SessionsInit PROVE SessionsInv
  OBVIOUS
<1>1. SessionsTypeOK
  BY NoLocalsFacts, KeyFacts, SessionsAssumption DEF SessionsInit, SessionsTypeOK, Values
<1>2. Separate
  BY NoLocalsFacts DEF SessionsInit, Separate, Pending
<1>3. (\A h \in Handlers : Written(h)) /\ Coming
  BY DEF SessionsInit, Written, Coming
<1>4. ShownIsInForce /\ ExpireTogether
  BY DEF SessionsInit, ShownIsInForce, ExpireTogether
<1>5. QED
  BY <1>1, <1>2, <1>3, <1>4 DEF SessionsInv

\* The invariant holds whatever logins, logouts and requests for settings overlap,
\* fail or are cut off by a restart (loginAPIHandler, systemConfigHandler, loadConfig).
THEOREM SessionsInductive == SessionsSpec => []SessionsInv
<1>1. SessionsInv /\ [SessionsNext]_sessionsVars => SessionsInv'
  <2> SUFFICES ASSUME SessionsInv, [SessionsNext]_sessionsVars PROVE SessionsInv'
    OBVIOUS
  <2>1. ASSUME NEW h \in Handlers, loginAPI(h) PROVE SessionsInv'
    BY <2>1, LoginKeeps
  <2>2. ASSUME NEW h \in Handlers, firstLoginChangeAPI(h) PROVE SessionsInv'
    BY <2>2, LoginKeeps DEF firstLoginChangeAPI
  <2>3. ASSUME NEW h \in Handlers, SetCookie(h) PROVE SessionsInv'
    BY <2>3, SetCookieKeeps
  <2>4. ASSUME NEW h \in Handlers, logoutAPI(h) PROVE SessionsInv'
    BY <2>4, LogoutKeeps
  <2>5. ASSUME NEW h \in Handlers, NEW ask \in Asks, systemConfig(h, ask) PROVE SessionsInv'
    BY <2>5, AskKeeps
  <2>6. ASSUME NEW h \in Handlers, SetConfig(h) PROVE SessionsInv'
    BY <2>6, SetConfigKeeps
  <2>7. ASSUME NEW h \in Handlers, Apply(h) PROVE SessionsInv'
    BY <2>7, ApplyKeeps
  <2>8. CASE Elapse
    BY <2>8, TickKeeps
  <2>9. CASE Restart
    BY <2>9, RestartKeeps
  <2>10. CASE UNCHANGED sessionsVars
    BY <2>10 DEF sessionsVars, SessionsInv, SessionsTypeOK, Separate, Written, Pending, Coming, ShownIsInForce,
                 ExpireTogether
  <2>11. QED
    BY <2>1, <2>2, <2>3, <2>4, <2>5, <2>6, <2>7, <2>8, <2>9, <2>10 DEF SessionsNext
<1>2. QED
  BY <1>1, InitHolds, PTL DEF SessionsSpec

\* Every variable has its type.
THEOREM SessionsTypeCorrect == SessionsSpec => []SessionsTypeOK
<1>1. SessionsInv => SessionsTypeOK
  BY DEF SessionsInv
<1>2. QED
  BY <1>1, SessionsInductive, PTL

\* What the settings page shows is in force, for any requests and any restarts, after
\* a change that met no other of its key and reported no error (systemConfigHandler).
THEOREM ShownStaysInForce == SessionsSpec => []ShownIsInForce
<1>1. SessionsInv => ShownIsInForce
  BY DEF SessionsInv
<1>2. QED
  BY <1>1, SessionsInductive, PTL

\* A cookie ends with its token, but for the delay of the login and a TokenExpiry that
\* changed under it (loginAPIHandler, requireAuth).
THEOREM CookieEndsWithToken == SessionsSpec => []ExpireTogether
<1>1. SessionsInv => ExpireTogether
  BY DEF SessionsInv
<1>2. QED
  BY <1>1, SessionsInductive, PTL
=============================================================================
