------------------------- MODULE WifiConnect_proofs -------------------------
(***************************************************************************)
(* Theorems of WifiConnect: its types; and that a request that finds the   *)
(* supplicant connected, when nothing overlapped it, has found its own     *)
(* network and key, for any users, networks, limits of the loops and       *)
(* failures, and wherever the panel is stopped.                            *)
(***************************************************************************)
EXTENDS WifiConnect, TLAPS

-----------------------------------------------------------------------------
(***************************************************************************)
(* The types, and what each step of a goroutine has in its locals.         *)
(***************************************************************************)
WorldTyped ==
  /\ files \in [Networks -> Keys \cup {None}]
  /\ newest \in Networks \cup {None}
  /\ supplicant \in Supplicants \cup {None}
  /\ radio \in BOOLEAN
  /\ memo \in Tables(Commands, {Done})
  /\ disturbed \in BOOLEAN
  /\ fresh \in BOOLEAN

Connecting ==
  {"prepare", "kill", "await", "kill9", "write", "start", "started", "ping", "list", "add",
   "poll"}

\* A goroutine starts the supplicant only with a file that is there; a user's request
\* has written it.
LocalsAt(h) ==
  LET me == local[h] IN
  /\ pc[h] \in Connecting => me.net \in Networks
  /\ me.byFile => me.net \in Networks /\ files[me.net] # None /\ h = System
  /\ pc[h] = "start" => files[me.net] # None

Typed ==
  /\ WorldTyped
  /\ pc \in [Handlers -> Labels]
  /\ local \in [Handlers -> Locals]
  /\ \A h \in Handlers : LocalsAt(h)

-----------------------------------------------------------------------------
(***************************************************************************)
(* What is so while goroutines have not overlapped.                        *)
(***************************************************************************)
Alone == \A g, h \in Handlers : ~Quiet(g) /\ ~Quiet(h) => g = h

Asked(h) == [net |-> local[h].net, key |-> local[h].key]

\* The file is the request's when it starts the supplicant, so it is the supplicant's
\* network, so it is what the supplicant is told to select.
AtStep(h) ==
  /\ pc[h] = "start" => files[local[h].net] = local[h].key
  /\ pc[h] \in {"started", "ping", "list"} /\ Runs => supplicant.own = Asked(h)
  /\ pc[h] = "poll" /\ Runs => supplicant.current = Asked(h)

IInv ==
  /\ Typed
  /\ ~disturbed => Alone /\ \A u \in Users : AtStep(u)

-----------------------------------------------------------------------------
(***************************************************************************)
(* Lemmas about the locals, the supplicant and the executor.               *)
(***************************************************************************)
LEMMA LocalsTyped ==
  /\ NoLocals \in Locals /\ ~NoLocals.byFile
  /\ \A net \in Networks, key \in Keys :
       /\ Connect(net, key) \in Locals
       /\ Connect(net, key).net = net /\ Connect(net, key).key = key
       /\ Connect(net, key).byFile = FALSE
  /\ \A net \in Networks :
       /\ [NoLocals EXCEPT !.net = net, !.byFile = TRUE] \in Locals
       /\ [NoLocals EXCEPT !.net = net, !.byFile = TRUE].net = net
<1>1. 0 \in Counts
  <2>1. PingAttempts \in Nat /\ PollAttempts \in Nat /\ AuthLimit \in Nat
    BY WifiAssumption
  <2> QED BY <2>1 DEF Counts
<1> QED BY <1>1 DEF NoLocals, Connect, Locals, Keys

LEMMA SupplicantsTyped ==
  /\ \A config \in Configs : /\ Supplicant(config) \in Supplicants
                             /\ Supplicant(config).own = config
                             /\ Supplicant(config).current = config
  /\ \A s \in Supplicants, config \in Configs :
       /\ Selected(s, config) \in Supplicants
       /\ Selected(s, config).own = s.own /\ Selected(s, config).current = config
BY DEF Supplicant, Supplicants, Selected

LEMMA OfflineTyped ==
  ASSUME supplicant \in Supplicants \cup {None}
  PROVE  /\ Offline(supplicant) \in Supplicants \cup {None}
         /\ Runs => /\ Offline(supplicant).own = supplicant.own
                    /\ Offline(supplicant).current = supplicant.current
BY DEF Offline, Supplicants, Runs

\* Whatever its effect, a command leaves a memo.
LEMMA ExecutorTyped ==
  ASSUME memo \in Tables(Commands, {Done}), NEW c \in Commands,
         \/ UNCHANGED memo
         \/ memo' = [memo EXCEPT ![c] = Remembered(Done)]
  PROVE  memo' \in Tables(Commands, {Done})
<1>1. Remembered(Done) \in [result : {Done}, left : 1..TTL]
  BY MemoAssumption DEF Remembered
<1> QED BY <1>1 DEF Tables

LEMMA AgedTyped ==
  ASSUME memo \in Tables(Commands, {Done})
  PROVE  Aged(memo) \in Tables(Commands, {Done})
<1> SUFFICES ASSUME NEW c \in Commands
             PROVE  Older(memo[c]) \in {Forgotten} \cup [result : {Done}, left : 1..TTL]
  <2>1. DOMAIN memo = Commands
    BY DEF Tables
  <2> QED BY <2>1 DEF Aged, Tables
<1>1. CASE memo[c] = Forgotten
  BY <1>1 DEF Older, Forgotten
<1>2. CASE memo[c] \in [result : {Done}, left : 1..TTL]
  BY <1>2, MemoAssumption DEF Older, Forgotten
<1> QED BY <1>1, <1>2 DEF Tables

LEMMA NothingTyped == NothingRemembered(Commands) \in Tables(Commands, {Done})
BY DEF NothingRemembered, Tables

-----------------------------------------------------------------------------
(***************************************************************************)
(* How a step keeps the invariant.                                         *)
(***************************************************************************)
Moves(h, label, me) ==
  /\ pc' \in [Handlers -> Labels] /\ local' \in [Handlers -> Locals]
  /\ pc'[h] = label /\ local'[h] = me
  /\ \A g \in Handlers \ {h} : pc'[g] = pc[g] /\ local'[g] = local[g]

KeepsFiles == \A n \in Networks : files[n] # None => files'[n] # None

LEMMA StepMoves ==
  ASSUME IInv, NEW h \in Handlers, NEW label \in Labels, NEW me \in Locals,
         Moves(h, label, me), WorldTyped', KeepsFiles, LocalsAt(h)',
         ~disturbed' => /\ ~disturbed
                        /\ \A g \in Handlers \ {h} : Quiet(g)
                        /\ h \in Users => AtStep(h)'
  PROVE  IInv'
<1>1. ASSUME NEW g \in Handlers \ {h}
      PROVE  LocalsAt(g)'
  <2>1. LocalsAt(g) /\ pc'[g] = pc[g] /\ local'[g] = local[g]
    BY DEF IInv, Typed, Moves
  <2>2. Connecting = Connecting' /\ "start" \in Connecting
    BY DEF Connecting
  <2> QED BY <2>1, <2>2 DEF LocalsAt, KeepsFiles
<1>2. Typed'
  BY <1>1 DEF Typed, Moves
<1>3. ASSUME ~disturbed', NEW g \in Handlers \ {h}
      PROVE  Quiet(g)' /\ (g \in Users => AtStep(g)')
  BY <1>3 DEF Moves, Quiet, AtStep
<1> QED BY <1>2, <1>3 DEF IInv, Alone, Handlers

\* A goroutine that has begun is alone, or it is known to be disturbed.
LEMMA Own ==
  ASSUME IInv, NEW h \in Handlers
  PROVE  /\ WorldTyped /\ pc[h] \in Labels /\ local[h] \in Locals /\ LocalsAt(h)
         /\ ~disturbed /\ h \in Users => AtStep(h)
         /\ ~disturbed /\ ~Quiet(h) => \A g \in Handlers \ {h} : Quiet(g)
         /\ h \in Users => ~local[h].byFile
BY WifiAssumption DEF IInv, Typed, Alone, LocalsAt

LEMMA StepOn ==
  ASSUME IInv, NEW h \in Handlers, ~Quiet(h), NEW label \in Labels, NEW me \in Locals,
         Goto(h, label), local' = [local EXCEPT ![h] = me], UNCHANGED disturbed,
         WorldTyped', KeepsFiles,
         pc'[h] = label /\ local'[h] = me => LocalsAt(h)',
         pc'[h] = label /\ local'[h] = me /\ ~disturbed /\ h \in Users => AtStep(h)'
  PROVE  IInv'
<1>1. Moves(h, label, me)
  BY DEF IInv, Typed, Goto, Moves
<1>2. ~disturbed' => ~disturbed /\ \A g \in Handlers \ {h} : Quiet(g)
  BY Own
<1> QED BY <1>1, <1>2, StepMoves DEF Moves

\* A step that leaves the locals.
LEMMA StepKeeps ==
  ASSUME IInv, NEW h \in Handlers, ~Quiet(h), NEW label \in Labels,
         Goto(h, label), UNCHANGED <<local, disturbed>>, WorldTyped', KeepsFiles,
         pc'[h] = label => LocalsAt(h)',
         pc'[h] = label /\ ~disturbed /\ h \in Users => AtStep(h)'
  PROVE  IInv'
<1>1. local' = [local EXCEPT ![h] = local[h]] /\ local[h] \in Locals
  BY DEF IInv, Typed
<1> QED BY <1>1, StepOn

-----------------------------------------------------------------------------
(***************************************************************************)
(* connectWiFi, and the steps the reconnect shares with it.                *)
(***************************************************************************)
LEMMA PrepareStep ==
  ASSUME IInv, NEW h \in Handlers, Prepare(h)
  PROVE  IInv'
<1>1. /\ WorldTyped /\ LocalsAt(h) /\ pc[h] = "prepare" /\ ~Quiet(h)
      /\ Goto(h, "kill") /\ UNCHANGED <<files, newest, local, disturbed, fresh>>
      /\ supplicant' \in {supplicant, Offline(supplicant)}
      /\ radio' \in BOOLEAN
      /\ memo' = memo \/ memo' = [memo EXCEPT !["on"] = Remembered(Done)]
  BY Own DEF Prepare, Executes, Quiet, saved, history, WorldTyped
<1>2. memo' \in Tables(Commands, {Done})
  BY <1>1, ExecutorTyped DEF WorldTyped, Commands
<1>3. WorldTyped' /\ KeepsFiles
  BY <1>1, <1>2, OfflineTyped DEF WorldTyped, KeepsFiles
<1> QED BY <1>1, <1>3, StepKeeps DEF LocalsAt, AtStep, Connecting, Labels

LEMMA StopStep ==
  ASSUME IInv, NEW h \in Handlers, stopWpaSupplicant(h)
  PROVE  IInv'
<1>1. /\ WorldTyped /\ LocalsAt(h) /\ pc[h] = "kill" /\ ~Quiet(h)
      /\ Goto(h, "await") /\ UNCHANGED <<files, newest, radio, local, disturbed, fresh>>
      /\ supplicant' \in {None, supplicant}
      /\ memo' = memo \/ memo' = [memo EXCEPT !["kill"] = Remembered(Done)]
  BY Own DEF stopWpaSupplicant, Executes, Quiet, saved, history
<1>2. memo' \in Tables(Commands, {Done})
  BY <1>1, ExecutorTyped DEF WorldTyped, Commands
<1>3. WorldTyped' /\ KeepsFiles
  BY <1>1, <1>2 DEF WorldTyped, KeepsFiles
<1> QED BY <1>1, <1>3, StepKeeps DEF LocalsAt, AtStep, Connecting, Labels

\* Only the reconnect goes on without writing a file.
LEMMA AfterStopTyped ==
  ASSUME IInv, NEW h \in Handlers
  PROVE  /\ AfterStop(h) \in {"start", "write"} \cap Labels \cap Connecting
         /\ AfterStop(h) = "start" => local[h].byFile /\ h \notin Users
BY Own DEF AfterStop, Labels, Connecting

LEMMA AwaitStep ==
  ASSUME IInv, NEW h \in Handlers, AwaitStop(h)
  PROVE  IInv'
<1> DEFINE label == IF Runs THEN "kill9" ELSE AfterStop(h)
<1>1. /\ WorldTyped /\ LocalsAt(h) /\ pc[h] = "await" /\ ~Quiet(h) /\ Goto(h, label)
      /\ UNCHANGED <<files, newest, supplicant, radio, memo, local, disturbed, fresh>>
  BY Own DEF AwaitStop, Quiet, world, saved, history
<1>2. /\ label \in {"kill9", "start", "write"} /\ label \in Labels
      /\ label = "start" => local[h].byFile /\ h \notin Users
  BY AfterStopTyped DEF Labels
<1> HIDE DEF label
<1>3. WorldTyped' /\ KeepsFiles
  BY <1>1 DEF WorldTyped, KeepsFiles
<1> QED BY <1>1, <1>2, <1>3, StepKeeps DEF LocalsAt, AtStep, Connecting

LEMMA ForceKillStep ==
  ASSUME IInv, NEW h \in Handlers, ForceKill(h)
  PROVE  IInv'
<1> DEFINE label == AfterStop(h)
<1>1. /\ WorldTyped /\ LocalsAt(h) /\ pc[h] = "kill9" /\ ~Quiet(h) /\ Goto(h, label)
      /\ UNCHANGED <<files, newest, radio, local, disturbed, fresh>>
      /\ supplicant' \in {None, supplicant}
      /\ memo' = memo \/ memo' = [memo EXCEPT !["kill9"] = Remembered(Done)]
  BY Own DEF ForceKill, Executes, Quiet, saved, history
<1>2. /\ label \in {"start", "write"} /\ label \in Labels
      /\ label = "start" => local[h].byFile /\ h \notin Users
  BY AfterStopTyped
<1> HIDE DEF label
<1>3. memo' \in Tables(Commands, {Done})
  BY <1>1, ExecutorTyped DEF WorldTyped, Commands
<1>4. WorldTyped' /\ KeepsFiles
  BY <1>1, <1>3 DEF WorldTyped, KeepsFiles
<1> QED BY <1>1, <1>2, <1>4, StepKeeps DEF LocalsAt, AtStep, Connecting

LEMMA WriteStep ==
  ASSUME IInv, NEW h \in Handlers, WriteConfig(h)
  PROVE  IInv'
<1>1. /\ WorldTyped /\ LocalsAt(h) /\ pc[h] = "write" /\ ~Quiet(h)
      /\ local[h].net \in Networks /\ local[h].key \in Keys
      /\ UNCHANGED <<supplicant, radio, memo, local, disturbed, fresh>>
  BY Own DEF WriteConfig, Quiet, history, LocalsAt, Connecting, Locals
<1>2. CASE UNCHANGED saved /\ Goto(h, "failed")
  <2>1. WorldTyped' /\ KeepsFiles
    BY <1>1, <1>2 DEF WorldTyped, KeepsFiles, saved
  <2> QED BY <1>1, <1>2, <2>1, StepKeeps DEF LocalsAt, AtStep, Connecting, Labels, saved
<1>3. CASE /\ files' = [files EXCEPT ![local[h].net] = local[h].key]
           /\ newest' = local[h].net
           /\ Goto(h, "start")
  <2>1. /\ files' \in [Networks -> Keys \cup {None}]
        /\ files'[local[h].net] = local[h].key
        /\ \A n \in Networks \ {local[h].net} : files'[n] = files[n]
    BY <1>1, <1>3 DEF WorldTyped
  <2>2. local[h].key # None
    BY <1>1, NoneAssumption
  <2>3. WorldTyped' /\ KeepsFiles
    BY <1>1, <1>3, <2>1, <2>2 DEF WorldTyped, KeepsFiles
  <2> QED BY <1>1, <1>3, <2>1, <2>2, <2>3, StepKeeps DEF LocalsAt, AtStep, Labels
<1> QED BY <1>2, <1>3 DEF WriteConfig

\* The supplicant has the network and the key of the file it is started with.
LEMMA StartTyped ==
  ASSUME IInv, NEW h \in Handlers, pc[h] = "start"
  PROVE  LET config == [net |-> local[h].net, key |-> files[local[h].net]] IN
         /\ config \in Configs
         /\ Supplicant(config) \in Supplicants
         /\ Supplicant(config).own = config
         /\ Supplicant(config) # None
<1> DEFINE config == [net |-> local[h].net, key |-> files[local[h].net]]
<1>1. WorldTyped /\ LocalsAt(h)
  BY Own
<1>2. local[h].net \in Networks /\ files[local[h].net] \in Keys
  BY <1>1 DEF WorldTyped, LocalsAt, Connecting
<1>3. config \in Configs
  BY <1>2 DEF Configs
<1> HIDE DEF config
<1> QED BY <1>3, SupplicantsTyped, NoneAssumption DEF config

LEMMA StartFailedStep ==
  ASSUME IInv, NEW h \in Handlers, pc[h] \in {"start", "started"}, StartFailed(h),
         UNCHANGED <<saved, radio, memo>>
  PROVE  IInv'
<1>1. /\ WorldTyped /\ LocalsAt(h) /\ ~Quiet(h) /\ local[h].net \in Networks
      /\ UNCHANGED <<files, newest, supplicant, radio, memo, disturbed>> /\ fresh' = FALSE
  BY Own DEF StartFailed, Quiet, saved, LocalsAt, Connecting
<1>2. WorldTyped' /\ KeepsFiles
  BY <1>1 DEF WorldTyped, KeepsFiles
<1>3. CASE /\ Goto(h, "prepare")
           /\ local' = [local EXCEPT ![h] = Connect(local[h].net, "none")]
  <2> DEFINE me == Connect(local[h].net, "none")
  <2>1. me \in Locals /\ me.net = local[h].net /\ ~me.byFile
    BY <1>1, LocalsTyped DEF Keys
  <2> HIDE DEF me
  <2> QED BY <1>1, <1>2, <1>3, <2>1, StepOn DEF me, LocalsAt, AtStep, Connecting, Labels
<1>4. CASE Goto(h, "failed") /\ UNCHANGED local
  BY <1>1, <1>2, <1>4, StepKeeps DEF LocalsAt, AtStep, Connecting, Labels
<1> QED BY <1>3, <1>4 DEF StartFailed

LEMMA StartStep ==
  ASSUME IInv, NEW h \in Handlers, startWpaSupplicant(h)
  PROVE  IInv'
<1> DEFINE config == [net |-> local[h].net, key |-> files[local[h].net]]
<1>1. /\ WorldTyped /\ LocalsAt(h) /\ pc[h] = "start" /\ ~Quiet(h)
      /\ UNCHANGED <<files, newest, radio, memo>>
  BY Own DEF startWpaSupplicant, Quiet, saved
<1>2. ASSUME supplicant' = Supplicant(config), Goto(h, "started"), UNCHANGED <<local, history>>
      PROVE  IInv'
  <2>1. supplicant' \in Supplicants /\ supplicant'.own = config
    BY <1>1, <1>2, StartTyped
  <2>2. WorldTyped' /\ KeepsFiles /\ UNCHANGED disturbed
    BY <1>1, <1>2, <2>1 DEF WorldTyped, KeepsFiles, history
  <2>3. LocalsAt(h)
    BY <1>1
  <2>4. ~disturbed /\ h \in Users => config = Asked(h)
    BY <1>1, Own DEF AtStep, Asked
  <2> QED BY <1>1, <1>2, <2>1, <2>2, <2>4, StepKeeps
    DEF LocalsAt, AtStep, Asked, Connecting, Labels
<1>3. CASE StartFailed(h)
  BY <1>1, <1>3, StartFailedStep DEF startWpaSupplicant
<1> QED BY <1>2, <1>3 DEF startWpaSupplicant

LEMMA StartedStep ==
  ASSUME IInv, NEW h \in Handlers, Started(h)
  PROVE  IInv'
<1>1. /\ WorldTyped /\ LocalsAt(h) /\ pc[h] = "started" /\ ~Quiet(h)
      /\ UNCHANGED <<saved, radio, memo>>
      /\ ~disturbed /\ h \in Users => AtStep(h)
  BY Own DEF Started, Quiet
<1>2. CASE Goto(h, "ping") /\ UNCHANGED <<supplicant, local, history>>
  <2>1. WorldTyped' /\ KeepsFiles /\ UNCHANGED <<files, supplicant, local, disturbed>>
    BY <1>1, <1>2 DEF WorldTyped, KeepsFiles, saved, history
  <2> QED BY <1>1, <1>2, <2>1, StepKeeps DEF LocalsAt, AtStep, Asked, Runs, Connecting, Labels
<1>3. CASE StartFailed(h)
  BY <1>1, <1>3, StartFailedStep
<1> QED BY <1>2, <1>3 DEF Started

\* One more try, and one more refusal, keep their counts below the limits.
LEMMA RetryTyped ==
  ASSUME IInv, NEW h \in Handlers,
         local[h].tries + 1 < PingAttempts \/ local[h].tries + 1 < PollAttempts
  PROVE  LET me == local[h]
             again == [me EXCEPT !.tries = @ + 1]
             refused == [me EXCEPT !.tries = @ + 1, !.refusals = @ + 1]
         IN
         /\ again \in Locals /\ again.net = me.net /\ again.key = me.key
         /\ again.byFile = me.byFile
         /\ me.refusals + 1 < AuthLimit =>
              /\ refused \in Locals /\ refused.net = me.net /\ refused.key = me.key
              /\ refused.byFile = me.byFile
<1> DEFINE me == local[h]
<1>1. PingAttempts \in Nat /\ PollAttempts \in Nat /\ AuthLimit \in Nat
  BY WifiAssumption
<1>2. me \in Locals
  BY Own
<1> HIDE DEF me
<1>3. me.tries \in Counts /\ me.refusals \in Counts
  BY <1>2 DEF Locals
<1>4. me.tries + 1 \in Counts
  BY <1>1, <1>3 DEF Counts, me
<1>5. me.refusals + 1 < AuthLimit => me.refusals + 1 \in Counts
  BY <1>1, <1>3 DEF Counts
<1>6. me.refusals + 1 < AuthLimit =>
        [me EXCEPT !.tries = me.tries + 1, !.refusals = me.refusals + 1] \in Locals
  BY <1>2, <1>4, <1>5 DEF Locals
<1>7. [me EXCEPT !.tries = me.tries + 1] \in Locals
  BY <1>2, <1>4 DEF Locals
<1> QED BY <1>2, <1>6, <1>7 DEF me, Locals

LEMMA LeavesTyped ==
  ASSUME NEW me \in Locals
  PROVE  LET ended == [me EXCEPT !.tries = 0, !.refusals = 0] IN
         /\ ended \in Locals /\ [me EXCEPT !.tries = 0] \in Locals
         /\ ended.net = me.net /\ ended.key = me.key /\ ended.byFile = me.byFile
<1>1. 0 \in Counts
  BY LocalsTyped DEF NoLocals, Locals
<1> QED BY <1>1 DEF Locals

\* A step of a loop keeps what the request asked for.
LEMMA LoopStep ==
  ASSUME IInv, NEW h \in Handlers, ~Quiet(h), NEW label \in Labels, NEW me \in Locals,
         Goto(h, label), local' = [local EXCEPT ![h] = me], UNCHANGED <<world, memo, history>>,
         me.net = local[h].net, me.key = local[h].key, me.byFile = local[h].byFile,
         \/ label = pc[h] \/ label \notin Connecting
         \/ pc[h] = "ping" /\ label = "list"
  PROVE  IInv'
<1>1. /\ WorldTyped /\ LocalsAt(h) /\ (~disturbed /\ h \in Users => AtStep(h))
      /\ UNCHANGED <<files, newest, supplicant, radio, memo, disturbed, fresh>>
  BY Own DEF world, saved, history
<1>2. WorldTyped' /\ KeepsFiles
  BY <1>1 DEF WorldTyped, KeepsFiles
<1>3. ASSUME pc'[h] = label, local'[h] = me
      PROVE  LocalsAt(h)' /\ (~disturbed /\ h \in Users => AtStep(h)')
  BY <1>1, <1>3 DEF LocalsAt, AtStep, Asked, Runs, Connecting
<1> QED BY <1>1, <1>2, <1>3, StepOn

LEMMA EndStep ==
  ASSUME IInv, NEW h \in Handlers, ~Quiet(h), Ends(h), UNCHANGED <<world, memo, history>>
  PROVE  IInv'
<1>1. /\ WorldTyped /\ Goto(h, "idle") /\ local' = [local EXCEPT ![h] = NoLocals]
      /\ UNCHANGED <<files, newest, supplicant, radio, memo, disturbed, fresh>>
  BY Own DEF Ends, world, saved, history
<1>2. WorldTyped' /\ KeepsFiles
  BY <1>1 DEF WorldTyped, KeepsFiles
<1>3. NoLocals \in Locals /\ ~NoLocals.byFile
  BY LocalsTyped
<1> QED BY <1>1, <1>2, <1>3, StepOn DEF LocalsAt, AtStep, Connecting, Labels

LEMMA RetryStep ==
  ASSUME IInv, NEW h \in Handlers, ~Quiet(h), UNCHANGED <<world, memo, history>>, UNCHANGED pc,
         local[h].tries + 1 < PingAttempts \/ local[h].tries + 1 < PollAttempts,
         \/ local' = [local EXCEPT ![h].tries = @ + 1]
         \/ /\ local[h].refusals + 1 < AuthLimit
            /\ local' = [local EXCEPT ![h].tries = @ + 1, ![h].refusals = @ + 1]
  PROVE  IInv'
<1>1. Goto(h, pc[h]) /\ pc[h] \in Labels
  BY DEF Goto, IInv, Typed
<1> DEFINE again == [local[h] EXCEPT !.tries = @ + 1]
           refused == [local[h] EXCEPT !.tries = @ + 1, !.refusals = @ + 1]
<1>2. /\ again \in Locals /\ again.net = local[h].net /\ again.key = local[h].key
      /\ again.byFile = local[h].byFile
      /\ local[h].refusals + 1 < AuthLimit =>
           /\ refused \in Locals /\ refused.net = local[h].net /\ refused.key = local[h].key
           /\ refused.byFile = local[h].byFile
  BY RetryTyped
<1>3. CASE local' = [local EXCEPT ![h].tries = @ + 1]
  <2>1. local' = [local EXCEPT ![h] = again]
    BY <1>3
  <2> HIDE DEF again, refused
  <2> QED BY <1>1, <1>2, <2>1, LoopStep
<1>4. CASE /\ local[h].refusals + 1 < AuthLimit
           /\ local' = [local EXCEPT ![h].tries = @ + 1, ![h].refusals = @ + 1]
  <2>1. local' = [local EXCEPT ![h] = refused]
    BY <1>4 DEF IInv, Typed
  <2> HIDE DEF again, refused
  <2> QED BY <1>1, <1>2, <1>4, <2>1, LoopStep
<1> QED BY <1>3, <1>4

LEMMA LeaveStep ==
  ASSUME IInv, NEW h \in Handlers, ~Quiet(h), UNCHANGED <<world, memo, history>>,
         NEW label \in Labels \ Connecting, Leaves(h, label)
  PROVE  IInv'
<1> DEFINE me == [local[h] EXCEPT !.tries = 0, !.refusals = 0]
<1>1. /\ me \in Locals /\ me.net = local[h].net /\ me.key = local[h].key
      /\ me.byFile = local[h].byFile
  BY Own, LeavesTyped
<1>2. local' = [local EXCEPT ![h] = me] /\ Goto(h, label)
  BY DEF Leaves, IInv, Typed
<1> HIDE DEF me
<1> QED BY <1>1, <1>2, LoopStep

LEMMA PingStep ==
  ASSUME IInv, NEW h \in Handlers, waitForWpaCliConnection(h)
  PROVE  IInv'
<1>1. pc[h] = "ping" /\ ~Quiet(h) /\ UNCHANGED <<world, memo, history>>
  BY DEF waitForWpaCliConnection, Quiet
<1>2. CASE Goto(h, "list") /\ local' = [local EXCEPT ![h].tries = 0]
  <2> DEFINE me == [local[h] EXCEPT !.tries = 0]
  <2>1. me \in Locals /\ me.net = local[h].net /\ me.key = local[h].key
        /\ me.byFile = local[h].byFile
    BY Own, LeavesTyped DEF Locals
  <2>2. local' = [local EXCEPT ![h] = me]
    BY <1>2
  <2> HIDE DEF me
  <2> QED BY <1>1, <1>2, <2>1, <2>2, LoopStep DEF Labels
<1>3. CASE Retry(h, PingAttempts, IF local[h].byFile THEN Ends(h) ELSE Leaves(h, "failed"))
  <2>1. CASE local[h].tries + 1 < PingAttempts
    BY <1>1, <1>3, <2>1, RetryStep DEF Retry
  <2>2. CASE ~(local[h].tries + 1 < PingAttempts) /\ Ends(h)
    BY <1>1, <2>2, EndStep
  <2>3. CASE ~(local[h].tries + 1 < PingAttempts) /\ Leaves(h, "failed")
    BY <1>1, <2>3, LeaveStep DEF Labels, Connecting
  <2> QED BY <1>3, <2>1, <2>2, <2>3 DEF Retry
<1> QED BY <1>2, <1>3 DEF waitForWpaCliConnection

LEMMA SelectStep ==
  ASSUME IInv, NEW h \in Handlers, SelectFirst(h)
  PROVE  IInv'
<1>1. /\ WorldTyped /\ LocalsAt(h) /\ pc[h] = "list" /\ ~Quiet(h)
      /\ ~disturbed /\ h \in Users => AtStep(h)
      /\ UNCHANGED <<files, newest, radio, memo, local, disturbed, fresh>>
  BY Own DEF SelectFirst, Quiet, saved, history
<1>2. CASE Runs /\ supplicant' = Selected(supplicant, supplicant.own) /\ Goto(h, "poll")
  <2>1. supplicant' \in Supplicants /\ supplicant'.current = supplicant.own
    <3>1. supplicant \in Supplicants /\ supplicant.own \in Configs
      BY <1>1, <1>2 DEF WorldTyped, Runs, Supplicants
    <3> QED BY <1>2, <3>1, SupplicantsTyped
  <2>2. WorldTyped' /\ KeepsFiles
    BY <1>1, <2>1 DEF WorldTyped, KeepsFiles
  <2> QED BY <1>1, <1>2, <2>1, <2>2, StepKeeps
    DEF LocalsAt, AtStep, Asked, Connecting, Labels
<1>3. ASSUME ~Runs, UNCHANGED supplicant, NEW label \in {"poll", "add"}, Goto(h, label)
      PROVE  IInv'
  <2>1. WorldTyped' /\ KeepsFiles
    BY <1>1, <1>3 DEF WorldTyped, KeepsFiles
  <2> QED BY <1>1, <1>3, <2>1, StepKeeps DEF LocalsAt, AtStep, Runs, Connecting, Labels
<1> QED BY <1>2, <1>3 DEF SelectFirst

LEMMA AddStep ==
  ASSUME IInv, NEW h \in Handlers, AddNetwork(h)
  PROVE  IInv'
<1>1. /\ WorldTyped /\ LocalsAt(h) /\ pc[h] = "add" /\ ~Quiet(h)
      /\ UNCHANGED <<files, newest, radio, memo, local, disturbed, fresh>>
      /\ Asked(h) \in Configs
  BY Own DEF AddNetwork, Quiet, saved, history, Asked, Configs, LocalsAt, Connecting, Locals
<1>2. CASE Runs /\ supplicant' = Selected(supplicant, Asked(h)) /\ Goto(h, "poll")
  <2>1. supplicant' \in Supplicants /\ supplicant'.current = Asked(h)
    BY <1>1, <1>2, SupplicantsTyped DEF WorldTyped, Runs
  <2>2. WorldTyped' /\ KeepsFiles
    BY <1>1, <2>1 DEF WorldTyped, KeepsFiles
  <2> QED BY <1>1, <1>2, <2>1, <2>2, StepKeeps
    DEF LocalsAt, AtStep, Asked, Connecting, Labels
<1>3. CASE Goto(h, "failed") /\ UNCHANGED supplicant
  <2>1. WorldTyped' /\ KeepsFiles
    BY <1>1, <1>3 DEF WorldTyped, KeepsFiles
  <2> QED BY <1>1, <1>3, <2>1, StepKeeps DEF LocalsAt, AtStep, Connecting, Labels
<1> QED BY <1>2, <1>3 DEF AddNetwork, Asked

LEMMA PollStep ==
  ASSUME IInv, NEW h \in Handlers, PollStatus(h)
  PROVE  IInv'
<1>1. pc[h] = "poll" /\ ~Quiet(h) /\ UNCHANGED <<world, memo, history>>
  BY DEF PollStatus, Quiet
<1>2. ASSUME NEW label \in {"address", "failed"}, Leaves(h, label)
      PROVE  IInv'
  BY <1>1, <1>2, LeaveStep DEF Labels, Connecting
<1>3. CASE /\ local[h].tries + 1 < PollAttempts
           /\ local' = [local EXCEPT ![h].tries = @ + 1] /\ UNCHANGED pc
  BY <1>1, <1>3, RetryStep
<1>4. CASE /\ local[h].refusals + 1 < AuthLimit /\ local[h].tries + 1 < PollAttempts
           /\ local' = [local EXCEPT ![h].tries = @ + 1, ![h].refusals = @ + 1]
           /\ UNCHANGED pc
  BY <1>1, <1>4, RetryStep
<1>5. CASE Retry(h, PollAttempts, Leaves(h, IF local[h].byFile THEN "address" ELSE "failed"))
  BY <1>2, <1>3, <1>5 DEF Retry
<1> QED BY <1>2, <1>4, <1>5 DEF PollStatus

LEMMA AddressStep ==
  ASSUME IInv, NEW h \in Handlers, AwaitAddress(h)
  PROVE  IInv'
<1>1. pc[h] = "address" /\ ~Quiet(h) /\ UNCHANGED <<world, memo, history>>
  BY DEF AwaitAddress, Quiet
<1>2. CASE Ends(h)
  BY <1>1, <1>2, EndStep
<1>3. CASE Goto(h, "connected") /\ UNCHANGED local
  <2>1. local' = [local EXCEPT ![h] = local[h]] /\ local[h] \in Locals
    BY <1>3 DEF IInv, Typed
  <2> QED BY <1>1, <1>3, <2>1, LoopStep DEF Labels, Connecting
<1> QED BY <1>2, <1>3 DEF AwaitAddress

LEMMA RespondStep ==
  ASSUME IInv, NEW h \in Handlers, Respond(h)
  PROVE  IInv'
<1>1. ~Quiet(h) /\ UNCHANGED <<world, memo, history>> /\ Ends(h)
  BY DEF Respond, Quiet
<1> QED BY <1>1, EndStep

-----------------------------------------------------------------------------
(***************************************************************************)
(* The reconnect and the switches.                                         *)
(***************************************************************************)
\* A goroutine begins, with what it was asked.
LEMMA BeginStep ==
  ASSUME IInv, NEW h \in Handlers, Begins(h), NEW label \in Labels, NEW me \in Locals,
         Moves(h, label, me), UNCHANGED files, WorldTyped',
         label \in Connecting => me.net \in Networks,
         ~me.byFile \/ me = local[h],
         label \notin {"start", "started", "ping", "list", "poll"}
  PROVE  IInv'
<1>1. ~disturbed' => ~disturbed /\ \A g \in Handlers \ {h} : Quiet(g)
  BY DEF Begins
<1>2. LocalsAt(h)' /\ AtStep(h)'
  BY Own DEF LocalsAt, AtStep, Moves, Connecting
<1> QED BY <1>1, <1>2, StepMoves DEF KeepsFiles

LEMMA ConnectStep ==
  ASSUME IInv, NEW u \in Users, NEW net \in Networks, NEW key \in Keys, connectWiFi(u, net, key)
  PROVE  IInv'
<1> DEFINE me == Connect(net, key)
<1>1. me \in Locals /\ me.net = net /\ ~me.byFile
  BY LocalsTyped
<1>2. /\ u \in Handlers /\ Begins(u) /\ Goto(u, "prepare") /\ local' = [local EXCEPT ![u] = me]
      /\ UNCHANGED <<files, newest, supplicant, radio, memo>> /\ fresh' = FALSE
  BY DEF connectWiFi, UserBegins, world, saved, Handlers
<1> HIDE DEF me
<1>3. Moves(u, "prepare", me) /\ "prepare" \in Labels
  BY <1>1, <1>2 DEF Goto, Moves, IInv, Typed, Labels
<1>4. WorldTyped'
  BY <1>2 DEF IInv, Typed, WorldTyped, Begins
<1> QED BY <1>1, <1>2, <1>3, <1>4, BeginStep

\* The locals of one that begins without need of them.
LEMMA BeginPlain ==
  ASSUME IInv, NEW h \in Handlers, Begins(h), NEW label \in Labels \ Connecting,
         Goto(h, label), UNCHANGED <<local, files>>, WorldTyped'
  PROVE  IInv'
<1>1. Moves(h, label, local[h]) /\ local[h] \in Locals
  BY DEF Goto, Moves, IInv, Typed
<1> QED BY <1>1, BeginStep DEF Connecting

LEMMA SwitchStep ==
  ASSUME IInv, NEW u \in Users, wifiToggle(u) \/ wifiSoftwareSwitch(u)
  PROVE  IInv'
<1>1. PICK label \in {"toggleOn", "toggleOff", "switchOn", "switchOff"} : Goto(u, label)
  BY DEF wifiToggle, wifiSoftwareSwitch, Switch
<1>2. /\ u \in Handlers /\ Begins(u) /\ label \in Labels \ Connecting
      /\ UNCHANGED <<files, newest, supplicant, radio, memo, local>> /\ fresh' = FALSE
  BY DEF wifiToggle, wifiSoftwareSwitch, Switch, UserBegins, world, saved, Handlers, Labels,
         Connecting
<1>3. WorldTyped'
  BY <1>2 DEF IInv, Typed, WorldTyped, Begins
<1> QED BY <1>1, <1>2, <1>3, BeginPlain

LEMMA UnblockStep ==
  ASSUME IInv, NEW u \in Users, wifiUnblock(u)
  PROVE  IInv'
<1>1. /\ u \in Handlers /\ Begins(u) /\ pc[u] = "idle" /\ "idle" \in Labels \ Connecting
      /\ UNCHANGED <<files, newest, supplicant, memo, pc, local>>
      /\ radio' = TRUE /\ fresh' = FALSE
  BY DEF wifiUnblock, UserBegins, SwitchedOn, saved, Handlers, Labels, Connecting
<1>2. WorldTyped'
  BY <1>1 DEF IInv, Typed, WorldTyped, Begins
<1>3. Goto(u, "idle")
  BY <1>1 DEF Goto, IInv, Typed
<1> QED BY <1>1, <1>2, <1>3, BeginPlain

LEMMA ToggleStep ==
  ASSUME IInv, NEW u \in Users, toggleWiFi(u) \/ SoftwareSwitch(u)
  PROVE  IInv'
<1>1. /\ u \in Handlers /\ ~Quiet(u) /\ WorldTyped /\ LocalsAt(u)
      /\ Goto(u, "idle") /\ UNCHANGED <<files, newest, local, disturbed, fresh>>
  BY Own DEF toggleWiFi, SoftwareSwitch, Quiet, saved, history, Handlers
<1>2. /\ supplicant' \in {supplicant, Offline(supplicant)} /\ radio' \in BOOLEAN
      /\ \/ memo' = memo
         \/ memo' = [memo EXCEPT !["on"] = Remembered(Done)]
         \/ memo' = [memo EXCEPT !["off"] = Remembered(Done)]
  BY <1>1 DEF toggleWiFi, SoftwareSwitch, Executes, SwitchedOn, SwitchedOff, NotSwitched,
              WorldTyped
<1>3. memo' \in Tables(Commands, {Done})
  <2>1. "on" \in Commands /\ "off" \in Commands /\ memo \in Tables(Commands, {Done})
    BY <1>1 DEF Commands, WorldTyped
  <2> QED BY <1>2, <2>1, ExecutorTyped
<1>4. WorldTyped' /\ KeepsFiles
  BY <1>1, <1>2, <1>3, OfflineTyped DEF WorldTyped, KeepsFiles
<1> QED BY <1>1, <1>4, StepKeeps DEF LocalsAt, AtStep, Connecting, Labels

\* What happens beside the goroutines at work leaves them and the files; the supplicant
\* ends, or has the networks it had.
LEMMA SteadyStep ==
  ASSUME IInv, UNCHANGED <<files, local, disturbed>>, WorldTyped',
         \/ UNCHANGED supplicant \/ supplicant' = None
         \/ /\ Runs
            /\ supplicant'.own = supplicant.own /\ supplicant'.current = supplicant.current,
         pc' \in [Handlers -> Labels],
         \A h \in Handlers : pc'[h] = pc[h] \/ (Quiet(h) /\ pc'[h] \in {"idle", "boot"})
  PROVE  IInv'
<1>1. ASSUME NEW h \in Handlers
      PROVE  LocalsAt(h)' /\ (~disturbed /\ h \in Users => AtStep(h)')
  <2>1. LocalsAt(h) /\ (~disturbed /\ h \in Users => AtStep(h))
    BY Own
  <2>2. CASE pc'[h] = pc[h]
    BY <2>1, <2>2 DEF LocalsAt, AtStep, Asked, Runs, Connecting
  <2>3. CASE pc'[h] \in {"idle", "boot"}
    BY <2>1, <2>3 DEF LocalsAt, AtStep, Connecting
  <2> QED BY <2>2, <2>3
<1>2. Typed'
  BY <1>1 DEF IInv, Typed
<1>3. ~disturbed => Alone'
  BY DEF IInv, Alone, Quiet
<1> QED BY <1>1, <1>2, <1>3 DEF IInv, Handlers

LEMMA AutoConnectStep == ASSUME IInv, autoConnect PROVE IInv'
<1>1. /\ System \in Handlers /\ pc[System] = "boot" /\ WorldTyped
      /\ UNCHANGED <<files, newest, local>>
  BY DEF autoConnect, Handlers, IInv, Typed, saved
<1>2. CASE /\ Executes("on", SwitchedOn, NotSwitched) /\ Begins(System)
           /\ Goto(System, "probe") /\ UNCHANGED fresh
  <2>1. /\ radio' \in BOOLEAN /\ UNCHANGED supplicant
        /\ memo' = memo \/ memo' = [memo EXCEPT !["on"] = Remembered(Done)]
    BY <1>1, <1>2 DEF Executes, SwitchedOn, NotSwitched, WorldTyped
  <2>2. memo' \in Tables(Commands, {Done})
    BY <1>1, <2>1, ExecutorTyped DEF WorldTyped, Commands
  <2>3. WorldTyped'
    BY <1>1, <1>2, <2>1, <2>2 DEF WorldTyped, Begins
  <2> QED BY <1>1, <1>2, <2>3, BeginPlain DEF Labels, Connecting
<1>3. CASE /\ Goto(System, "idle") /\ fresh' = FALSE
           /\ UNCHANGED <<radio, supplicant, memo, disturbed>>
  <2>1. WorldTyped'
    BY <1>1, <1>3 DEF WorldTyped
  <2>2. /\ pc' \in [Handlers -> Labels]
        /\ \A h \in Handlers : pc'[h] = pc[h] \/ (Quiet(h) /\ pc'[h] \in {"idle", "boot"})
    BY <1>1, <1>3 DEF IInv, Typed, Goto, Labels, Quiet
  <2> QED BY <1>1, <1>3, <2>1, <2>2, SteadyStep
<1> QED BY <1>2, <1>3 DEF autoConnect

LEMMA ProbeStep == ASSUME IInv, Probe PROVE IInv'
<1>1. /\ System \in Handlers /\ System \notin Users /\ pc[System] = "probe" /\ ~Quiet(System)
      /\ WorldTyped /\ LocalsAt(System)
      /\ UNCHANGED <<files, newest, radio, memo, local, disturbed, fresh>>
  BY Own, WifiAssumption DEF Probe, Handlers, Quiet, saved, history
<1>2. PICK label \in {"idle", "quick", "choose"} : Goto(System, label)
  BY DEF Probe
<1>3. supplicant' \in Supplicants \cup {None}
  <2>1. CASE UNCHANGED supplicant
    BY <1>1, <2>1 DEF WorldTyped
  <2>2. ASSUME Runs, NEW config \in {supplicant.own, supplicant.current},
               supplicant' = Selected(supplicant, config)
        PROVE  supplicant' \in Supplicants
    <3>1. supplicant \in Supplicants /\ config \in Configs
      BY <1>1, <2>2 DEF WorldTyped, Runs, Supplicants
    <3> QED BY <2>2, <3>1, SupplicantsTyped
  <2> QED BY <2>1, <2>2 DEF Probe
<1>4. WorldTyped' /\ KeepsFiles
  BY <1>1, <1>3 DEF WorldTyped, KeepsFiles
<1> QED BY <1>1, <1>2, <1>4, StepKeeps DEF LocalsAt, Connecting, Labels

LEMMA QuickStep == ASSUME IInv, QuickPoll PROVE IInv'
<1>1. /\ System \in Handlers /\ pc[System] = "quick" /\ ~Quiet(System)
      /\ UNCHANGED <<world, memo, history>>
  BY DEF QuickPoll, Handlers, Quiet
<1>2. CASE Ends(System)
  BY <1>1, <1>2, EndStep
<1>3. CASE Retry(System, PollAttempts, Leaves(System, "choose"))
  <2>1. CASE local[System].tries + 1 < PollAttempts
    BY <1>1, <1>3, <2>1, RetryStep DEF Retry
  <2>2. CASE Leaves(System, "choose")
    BY <1>1, <2>2, LeaveStep DEF Labels, Connecting
  <2> QED BY <1>3, <2>1, <2>2 DEF Retry
<1> QED BY <1>2, <1>3 DEF QuickPoll

LEMMA ChooseStep == ASSUME IInv, Choose PROVE IInv'
<1>1. /\ System \in Handlers /\ System \notin Users /\ pc[System] = "choose" /\ ~Quiet(System)
      /\ WorldTyped /\ LocalsAt(System) /\ UNCHANGED <<world, memo, history>>
      /\ UNCHANGED <<files, newest, supplicant, radio, memo, disturbed, fresh>>
  BY Own, WifiAssumption DEF Choose, Handlers, Quiet, world, saved, history
<1>2. WorldTyped' /\ KeepsFiles
  BY <1>1 DEF WorldTyped, KeepsFiles
<1>3. CASE Ends(System)
  BY <1>1, <1>3, EndStep
<1>4. ASSUME NEW net \in getLastConnectedNetwork
      PROVE  net \in Networks
  BY <1>1 DEF getLastConnectedNetwork, WorldTyped, Runs, Supplicants, Configs
<1>5. ASSUME NEW net \in Networks, NEW me, files[net] # None,
             me = [NoLocals EXCEPT !.net = net, !.byFile = TRUE],
             local' = [local EXCEPT ![System] = me], Goto(System, "kill")
      PROVE  IInv'
  <2>1. me \in Locals /\ me.net = net
    BY <1>5, LocalsTyped
  <2> QED BY <1>1, <1>2, <1>5, <2>1, StepOn DEF LocalsAt, Labels
<1>6. ASSUME NEW net \in Networks, NEW me, me = Connect(net, "none"),
             local' = [local EXCEPT ![System] = me], Goto(System, "prepare")
      PROVE  IInv'
  <2>1. me \in Locals /\ me.net = net /\ ~me.byFile
    BY <1>6, LocalsTyped DEF Keys
  <2> QED BY <1>1, <1>2, <1>6, <2>1, StepOn DEF LocalsAt, Labels
<1> QED BY <1>3, <1>4, <1>5, <1>6 DEF Choose

-----------------------------------------------------------------------------
(***************************************************************************)
(* The environment.                                                        *)
(***************************************************************************)
LEMMA NetworkStep ==
  ASSUME IInv, Associate \/ Drop \/ Crash \/ Tick
  PROVE  IInv'
<1>1. WorldTyped /\ pc \in [Handlers -> Labels]
  BY DEF IInv, Typed
<1>2. UNCHANGED <<files, newest, radio, pc, local, disturbed>> /\ fresh' \in {fresh, FALSE}
  BY DEF Associate, Drop, Crash, Tick, world, saved, history
<1>3. memo' \in Tables(Commands, {Done})
  BY <1>1, AgedTyped DEF Associate, Drop, Crash, Tick, WorldTyped
<1>4. /\ supplicant' \in Supplicants \cup {None}
      /\ \/ UNCHANGED supplicant \/ supplicant' = None
         \/ /\ Runs
            /\ supplicant'.own = supplicant.own /\ supplicant'.current = supplicant.current
  <2>1. CASE Associate
    BY <1>1, <2>1 DEF Associate, Runs, WorldTyped, Supplicants
  <2>2. CASE Drop
    BY <1>1, <2>2, OfflineTyped DEF Drop, Connected, WorldTyped
  <2>3. CASE Crash \/ Tick
    BY <1>1, <2>3 DEF Crash, Tick, world, WorldTyped
  <2> QED BY <2>1, <2>2, <2>3
<1>5. WorldTyped'
  BY <1>1, <1>2, <1>3, <1>4 DEF WorldTyped
<1> QED BY <1>1, <1>2, <1>4, <1>5, SteadyStep

LEMMA StopPanelStep == ASSUME IInv, Stop PROVE IInv'
<1>1. /\ pc' = [h \in Handlers |-> IF h = System THEN "off" ELSE "idle"]
      /\ local' = [h \in Handlers |-> NoLocals]
      /\ memo' \in Tables(Commands, {Done}) /\ disturbed' = FALSE /\ fresh' = FALSE
      /\ UNCHANGED <<files, newest, supplicant, radio>>
  BY NothingTyped DEF Stop, world, saved
<1>2. WorldTyped'
  BY <1>1 DEF IInv, Typed, WorldTyped
<1>3. ASSUME NEW h \in Handlers
      PROVE  /\ pc'[h] \in {"idle", "off"} /\ local'[h] = NoLocals
             /\ LocalsAt(h)' /\ AtStep(h)' /\ Quiet(h)'
  BY <1>1, LocalsTyped DEF LocalsAt, AtStep, Quiet, Connecting
<1>4. Typed'
  BY <1>1, <1>2, <1>3, LocalsTyped DEF Typed, Labels
<1> QED BY <1>3, <1>4 DEF IInv, Alone, Handlers

LEMMA StartPanelStep == ASSUME IInv, Start PROVE IInv'
<1>1. /\ pc[System] = "off" /\ Goto(System, "boot") /\ supplicant' \in {None, supplicant}
      /\ fresh' \in BOOLEAN
      /\ UNCHANGED <<files, newest, radio, memo, local, disturbed>>
  BY DEF Start, saved
<1>2. WorldTyped'
  BY <1>1 DEF IInv, Typed, WorldTyped
<1>3. /\ pc' \in [Handlers -> Labels]
      /\ \A h \in Handlers : pc'[h] = pc[h] \/ (Quiet(h) /\ pc'[h] \in {"idle", "boot"})
  BY <1>1 DEF IInv, Typed, Goto, Labels, Quiet, Handlers
<1> QED BY <1>1, <1>2, <1>3, SteadyStep

-----------------------------------------------------------------------------
(***************************************************************************)
(* The theorems.                                                           *)
(***************************************************************************)
LEMMA InitEstablishes == ASSUME Init PROVE IInv
<1>1. ASSUME NEW h \in Handlers
      PROVE  /\ pc[h] \in {"idle", "boot"} /\ local[h] = NoLocals
             /\ LocalsAt(h) /\ AtStep(h) /\ Quiet(h)
  BY LocalsTyped DEF Init, LocalsAt, AtStep, Quiet, Connecting
<1>2. supplicant \in Supplicants \cup {None}
  BY SupplicantsTyped DEF Init, Configs, Keys
<1>3. Typed
  BY <1>1, <1>2, LocalsTyped, NothingTyped DEF Init, Typed, WorldTyped, Labels
<1> QED BY <1>1, <1>3 DEF IInv, Alone, Handlers

LEMMA Preserved == ASSUME IInv, [Next]_vars PROVE IInv'
<1>1. CASE UNCHANGED vars
  <2>1. UNCHANGED <<files, newest, supplicant, radio, memo, pc, local, disturbed, fresh>>
    BY <1>1 DEF vars, world, saved, history
  <2>2. WorldTyped' /\ pc \in [Handlers -> Labels]
    BY <2>1 DEF IInv, Typed, WorldTyped
  <2> QED BY <2>1, <2>2, SteadyStep
<1>2. ASSUME NEW u \in Users, Request(u)
      PROVE  IInv'
  BY <1>2, ConnectStep, SwitchStep, UnblockStep DEF Request
<1>3. ASSUME NEW h \in Handlers, Shared(h)
      PROVE  IInv'
  BY <1>3, PrepareStep, StopStep, AwaitStep, ForceKillStep, WriteStep, StartStep, StartedStep,
     PingStep, SelectStep, AddStep, PollStep, AddressStep, RespondStep
  DEF Shared
<1>4. ASSUME Reconnect
      PROVE  IInv'
  BY <1>4, AutoConnectStep, ProbeStep, QuickStep, ChooseStep DEF Reconnect
<1>5. ASSUME NEW h \in Handlers, Step(h)
      PROVE  IInv'
  BY <1>3, <1>4, <1>5, ToggleStep DEF Step
<1> QED BY <1>1, <1>2, <1>5, NetworkStep, StopPanelStep, StartPanelStep DEF Next

\* The invariant is inductive: every step of a request, of the reconnect, of the
\* supplicant, of time and of the panel keeps it.
THEOREM Inductive ==
  /\ Init => IInv
  /\ IInv /\ [Next]_vars => IInv'
BY InitEstablishes, Preserved

LEMMA Invariance == Spec => []IInv
BY Inductive, PTL DEF Spec

\* The files, the supplicant, the memo and the locals of the goroutines keep their types,
\* whatever overlaps: the supplicant is never started without a file, and no loop counts
\* past its limit (wifi_handlers.go:103-127, 284, 860-906, 1310, 1450-1515).
THEOREM TypeCorrect == Spec => []TypeOK
<1>1. IInv => TypeOK
  BY DEF IInv, Typed, WorldTyped, TypeOK
<1> QED BY <1>1, Invariance, PTL

\* Only the polling of a user's request that has found the supplicant connected goes on to
\* its address.
LEMMA Arrival ==
  ASSUME IInv, [Next]_vars, NEW u \in Users, Becomes(u, "address")
  PROVE  pc[u] = "poll" /\ Connected
<1>1. pc'[u] = "address" /\ pc'[u] # pc[u] /\ u \in Handlers /\ pc \in [Handlers -> Labels]
  BY DEF Becomes, Handlers, IInv, Typed
<1>2. ASSUME NEW h, NEW label, Goto(h, label), label # "address"
      PROVE  FALSE
  BY <1>1, <1>2 DEF Goto
<1>3. ASSUME UNCHANGED pc
      PROVE  FALSE
  BY <1>1, <1>3
<1>4. ASSUME NEW h, Goto(h, "address")
      PROVE  h = u
  BY <1>1, <1>4 DEF Goto
<1>5. ~UNCHANGED vars /\ ~Associate /\ ~Drop /\ ~Crash /\ ~Tick
  BY <1>3 DEF vars, Associate, Drop, Crash, Tick
<1>6. ~Stop /\ ~Start
  BY <1>1, <1>2 DEF Stop, Start
<1>7. ASSUME NEW v \in Users
      PROVE  ~Request(v) /\ ~toggleWiFi(v) /\ ~SoftwareSwitch(v)
  BY <1>2, <1>3
  DEF Request, connectWiFi, wifiToggle, wifiSoftwareSwitch, Switch, wifiUnblock, toggleWiFi,
      SoftwareSwitch
<1>8. ~Reconnect
  BY <1>2, <1>3
  DEF Reconnect, autoConnect, Probe, QuickPoll, Choose, Ends, Retry, Leaves
<1>9. PICK h \in Handlers : Shared(h)
  BY <1>5, <1>6, <1>7, <1>8 DEF Next, Step
<1>10. AfterStop(h) # "address"
  BY DEF AfterStop
<1>11. ~Prepare(h) /\ ~stopWpaSupplicant(h) /\ ~AwaitStop(h) /\ ~ForceKill(h)
  BY <1>2, <1>10 DEF Prepare, stopWpaSupplicant, AwaitStop, ForceKill
<1>12. ~WriteConfig(h) /\ ~startWpaSupplicant(h) /\ ~Started(h)
  BY <1>2 DEF WriteConfig, startWpaSupplicant, Started, StartFailed
<1>13. ~waitForWpaCliConnection(h)
  BY <1>2, <1>3 DEF waitForWpaCliConnection, Retry, Ends, Leaves
<1>14. ~SelectFirst(h) /\ ~AddNetwork(h)
  BY <1>2 DEF SelectFirst, AddNetwork
<1>15. ~AwaitAddress(h) /\ ~Respond(h)
  BY <1>2 DEF AwaitAddress, Respond, Ends
<1>16. PollStatus(h)
  BY <1>9, <1>11, <1>12, <1>13, <1>14, <1>15 DEF Shared
<1>17. CASE Connected /\ Leaves(h, "address")
  BY <1>4, <1>16, <1>17 DEF PollStatus, Leaves
<1>18. CASE Retry(h, PollAttempts, Leaves(h, IF local[h].byFile THEN "address" ELSE "failed"))
  <2>1. local[h].byFile /\ Leaves(h, "address")
    BY <1>2, <1>3, <1>18 DEF Retry, Leaves
  <2>2. h = u
    BY <1>4, <2>1 DEF Leaves
  <2> QED BY <2>1, <2>2, Own
<1>19. CASE UNCHANGED pc \/ Leaves(h, "failed")
  BY <1>2, <1>3, <1>19 DEF Leaves
<1> QED BY <1>16, <1>17, <1>18, <1>19 DEF PollStatus

\* A request that nothing overlapped and that finds the supplicant connected has found its
\* own network and key, though the memo may have kept the supplicant of an earlier request
\* from being killed: then the new one has not started, and the request has failed
\* (wifi_handlers.go:103-127, 860-906).
THEOREM NetworkIsItsOwn == Spec => ReportsItsNetwork
<1>1. IInv /\ [Next]_vars =>
        [\A h \in Users : (Becomes(h, "address") /\ ~disturbed) =>
           supplicant.current = [net |-> local[h].net, key |-> local[h].key]]_vars
  BY Arrival, Own DEF AtStep, Asked, Connected, Handlers
<1> QED BY <1>1, Invariance, PTL DEF Spec, ReportsItsNetwork
=============================================================================
