------------------------- MODULE TorRouting_proofs -------------------------
(***************************************************************************)
(* Theorems of TorRouting: its types; and, when operations start further   *)
(* apart than the executor remembers, that the panel's word about the      *)
(* redirection to Tor is so and no rule is there twice, for any handlers,  *)
(* interfaces and ports, any command that may fail, and wherever a request *)
(* is cut off by a restart of the panel or of the machine.                 *)
(***************************************************************************)
EXTENDS TorRouting, TLAPS

-----------------------------------------------------------------------------
(***************************************************************************)
(* The types, and what each step of a handler has in its locals.           *)
(***************************************************************************)
WorldTyped ==
  /\ iface \in Ifaces
  /\ torrc \in Ports \cup {Off}
  /\ tor \in Ports \cup {Off}
  /\ boot \in BOOLEAN
  /\ rules \in [Rules -> 0..MaxCopies]
  /\ saved \in [Rules -> 0..MaxCopies]
  /\ memo \in Tables(Commands, {ok, error})

OfTheService == {"idle", "start", "enable", "stop", "disable"}
Dropping == {"deleteDNS", "deleteTCP", "saveDropped", "disabled"}
Adding == {"addDNS", "addTCP", "rollback", "saveAdded", "enabled"}

LocalsAt(label, me) ==
  /\ label \in OfTheService => me = NoLocals
  /\ label \notin {"deleteDNS", "deleteTCP"} => me.tries = 0
  /\ label \in Dropping \cup Adding => me.drop \in Targets
  /\ label \in Adding => me.add \in Targets

Typed ==
  /\ WorldTyped
  /\ pc \in [Handlers -> Labels]
  /\ local \in [Handlers -> Locals]
  /\ \A h \in Handlers : LocalsAt(pc[h], local[h])

-----------------------------------------------------------------------------
(***************************************************************************)
(* What is so at each step when operations are apart.                      *)
(***************************************************************************)
\* The commands that the operation at this step has not asked for, so that the executor
\* will run them: it remembers nothing when the operation starts.
Fresh(label, me, c) ==
  \/ label = "drop"
  \/ /\ c.op = "delete"
     /\ \/ label = "deleteDNS" /\ (c.rule.proto = "tcp" \/ me.tries = 0)
        \/ label = "deleteTCP" /\ c.rule.proto = "tcp" /\ me.tries = 0
  \/ /\ c.op = "add"
     /\ \/ label \in {"deleteDNS", "deleteTCP", "saveDropped", "addDNS"}
        \/ label = "addTCP" /\ c.rule.proto = "tcp"
  \/ /\ c.op = "rollback"
     /\ label \in {"deleteDNS", "deleteTCP", "saveDropped", "addDNS", "addTCP", "rollback"}

\* The copies of the two rules of the operation's target.
Copies(label, me, table) ==
  LET udp == table[Rule("udp", me.drop)]
      tcp == table[Rule("tcp", me.drop)] IN
  /\ label = "deleteDNS" /\ me.tries > 0 => udp = 0
  /\ label = "deleteTCP" => udp = 0 /\ (me.tries > 0 => tcp = 0)
  /\ label \in {"saveDropped", "addDNS", "disabled"} => udp = 0 /\ tcp = 0
  /\ label \in {"addTCP", "rollback"} => udp = 1 /\ tcp = 0
  /\ label \in {"saveAdded", "enabled"} => udp = 1 /\ tcp = 1
  /\ label = "failed" /\ me.drop # Off => udp = 0 /\ tcp = 0

\* What the operation adds is what it drops: both are the interface and ports that it
\* read, and these stay as they are while it is under way.
AtStep(label, me, current, memory, table) ==
  /\ label = "drop" => me.add \in {Off, current}
  /\ label \in Dropping => me.add \in {Off, me.drop}
  /\ label \in Adding => me.add = me.drop
  /\ \A c \in Commands : Fresh(label, me, c) => ~Known(memory, c)
  /\ Copies(label, me, table)

Apart ==
  /\ rules \in [Rules -> 0..1]
  /\ saved \in [Rules -> 0..1]
  /\ \A g, h \in Handlers : pc[g] # "idle" /\ pc[h] # "idle" => g = h
  /\ \A h \in Handlers : AtStep(pc[h], local[h], CurrentTarget, memo, rules)

IInv == Typed /\ (Spaced => Apart)

-----------------------------------------------------------------------------
(***************************************************************************)
(* Lemmas about commands, the memo and the locals.                         *)
(***************************************************************************)
LEMMA NoLocalsTyped == NoLocals \in Locals
BY DEF NoLocals, Locals

LEMMA RulesTyped ==
  ASSUME NEW proto \in {"udp", "tcp"}, NEW t \in Targets
  PROVE  /\ Rule(proto, t) \in Rules
         /\ \A op \in {"add", "delete", "rollback"} :
              /\ RuleCommand(op, proto, t) \in Commands
              /\ RuleCommand(op, proto, t).op = op
              /\ RuleCommand(op, proto, t).rule = Rule(proto, t)
              /\ RuleCommand(op, proto, t).rule.proto = proto
BY DEF Rule, Rules, RuleCommand, Commands

LEMMA RulesDiffer ==
  ASSUME NEW t
  PROVE  Rule("udp", t) # Rule("tcp", t)
<1>1. Rule("udp", t).proto # Rule("tcp", t).proto
  BY DEF Rule
<1> QED BY <1>1

LEMMA CommandTyped ==
  ASSUME NEW op \in Systemctl \cup {"save"}
  PROVE  Command(op) \in Commands /\ Command(op).op = op
BY DEF Command, Commands

LEMMA CurrentTyped == WorldTyped => CurrentTarget \in Targets
BY TorAssumption DEF WorldTyped, CurrentTarget, Targets

\* A command whose result is remembered, or will be, leaves what is known of the others.
LEMMA Asked ==
  ASSUME memo \in Tables(Commands, {ok, error}), NEW c \in Commands,
         NEW result \in {ok, error}, Answer(c, result) \/ Ran(c, result)
  PROVE  /\ memo' \in Tables(Commands, {ok, error})
         /\ \A d \in Commands \ {c} : memo'[d] = memo[d]
<1>1. CASE Answer(c, result)
  BY <1>1 DEF Answer
<1>2. CASE Ran(c, result)
  <2>1. Remembered(result) \in [result : {ok, error}, left : 1..TTL]
    BY MemoAssumption DEF Remembered
  <2> QED BY <1>2, <2>1 DEF Ran, Tables
<1> QED BY <1>1, <1>2

LEMMA AgedTyped ==
  ASSUME memo \in Tables(Commands, {ok, error})
  PROVE  /\ Aged(memo) \in Tables(Commands, {ok, error})
         /\ \A c \in Commands : ~Known(memo, c) => ~Known(Aged(memo), c)
<1> SUFFICES ASSUME NEW c \in Commands
             PROVE  /\ Older(memo[c]) \in {Forgotten} \cup [result : {ok, error}, left : 1..TTL]
                    /\ memo[c].left <= 0 => Older(memo[c]).left <= 0
  <2>1. DOMAIN memo = Commands
    BY DEF Tables
  <2>2. \A c \in Commands : memo[c].left \in Int /\ Older(memo[c]).left \in Int
    BY MemoAssumption DEF Tables, Forgotten, Older
  <2> QED BY <2>1, <2>2 DEF Aged, Tables, Known
<1>1. CASE memo[c] = Forgotten
  BY <1>1 DEF Older, Forgotten
<1>2. CASE memo[c] \in [result : {ok, error}, left : 1..TTL]
  BY <1>2, MemoAssumption DEF Older
<1> QED BY <1>1, <1>2 DEF Tables

LEMMA NothingTyped ==
  NothingRemembered(Commands) \in Tables(Commands, {ok, error})
BY DEF NothingRemembered, Tables
-----------------------------------------------------------------------------
(***************************************************************************)
(* What each command does.                                                 *)
(***************************************************************************)
LEMMA DeleteEffect ==
  ASSUME WorldTyped, NEW op \in {"delete", "rollback"}, NEW proto \in {"udp", "tcp"},
         NEW t \in Targets, NEW result \in {ok, error},
         Delete(RuleCommand(op, proto, t), result)
  PROVE  /\ WorldTyped' /\ UNCHANGED <<iface, torrc, saved>>
         /\ \A d \in Commands \ {RuleCommand(op, proto, t)} : memo'[d] = memo[d]
         /\ \A q \in Rules \ {Rule(proto, t)} : rules'[q] = rules[q]
         /\ rules'[Rule(proto, t)] \in {rules[Rule(proto, t)], rules[Rule(proto, t)] - 1}
         /\ rules[Rule(proto, t)] = 0 => rules'[Rule(proto, t)] = 0
         /\ ~Known(memo, RuleCommand(op, proto, t)) /\ rules[Rule(proto, t)] > 0 =>
              rules'[Rule(proto, t)] = rules[Rule(proto, t)] - 1
<1> DEFINE c == RuleCommand(op, proto, t)
           r == Rule(proto, t)
<1>1. c \in Commands /\ c.rule = r /\ r \in Rules
  BY RulesTyped
<1> HIDE DEF c, r
<1>2. /\ memo' \in Tables(Commands, {ok, error})
      /\ \A d \in Commands \ {c} : memo'[d] = memo[d]
  BY <1>1, Asked DEF Delete, WorldTyped, c
<1>3. CASE Answer(c, result)
  <2>1. UNCHANGED <<iface, torrc, tor, boot, rules, saved>> /\ Known(memo, c)
    BY <1>3 DEF Answer, world, service
  <2> QED BY <1>1, <1>2, <2>1 DEF WorldTyped, c, r
<1>4. CASE /\ Ran(c, result)
           /\ rules' = [rules EXCEPT ![r] = IF @ > 0 THEN @ - 1 ELSE 0]
           /\ UNCHANGED <<iface, service, saved>>
  <2>1. UNCHANGED <<iface, torrc, tor, boot, saved>>
    BY <1>4 DEF service
  <2>2. rules[r] \in 0..MaxCopies /\ MaxCopies \in Nat
    BY <1>1, TorAssumption DEF WorldTyped
  <2>3. rules'[r] = IF rules[r] > 0 THEN rules[r] - 1 ELSE 0
    BY <1>1, <1>4 DEF WorldTyped
  <2>4. rules' \in [Rules -> 0..MaxCopies] /\ \A q \in Rules \ {r} : rules'[q] = rules[q]
    BY <1>1, <1>4, <2>2, <2>3 DEF WorldTyped
  <2> QED BY <1>2, <2>1, <2>2, <2>3, <2>4 DEF WorldTyped, c, r
<1> QED BY <1>1, <1>3, <1>4 DEF Delete, c

LEMMA AddEffect ==
  ASSUME WorldTyped, NEW proto \in {"udp", "tcp"}, NEW t \in Targets,
         NEW result \in {ok, error}, Add(RuleCommand("add", proto, t), result)
  PROVE  /\ WorldTyped' /\ UNCHANGED <<iface, torrc, saved>>
         /\ \A d \in Commands \ {RuleCommand("add", proto, t)} : memo'[d] = memo[d]
         /\ \A q \in Rules \ {Rule(proto, t)} : rules'[q] = rules[q]
         /\ ~Known(memo, RuleCommand("add", proto, t)) =>
              rules'[Rule(proto, t)] = rules[Rule(proto, t)] + (IF result = ok THEN 1 ELSE 0)
<1> DEFINE c == RuleCommand("add", proto, t)
           r == Rule(proto, t)
<1>1. c \in Commands /\ c.rule = r /\ r \in Rules
  BY RulesTyped
<1> HIDE DEF c, r
<1>2. /\ memo' \in Tables(Commands, {ok, error})
      /\ \A d \in Commands \ {c} : memo'[d] = memo[d]
  BY <1>1, Asked DEF Add, WorldTyped, c
<1>3. rules[r] \in 0..MaxCopies /\ MaxCopies \in Nat
  BY <1>1, TorAssumption DEF WorldTyped
<1>4. CASE Answer(c, result)
  <2>1. UNCHANGED <<iface, torrc, tor, boot, rules, saved>> /\ Known(memo, c)
    BY <1>4 DEF Answer, world, service
  <2> QED BY <1>1, <1>2, <2>1 DEF WorldTyped, c, r
<1>5. CASE /\ result = ok /\ rules[r] < MaxCopies
           /\ rules' = [rules EXCEPT ![r] = @ + 1]
           /\ UNCHANGED <<iface, service, saved>>
  <2>1. UNCHANGED <<iface, torrc, tor, boot, saved>>
    BY <1>5 DEF service
  <2>2. rules'[r] = rules[r] + 1
    BY <1>1, <1>5 DEF WorldTyped
  <2>3. rules' \in [Rules -> 0..MaxCopies] /\ \A q \in Rules \ {r} : rules'[q] = rules[q]
    BY <1>1, <1>3, <1>5 DEF WorldTyped
  <2> QED BY <1>2, <1>5, <2>1, <2>2, <2>3 DEF WorldTyped, c, r
<1>6. CASE result = error /\ UNCHANGED rules /\ UNCHANGED <<iface, service, saved>>
  <2>1. UNCHANGED <<iface, torrc, tor, boot, rules, saved>> /\ result # ok
    BY <1>6 DEF service, ok, error
  <2> QED BY <1>2, <1>3, <2>1 DEF WorldTyped, c, r
<1> QED BY <1>1, <1>4, <1>5, <1>6 DEF Add, c

LEMMA SaveEffect ==
  ASSUME WorldTyped, Save
  PROVE  /\ WorldTyped' /\ UNCHANGED <<iface, torrc, rules>> /\ saved' \in {saved, rules}
         /\ \A d \in Commands : d.op # "save" => memo'[d] = memo[d]
<1>1. Command("save") \in Commands /\ Command("save").op = "save"
  BY CommandTyped
<1>2. /\ memo' \in Tables(Commands, {ok, error})
      /\ \A d \in Commands \ {Command("save")} : memo'[d] = memo[d]
  BY <1>1, Asked DEF Save, WorldTyped
<1>3. UNCHANGED <<iface, torrc, tor, boot, rules>> /\ saved' \in {saved, rules}
  BY DEF Save, Answer, world, service
<1> QED BY <1>1, <1>2, <1>3 DEF WorldTyped

LEMMA ServiceEffect ==
  ASSUME WorldTyped,
         \/ \E result \in {ok, error} : StartTor(result)
         \/ StopTor \/ SetBoot("enable", TRUE) \/ SetBoot("disable", FALSE)
  PROVE  WorldTyped' /\ UNCHANGED <<iface, torrc, rules, saved>>
<1>1. \A op \in Systemctl : Command(op) \in Commands
  BY CommandTyped
<1>2. memo' \in Tables(Commands, {ok, error})
  BY <1>1, Asked DEF StartTor, StopTor, SetBoot, Systemctl, WorldTyped
<1>3. /\ UNCHANGED <<iface, torrc, rules, saved>>
      /\ tor' \in {tor, torrc, Off} /\ boot' \in {boot, TRUE, FALSE}
  BY DEF StartTor, StopTor, SetBoot, Answer, world, service
<1> QED BY <1>2, <1>3 DEF WorldTyped

-----------------------------------------------------------------------------
(***************************************************************************)
(* How a step of one handler keeps the invariant.                          *)
(***************************************************************************)
\* The handler h goes on to a step with these locals, the others stay where they are.
Moves(h, label, me) ==
  /\ pc' \in [Handlers -> Labels] /\ local' \in [Handlers -> Locals]
  /\ pc'[h] = label /\ local'[h] = me
  /\ \A g \in Handlers \ {h} : pc'[g] = pc[g] /\ local'[g] = local[g]

LEMMA MovesOn ==
  ASSUME Typed, NEW h \in Handlers, NEW label \in Labels, Goto(h, label), UNCHANGED local
  PROVE  Moves(h, label, local[h])
BY DEF Typed, Goto, Moves

LEMMA MovesWith ==
  ASSUME Typed, NEW h \in Handlers, NEW label \in Labels, NEW me \in Locals,
         Goto(h, label), local' = [local EXCEPT ![h] = me]
  PROVE  Moves(h, label, me)
BY DEF Typed, Goto, Moves

LEMMA TypedStep ==
  ASSUME Typed, NEW h \in Handlers, NEW label \in Labels, NEW me \in Locals,
         Moves(h, label, me), WorldTyped', LocalsAt(label, me)
  PROVE  Typed'
<1>1. ASSUME NEW g \in Handlers
      PROVE  LocalsAt(pc[g], local[g])'
  BY DEF Typed, Moves
<1> QED BY <1>1 DEF Typed, Moves

\* Nothing is said of a handler that serves no request.
LEMMA IdleAtStep ==
  ASSUME NEW me, NEW current, NEW memory, NEW table
  PROVE  AtStep("idle", me, current, memory, table)
BY DEF AtStep, Fresh, Copies, Dropping, Adding

\* A step of the one request, or the first step of one when there is none.
LEMMA ApartStep ==
  ASSUME Apart, NEW h \in Handlers, NEW label \in Labels, NEW me,
         Moves(h, label, me), \A g \in Handlers \ {h} : pc[g] = "idle",
         rules' \in [Rules -> 0..1], saved' \in [Rules -> 0..1],
         AtStep(label, me, CurrentTarget', memo', rules')
  PROVE  Apart'
<1>1. ASSUME NEW g \in Handlers
      PROVE  AtStep(pc'[g], local'[g], CurrentTarget', memo', rules')
  BY IdleAtStep DEF Moves
<1>2. \A f, g \in Handlers : pc'[f] # "idle" /\ pc'[g] # "idle" => f = g
  BY DEF Moves
<1> QED BY <1>1, <1>2 DEF Apart

LEMMA Others ==
  ASSUME Apart, NEW h \in Handlers, pc[h] # "idle"
  PROVE  \A g \in Handlers \ {h} : pc[g] = "idle"
BY DEF Apart

LEMMA Own ==
  ASSUME Apart, NEW h \in Handlers
  PROVE  AtStep(pc[h], local[h], CurrentTarget, memo, rules)
BY DEF Apart

\* Where no command on a rule is asked for, those that were not asked for still are not.
LEMMA StillFresh ==
  ASSUME NEW label, NEW me, NEW next, NEW new, NEW current, NEW table,
         AtStep(label, me, current, memo, table),
         \A c \in Commands : Fresh(next, new, c) => Fresh(label, me, c) /\ memo'[c] = memo[c]
  PROVE  \A c \in Commands : Fresh(next, new, c) => ~Known(memo', c)
BY DEF AtStep, Known
LEMMA HandlerStep ==
  ASSUME IInv, NEW h \in Handlers, NEW label \in Labels, NEW me \in Locals,
         Moves(h, label, me), WorldTyped', LocalsAt(label, me),
         pc[h] = "idle" => (Spaced => Quiet),
         Spaced /\ Apart =>
           /\ rules' \in [Rules -> 0..1] /\ saved' \in [Rules -> 0..1]
           /\ AtStep(label, me, CurrentTarget', memo', rules')
  PROVE  IInv'
<1>1. Typed'
  BY TypedStep DEF IInv
<1>2. ASSUME Spaced
      PROVE  Apart'
  <2>1. Apart
    BY <1>2 DEF IInv
  <2>2. \A g \in Handlers \ {h} : pc[g] = "idle"
    BY <1>2, <2>1, Others DEF Quiet
  <2> QED BY <1>2, <2>1, <2>2, ApartStep
<1> QED BY <1>1, <1>2 DEF IInv

-----------------------------------------------------------------------------
(***************************************************************************)
(* The requests about the service.                                         *)
(***************************************************************************)
LEMMA ServiceStep ==
  ASSUME IInv, NEW h \in Handlers, pc[h] \in OfTheService,
         NEW label \in OfTheService \cup {"failed"}, Moves(h, label, local[h]),
         WorldTyped', UNCHANGED <<rules, saved>>, pc[h] = "idle" => (Spaced => Quiet)
  PROVE  IInv'
<1>1. local[h] = NoLocals
  BY DEF IInv, Typed, LocalsAt
<1>2. LocalsAt(label, NoLocals)
  BY DEF LocalsAt, NoLocals, OfTheService, Dropping, Adding
<1>3. AtStep(label, NoLocals, CurrentTarget', memo', rules')
  BY DEF AtStep, Fresh, Copies, NoLocals, OfTheService, Dropping, Adding
<1>4. label \in Labels
  BY DEF OfTheService, Labels
<1> QED BY <1>1, <1>2, <1>3, <1>4, NoLocalsTyped, HandlerStep DEF Apart

LEMMA ServiceSteps ==
  ASSUME IInv, NEW h \in Handlers,
         \/ \E port \in Ports : configureTor(h, port)
         \/ enableTor(h) \/ StartStep(h) \/ EnableStep(h)
         \/ disableTor(h) \/ StopStep(h) \/ DisableStep(h)
  PROVE  IInv'
<1>1. WorldTyped /\ Typed
  BY DEF IInv, Typed
<1>2. ASSUME NEW port \in Ports, configureTor(h, port)
      PROVE  IInv'
  <2>1. /\ pc[h] = "idle" /\ (Spaced => Quiet) /\ torrc' \in {port, torrc}
        /\ UNCHANGED <<iface, tor, boot, rules, saved, memo, pc, local>>
    BY <1>2 DEF configureTor, WriteTorrc, Begins
  <2>2. WorldTyped' /\ Moves(h, "idle", local[h])
    BY <1>1, <2>1 DEF WorldTyped, Moves, Typed
  <2> QED BY <2>1, <2>2, ServiceStep DEF OfTheService
<1>3. CASE enableTor(h)
  <2>1. PICK label \in {"failed", "start"} : Goto(h, label)
    BY <1>3 DEF enableTor
  <2>2. /\ pc[h] = "idle" /\ (Spaced => Quiet) /\ torrc' \in {DefaultPort, torrc}
        /\ UNCHANGED <<iface, tor, boot, rules, saved, memo, local>>
    BY <1>3 DEF enableTor, WriteTorrc, Begins
  <2>3. WorldTyped'
    BY <1>1, <2>2, TorAssumption DEF WorldTyped
  <2>4. Moves(h, label, local[h])
    BY <1>1, <2>1, <2>2, MovesOn DEF Labels
  <2> QED BY <2>1, <2>2, <2>3, <2>4, ServiceStep DEF OfTheService
<1>4. CASE disableTor(h)
  <2>1. /\ pc[h] = "idle" /\ (Spaced => Quiet) /\ Goto(h, "stop")
        /\ UNCHANGED <<iface, torrc, tor, boot, rules, saved, memo, local>>
    BY <1>4 DEF disableTor, Begins, world, service
  <2>2. WorldTyped' /\ Moves(h, "stop", local[h])
    BY <1>1, <2>1, MovesOn DEF WorldTyped, Labels
  <2> QED BY <2>1, <2>2, ServiceStep DEF OfTheService
<1>5. CASE StartStep(h) \/ EnableStep(h) \/ StopStep(h) \/ DisableStep(h)
  <2>1. PICK label \in {"enable", "failed", "disable", "idle"} : Goto(h, label)
    BY <1>5 DEF StartStep, EnableStep, StopStep, DisableStep
  <2>2. pc[h] \in OfTheService \ {"idle"} /\ UNCHANGED local
    BY <1>5 DEF StartStep, EnableStep, StopStep, DisableStep, OfTheService
  <2>3. \/ \E result \in {ok, error} : StartTor(result)
        \/ StopTor \/ SetBoot("enable", TRUE) \/ SetBoot("disable", FALSE)
    BY <1>5 DEF StartStep, EnableStep, StopStep, DisableStep
  <2>4. WorldTyped' /\ UNCHANGED <<rules, saved>>
    BY <1>1, <2>3, ServiceEffect
  <2>5. Moves(h, label, local[h])
    BY <1>1, <2>1, <2>2, MovesOn DEF Labels
  <2> QED BY <2>1, <2>2, <2>4, <2>5, ServiceStep DEF OfTheService
<1> QED BY <1>2, <1>3, <1>4, <1>5

-----------------------------------------------------------------------------
(***************************************************************************)
(* The requests about the rules: they begin.                               *)
(***************************************************************************)
LEMMA BeginRulesStep ==
  ASSUME IInv, NEW h \in Handlers, enableTorIptables(h) \/ disableTorIptables(h)
  PROVE  IInv'
<1>1. /\ pc[h] = "idle" /\ (Spaced => Quiet) /\ Goto(h, "drop")
      /\ UNCHANGED <<iface, torrc, tor, boot, rules, saved, memo>>
      /\ \/ local' = [local EXCEPT ![h].add = CurrentTarget]
         \/ UNCHANGED local
  BY DEF enableTorIptables, disableTorIptables, Begins, world, service
<1>2. WorldTyped /\ Typed /\ local[h] = NoLocals
  BY <1>1 DEF IInv, Typed, LocalsAt, OfTheService
<1>3. CurrentTarget \in Targets /\ CurrentTarget' = CurrentTarget
  BY <1>1, <1>2, CurrentTyped DEF CurrentTarget
<1>4. PICK add \in {Off, CurrentTarget} : Moves(h, "drop", [NoLocals EXCEPT !.add = add])
  <2>1. CASE local' = [local EXCEPT ![h].add = CurrentTarget]
    <3> DEFINE new == [NoLocals EXCEPT !.add = CurrentTarget]
    <3>1. new \in Locals
      BY <1>3 DEF NoLocals, Locals
    <3>2. local' = [local EXCEPT ![h] = new]
      BY <1>2, <2>1
    <3> HIDE DEF new
    <3>3. Moves(h, "drop", new)
      BY <1>1, <1>2, <3>1, <3>2, MovesWith DEF Labels
    <3> QED BY <3>3 DEF new
  <2>2. CASE UNCHANGED local
    <3>1. NoLocals = [NoLocals EXCEPT !.add = Off]
      BY DEF NoLocals
    <3> QED BY <1>1, <1>2, <2>2, <3>1, MovesOn DEF Labels
  <2> QED BY <1>1, <2>1, <2>2
<1> DEFINE me == [NoLocals EXCEPT !.add = add]
<1>5. me \in Locals /\ me.add = add /\ me.tries = 0
  BY <1>3 DEF NoLocals, Locals
<1> HIDE DEF me
<1>6. WorldTyped' /\ LocalsAt("drop", me)
  BY <1>1, <1>2, <1>5 DEF WorldTyped, LocalsAt, OfTheService, Dropping, Adding
<1>7. ASSUME Spaced
      PROVE  AtStep("drop", me, CurrentTarget', memo', rules')
  <2>1. \A c \in Commands : ~Known(memo', c)
    BY <1>1, <1>7 DEF Quiet
  <2> QED BY <1>3, <1>5, <2>1 DEF AtStep, Copies, Dropping, Adding
<1> QED BY <1>1, <1>4, <1>5, <1>6, <1>7, HandlerStep DEF me, Labels, Apart

LEMMA ReadDroppedStep ==
  ASSUME IInv, NEW h \in Handlers, ReadDropped(h)
  PROVE  IInv'
<1> DEFINE me == [local[h] EXCEPT !.drop = CurrentTarget]
<1>1. /\ pc[h] = "drop" /\ Goto(h, "deleteDNS")
      /\ local' = [local EXCEPT ![h] = me]
      /\ UNCHANGED <<iface, torrc, tor, boot, rules, saved, memo>>
  BY DEF ReadDropped, world, service
<1>2. WorldTyped /\ Typed /\ local[h] \in Locals /\ local[h].tries = 0
  BY <1>1 DEF IInv, Typed, LocalsAt
<1>3. CurrentTarget \in Targets /\ CurrentTarget' = CurrentTarget
  BY <1>1, <1>2, CurrentTyped DEF CurrentTarget
<1>4. me \in Locals /\ me.drop = CurrentTarget /\ me.add = local[h].add /\ me.tries = 0
  BY <1>2, <1>3 DEF Locals
<1> HIDE DEF me
<1>5. Moves(h, "deleteDNS", me)
  BY <1>1, <1>2, <1>4, MovesWith DEF Labels
<1>6. WorldTyped' /\ LocalsAt("deleteDNS", me)
  BY <1>1, <1>2, <1>3, <1>4 DEF WorldTyped, LocalsAt, OfTheService, Dropping, Adding
<1>7. ASSUME Apart
      PROVE  AtStep("deleteDNS", me, CurrentTarget', memo', rules')
  <2>1. AtStep("drop", local[h], CurrentTarget, memo, rules)
    BY <1>1, <1>7, Own
  <2>2. \A c \in Commands : ~Known(memo', c)
    BY <1>1, <2>1 DEF AtStep, Fresh
  <2> QED BY <1>4, <2>1, <2>2 DEF AtStep, Copies, Dropping, Adding
<1> QED BY <1>1, <1>4, <1>5, <1>6, <1>7, HandlerStep DEF Labels, Apart
-----------------------------------------------------------------------------
(***************************************************************************)
(* The rules are deleted ...                                               *)
(***************************************************************************)
LEMMA DeleteStepKeeps ==
  ASSUME IInv, NEW h \in Handlers, NEW label, NEW proto \in {"udp", "tcp"}, NEW next,
         DeleteStep(h, label, proto, next),
         \/ label = "deleteDNS" /\ proto = "udp" /\ next = "deleteTCP"
         \/ label = "deleteTCP" /\ proto = "tcp" /\ next = "saveDropped"
  PROVE  IInv'
<1> DEFINE t == local[h].drop
           c == RuleCommand("delete", proto, t)
           r == Rule(proto, t)
<1>1. WorldTyped /\ Typed /\ local[h] \in Locals /\ t \in Targets /\ pc[h] = label
  BY DEF DeleteStep, IInv, Typed, LocalsAt, Dropping
<1>2. PICK result \in {ok, error} :
        LET again == result = ok /\ local[h].tries < 4 IN
        /\ Delete(c, result)
        /\ local' = [local EXCEPT ![h].tries = IF again THEN @ + 1 ELSE 0]
        /\ Goto(h, IF again THEN label ELSE next)
  BY DEF DeleteStep
<1> DEFINE again == result = ok /\ local[h].tries < 4
           tries == IF again THEN local[h].tries + 1 ELSE 0
           me == [local[h] EXCEPT !.tries = tries]
           last == IF again THEN label ELSE next
<1>3. /\ me \in Locals /\ me.add = local[h].add /\ me.drop = t /\ me.tries = tries
      /\ tries \in Nat /\ (again => tries > 0) /\ (~again => tries = 0)
  BY <1>1 DEF Locals
<1>4. local' = [local EXCEPT ![h] = me] /\ Goto(h, last)
  BY <1>2
<1>5. last \in Labels /\ last \in {"deleteDNS", "deleteTCP", "saveDropped"}
  BY DEF Labels
<1>6. Moves(h, last, me)
  <2> HIDE DEF me, last
  <2> QED BY <1>1, <1>3, <1>4, <1>5, MovesWith
<1>7. /\ WorldTyped' /\ UNCHANGED <<iface, torrc, saved>>
      /\ \A d \in Commands \ {c} : memo'[d] = memo[d]
      /\ \A q \in Rules \ {r} : rules'[q] = rules[q]
      /\ rules'[r] \in {rules[r], rules[r] - 1}
      /\ rules[r] = 0 => rules'[r] = 0
      /\ ~Known(memo, c) /\ rules[r] > 0 => rules'[r] = rules[r] - 1
  BY <1>1, <1>2, DeleteEffect
<1>8. r \in Rules /\ c \in Commands /\ c.op = "delete" /\ c.rule.proto = proto
  BY <1>1, RulesTyped
<1> HIDE DEF c, r
<1>9. LocalsAt(last, me)
  BY <1>1, <1>3, <1>5 DEF LocalsAt, OfTheService, Dropping, Adding
<1>10. ASSUME Apart
       PROVE  /\ rules' \in [Rules -> 0..1] /\ saved' \in [Rules -> 0..1]
              /\ AtStep(last, me, CurrentTarget', memo', rules')
  <2>1. /\ rules \in [Rules -> 0..1] /\ saved \in [Rules -> 0..1]
        /\ AtStep(label, local[h], CurrentTarget, memo, rules)
    BY <1>1, <1>10, Own DEF Apart
  <2>2. rules' \in [Rules -> 0..1]
    <3>1. \A q \in Rules : rules'[q] \in 0..MaxCopies /\ rules'[q] <= rules[q]
      BY <1>1, <1>7, <1>8, <2>1 DEF WorldTyped
    <3> QED BY <1>7, <2>1, <3>1 DEF WorldTyped
  <2>3. saved' \in [Rules -> 0..1]
    BY <1>7, <2>1
  <2>4. local[h].tries = 0 => ~Known(memo, c)
    BY <1>8, <2>1 DEF AtStep, Fresh
  <2>5. rules'[r] = 0
    <3>1. local[h].tries = 0 \/ rules[r] = 0
      BY <1>1, <1>8, <2>1 DEF AtStep, Copies, Locals, r
    <3>2. rules[r] \in 0..1
      BY <1>8, <2>1
    <3> QED BY <1>7, <2>4, <3>1, <3>2
  <2>6. \A d \in Commands : Fresh(last, me, d) => ~Known(memo', d)
    <3> SUFFICES ASSUME NEW d \in Commands, Fresh(last, me, d)
                 PROVE  ~Known(memo', d)
      OBVIOUS
    <3>1. d # c /\ Fresh(label, local[h], d)
      BY <1>3, <1>8 DEF Fresh
    <3>2. memo'[d] = memo[d]
      BY <1>7, <3>1
    <3> QED BY <2>1, <3>1, <3>2 DEF AtStep, Known
  <2>7. Copies(last, me, rules')
    <3>1. /\ Rule("udp", t) \in Rules /\ Rule("tcp", t) \in Rules
          /\ Rule("udp", t) # Rule("tcp", t)
      BY <1>1, RulesTyped, RulesDiffer
    <3>2. CASE label = "deleteDNS" /\ proto = "udp" /\ next = "deleteTCP"
      <4>1. rules'[Rule("udp", t)] = 0
        BY <2>5, <3>2 DEF r
      <4> HIDE DEF me, last
      <4>2. last \in {"deleteDNS", "deleteTCP"} /\ (last = "deleteTCP" => me.tries = 0)
        BY <1>3, <3>2 DEF last
      <4> QED BY <1>3, <4>1, <4>2 DEF Copies
    <3>3. CASE label = "deleteTCP" /\ proto = "tcp" /\ next = "saveDropped"
      <4>1. rules'[Rule("tcp", t)] = 0
        BY <2>5, <3>3 DEF r
      <4>2. rules'[Rule("udp", t)] = 0
        BY <1>7, <2>1, <3>1, <3>3 DEF AtStep, Copies, r
      <4> HIDE DEF me, last
      <4>3. last \in {"deleteTCP", "saveDropped"}
        BY <3>3 DEF last
      <4> QED BY <1>3, <4>1, <4>2, <4>3 DEF Copies
    <3> QED BY <3>2, <3>3
  <2>8. me.add \in {Off, me.drop}
    BY <1>1, <1>3, <2>1 DEF AtStep, Dropping
  <2> HIDE DEF me, last
  <2> QED BY <1>5, <2>2, <2>3, <2>6, <2>7, <2>8 DEF AtStep, Dropping, Adding
<1> HIDE DEF me, last
<1>11. pc[h] # "idle"
  BY <1>1
<1> QED BY <1>3, <1>5, <1>6, <1>7, <1>9, <1>10, <1>11, HandlerStep

LEMMA SaveDroppedStep ==
  ASSUME IInv, NEW h \in Handlers, SaveDropped(h)
  PROVE  IInv'
<1> DEFINE me == local[h]
           next == IF me.add = Off THEN "disabled" ELSE "addDNS"
<1>1. /\ WorldTyped /\ Typed /\ me \in Locals /\ me.drop \in Targets /\ me.tries = 0
      /\ pc[h] = "saveDropped"
  BY DEF SaveDropped, IInv, Typed, LocalsAt, Dropping
<1>2. /\ WorldTyped' /\ UNCHANGED <<iface, torrc, rules>> /\ saved' \in {saved, rules}
      /\ \A d \in Commands : d.op # "save" => memo'[d] = memo[d]
  BY <1>1, SaveEffect DEF SaveDropped
<1>3. next \in Labels /\ Moves(h, next, me)
  BY <1>1, MovesOn DEF SaveDropped, Labels
<1>4. LocalsAt(next, me)
  BY <1>1 DEF LocalsAt, OfTheService, Dropping, Adding, Locals
<1>5. ASSUME Apart
      PROVE  /\ rules' \in [Rules -> 0..1] /\ saved' \in [Rules -> 0..1]
             /\ AtStep(next, me, CurrentTarget', memo', rules')
  <2>1. AtStep("saveDropped", me, CurrentTarget, memo, rules)
    BY <1>1, <1>5, Own
  <2>2. \A c \in Commands : Fresh(next, me, c) => ~Known(memo', c)
    <3>1. \A c \in Commands :
            Fresh(next, me, c) => Fresh("saveDropped", me, c) /\ c.op # "save"
      BY DEF Fresh
    <3> QED BY <1>2, <2>1, <3>1, StillFresh
  <2>3. Copies(next, me, rules')
    BY <1>2, <2>1 DEF AtStep, Copies
  <2>4. AtStep(next, me, CurrentTarget', memo', rules')
    BY <2>1, <2>2, <2>3 DEF AtStep, Dropping, Adding
  <2> QED BY <1>2, <1>5, <2>4 DEF Apart
<1> HIDE DEF next
<1> QED BY <1>1, <1>2, <1>3, <1>4, <1>5, HandlerStep

-----------------------------------------------------------------------------
(***************************************************************************)
(* ... and added, both or neither.                                         *)
(***************************************************************************)
LEMMA AddDNSStep ==
  ASSUME IInv, NEW h \in Handlers, AddDNS(h)
  PROVE  IInv'
<1> DEFINE me == local[h]
           c == RuleCommand("add", "udp", me.add)
           udp == Rule("udp", me.add)
           tcp == Rule("tcp", me.add)
<1>1. /\ WorldTyped /\ Typed /\ me \in Locals /\ me.drop \in Targets /\ me.add \in Targets
      /\ me.tries = 0 /\ pc[h] = "addDNS"
  BY DEF AddDNS, IInv, Typed, LocalsAt, Adding
<1>2. PICK result \in {ok, error} :
        /\ Add(c, result) /\ Goto(h, IF result = ok THEN "addTCP" ELSE "failed")
        /\ UNCHANGED local
  BY DEF AddDNS, ok, error
<1> DEFINE next == IF result = ok THEN "addTCP" ELSE "failed"
<1>3. /\ WorldTyped' /\ UNCHANGED <<iface, torrc, saved>>
      /\ \A d \in Commands \ {c} : memo'[d] = memo[d]
      /\ \A q \in Rules \ {udp} : rules'[q] = rules[q]
      /\ ~Known(memo, c) => rules'[udp] = rules[udp] + (IF result = ok THEN 1 ELSE 0)
  BY <1>1, <1>2, AddEffect
<1>4. next \in Labels /\ Moves(h, next, me)
  BY <1>1, <1>2, MovesOn DEF Labels
<1>5. LocalsAt(next, me)
  BY <1>1 DEF LocalsAt, OfTheService, Dropping, Adding
<1>6. ASSUME Apart
      PROVE  /\ rules' \in [Rules -> 0..1] /\ saved' \in [Rules -> 0..1]
             /\ AtStep(next, me, CurrentTarget', memo', rules')
  <2>1. AtStep("addDNS", me, CurrentTarget, memo, rules) /\ rules \in [Rules -> 0..1]
    BY <1>1, <1>6, Own DEF Apart
  <2>2. me.add = me.drop
    BY <2>1 DEF AtStep, Adding
  <2>3. /\ c \in Commands /\ c.op = "add" /\ c.rule.proto = "udp"
        /\ udp \in Rules /\ tcp \in Rules /\ udp # tcp
    BY <1>1, RulesTyped, RulesDiffer
  <2> HIDE DEF c
  <2>4. ~Known(memo, c) /\ rules[udp] = 0 /\ rules[tcp] = 0
    BY <2>1, <2>2, <2>3 DEF AtStep, Fresh, Copies
  <2>5. rules'[tcp] = 0 /\ rules'[udp] = IF result = ok THEN 1 ELSE 0
    BY <1>3, <2>3, <2>4
  <2>6. rules' \in [Rules -> 0..1]
    <3>1. \A q \in Rules : rules'[q] \in 0..1
      BY <1>3, <2>1, <2>5
    <3> QED BY <1>3, <3>1 DEF WorldTyped
  <2>7. \A d \in Commands : Fresh(next, me, d) => ~Known(memo', d)
    <3>1. \A d \in Commands : Fresh(next, me, d) => Fresh("addDNS", me, d) /\ d # c
      BY <2>3 DEF Fresh
    <3> QED BY <1>3, <2>1, <3>1, StillFresh
  <2>8. Copies(next, me, rules')
    BY <2>2, <2>5 DEF Copies
  <2>9. AtStep(next, me, CurrentTarget', memo', rules')
    BY <2>2, <2>7, <2>8 DEF AtStep, Dropping, Adding
  <2> QED BY <1>3, <1>6, <2>6, <2>9 DEF Apart
<1> HIDE DEF next
<1> QED BY <1>1, <1>3, <1>4, <1>5, <1>6, HandlerStep

LEMMA AddTCPStep ==
  ASSUME IInv, NEW h \in Handlers, AddTCP(h)
  PROVE  IInv'
<1> DEFINE me == local[h]
           c == RuleCommand("add", "tcp", me.add)
           udp == Rule("udp", me.add)
           tcp == Rule("tcp", me.add)
<1>1. /\ WorldTyped /\ Typed /\ me \in Locals /\ me.drop \in Targets /\ me.add \in Targets
      /\ me.tries = 0 /\ pc[h] = "addTCP"
  BY DEF AddTCP, IInv, Typed, LocalsAt, Adding
<1>2. PICK result \in {ok, error} :
        /\ Add(c, result) /\ Goto(h, IF result = ok THEN "saveAdded" ELSE "rollback")
        /\ UNCHANGED local
  BY DEF AddTCP, ok, error
<1> DEFINE next == IF result = ok THEN "saveAdded" ELSE "rollback"
<1>3. /\ WorldTyped' /\ UNCHANGED <<iface, torrc, saved>>
      /\ \A d \in Commands \ {c} : memo'[d] = memo[d]
      /\ \A q \in Rules \ {tcp} : rules'[q] = rules[q]
      /\ ~Known(memo, c) => rules'[tcp] = rules[tcp] + (IF result = ok THEN 1 ELSE 0)
  BY <1>1, <1>2, AddEffect
<1>4. next \in Labels /\ Moves(h, next, me)
  BY <1>1, <1>2, MovesOn DEF Labels
<1>5. LocalsAt(next, me)
  BY <1>1 DEF LocalsAt, OfTheService, Dropping, Adding
<1>6. ASSUME Apart
      PROVE  /\ rules' \in [Rules -> 0..1] /\ saved' \in [Rules -> 0..1]
             /\ AtStep(next, me, CurrentTarget', memo', rules')
  <2>1. AtStep("addTCP", me, CurrentTarget, memo, rules) /\ rules \in [Rules -> 0..1]
    BY <1>1, <1>6, Own DEF Apart
  <2>2. me.add = me.drop
    BY <2>1 DEF AtStep, Adding
  <2>3. /\ c \in Commands /\ c.op = "add" /\ c.rule.proto = "tcp"
        /\ udp \in Rules /\ tcp \in Rules /\ udp # tcp
    BY <1>1, RulesTyped, RulesDiffer
  <2> HIDE DEF c
  <2>4. ~Known(memo, c) /\ rules[udp] = 1 /\ rules[tcp] = 0
    BY <2>1, <2>2, <2>3 DEF AtStep, Fresh, Copies
  <2>5. rules'[udp] = 1 /\ rules'[tcp] = IF result = ok THEN 1 ELSE 0
    BY <1>3, <2>3, <2>4
  <2>6. rules' \in [Rules -> 0..1]
    <3>1. \A q \in Rules : rules'[q] \in 0..1
      BY <1>3, <2>1, <2>5
    <3> QED BY <1>3, <3>1 DEF WorldTyped
  <2>7. \A d \in Commands : Fresh(next, me, d) => ~Known(memo', d)
    <3>1. \A d \in Commands : Fresh(next, me, d) => Fresh("addTCP", me, d) /\ d # c
      BY <2>3 DEF Fresh
    <3> QED BY <1>3, <2>1, <3>1, StillFresh
  <2>8. Copies(next, me, rules')
    BY <2>2, <2>5 DEF Copies
  <2>9. AtStep(next, me, CurrentTarget', memo', rules')
    BY <2>2, <2>7, <2>8 DEF AtStep, Dropping, Adding
  <2> QED BY <1>3, <1>6, <2>6, <2>9 DEF Apart
<1> HIDE DEF next
<1> QED BY <1>1, <1>3, <1>4, <1>5, <1>6, HandlerStep
LEMMA RollbackStep ==
  ASSUME IInv, NEW h \in Handlers, Rollback(h)
  PROVE  IInv'
<1> DEFINE me == local[h]
           c == RuleCommand("rollback", "udp", me.add)
           udp == Rule("udp", me.add)
           tcp == Rule("tcp", me.add)
<1>1. /\ WorldTyped /\ Typed /\ me \in Locals /\ me.drop \in Targets /\ me.add \in Targets
      /\ me.tries = 0 /\ pc[h] = "rollback" /\ Moves(h, "failed", me)
  BY MovesOn DEF Rollback, IInv, Typed, LocalsAt, Adding, Labels
<1>2. PICK result \in {ok, error} : Delete(c, result)
  BY DEF Rollback
<1>3. /\ WorldTyped' /\ UNCHANGED <<iface, torrc, saved>>
      /\ \A q \in Rules \ {udp} : rules'[q] = rules[q]
      /\ ~Known(memo, c) /\ rules[udp] > 0 => rules'[udp] = rules[udp] - 1
  BY <1>1, <1>2, DeleteEffect
<1>4. LocalsAt("failed", me)
  BY <1>1 DEF LocalsAt, OfTheService, Dropping, Adding
<1>5. ASSUME Apart
      PROVE  /\ rules' \in [Rules -> 0..1] /\ saved' \in [Rules -> 0..1]
             /\ AtStep("failed", me, CurrentTarget', memo', rules')
  <2>1. AtStep("rollback", me, CurrentTarget, memo, rules) /\ rules \in [Rules -> 0..1]
    BY <1>1, <1>5, Own DEF Apart
  <2>2. me.add = me.drop
    BY <2>1 DEF AtStep, Adding
  <2>3. /\ c \in Commands /\ c.op = "rollback"
        /\ udp \in Rules /\ tcp \in Rules /\ udp # tcp
    BY <1>1, RulesTyped, RulesDiffer
  <2> HIDE DEF c
  <2>4. ~Known(memo, c) /\ rules[udp] = 1 /\ rules[tcp] = 0
    BY <2>1, <2>2, <2>3 DEF AtStep, Fresh, Copies
  <2>5. rules'[udp] = 0 /\ rules'[tcp] = 0
    BY <1>3, <2>3, <2>4
  <2>6. rules' \in [Rules -> 0..1]
    <3>1. \A q \in Rules : rules'[q] \in 0..1
      BY <1>3, <2>1, <2>5
    <3> QED BY <1>3, <3>1 DEF WorldTyped
  <2>7. AtStep("failed", me, CurrentTarget', memo', rules')
    BY <2>2, <2>5 DEF AtStep, Fresh, Copies, Dropping, Adding
  <2> QED BY <1>3, <1>5, <2>6, <2>7 DEF Apart
<1> QED BY <1>1, <1>3, <1>4, <1>5, HandlerStep DEF Labels

LEMMA SaveAddedStep ==
  ASSUME IInv, NEW h \in Handlers, SaveAdded(h)
  PROVE  IInv'
<1> DEFINE me == local[h]
<1>1. /\ WorldTyped /\ Typed /\ me \in Locals /\ me.drop \in Targets /\ me.add \in Targets
      /\ me.tries = 0 /\ pc[h] = "saveAdded" /\ Moves(h, "enabled", me)
  BY MovesOn DEF SaveAdded, IInv, Typed, LocalsAt, Adding, Labels
<1>2. /\ WorldTyped' /\ UNCHANGED <<iface, torrc, rules>> /\ saved' \in {saved, rules}
  BY <1>1, SaveEffect DEF SaveAdded
<1>3. LocalsAt("enabled", me)
  BY <1>1 DEF LocalsAt, OfTheService, Dropping, Adding
<1>4. ASSUME Apart
      PROVE  /\ rules' \in [Rules -> 0..1] /\ saved' \in [Rules -> 0..1]
             /\ AtStep("enabled", me, CurrentTarget', memo', rules')
  <2>1. AtStep("saveAdded", me, CurrentTarget, memo, rules)
    BY <1>1, <1>4, Own
  <2>2. AtStep("enabled", me, CurrentTarget', memo', rules')
    BY <1>2, <2>1 DEF AtStep, Fresh, Copies, Dropping, Adding
  <2> QED BY <1>2, <1>4, <2>2 DEF Apart
<1> QED BY <1>1, <1>2, <1>3, <1>4, HandlerStep DEF Labels

LEMMA RespondStep ==
  ASSUME IInv, NEW h \in Handlers, Respond(h)
  PROVE  IInv'
<1>1. /\ Typed /\ pc[h] # "idle" /\ Goto(h, "idle")
      /\ local' = [local EXCEPT ![h] = NoLocals]
      /\ UNCHANGED <<iface, torrc, tor, boot, rules, saved, memo>>
  BY DEF Respond, IInv, world, service
<1>2. WorldTyped' /\ LocalsAt("idle", NoLocals)
  BY <1>1 DEF Typed, WorldTyped, LocalsAt, NoLocals, OfTheService, Dropping, Adding
<1>3. Moves(h, "idle", NoLocals)
  BY <1>1, MovesWith, NoLocalsTyped DEF Labels
<1>4. AtStep("idle", NoLocals, CurrentTarget', memo', rules')
  BY IdleAtStep
<1> QED BY <1>1, <1>2, <1>3, <1>4, NoLocalsTyped, HandlerStep DEF Labels, Apart

-----------------------------------------------------------------------------
(***************************************************************************)
(* The clock, the access point's interface, the panel's and the machine's  *)
(* restart.                                                                *)
(***************************************************************************)
LEMMA TickStep ==
  ASSUME IInv, Tick
  PROVE  IInv'
<1>1. /\ UNCHANGED <<iface, torrc, tor, boot, rules, saved, pc, local>>
      /\ memo' = Aged(memo) /\ memo \in Tables(Commands, {ok, error})
  BY DEF Tick, world, service, IInv, Typed, WorldTyped
<1>2. /\ memo' \in Tables(Commands, {ok, error})
      /\ \A c \in Commands : ~Known(memo, c) => ~Known(memo', c)
  BY <1>1, AgedTyped
<1>3. Typed'
  BY <1>1, <1>2 DEF IInv, Typed, WorldTyped
<1>4. ASSUME Apart
      PROVE  Apart'
  <2>1. CurrentTarget' = CurrentTarget
    BY <1>1 DEF CurrentTarget
  <2>2. ASSUME NEW h \in Handlers
        PROVE  AtStep(pc[h], local[h], CurrentTarget', memo', rules')
    BY <1>1, <1>2, <1>4, <2>1 DEF Apart, AtStep
  <2> QED BY <1>1, <1>4, <2>2 DEF Apart
<1> QED BY <1>3, <1>4 DEF IInv

LEMMA SetInterfaceStep ==
  ASSUME IInv, NEW i \in Ifaces, SetInterface(i)
  PROVE  IInv'
<1>1. /\ UNCHANGED <<torrc, tor, boot, rules, saved, memo, pc, local>>
      /\ iface' = i /\ (Spaced => Quiet)
  BY DEF SetInterface, service
<1>2. Typed'
  BY <1>1 DEF IInv, Typed, WorldTyped
<1>3. ASSUME Spaced
      PROVE  Apart'
  <2>1. \A h \in Handlers : pc'[h] = "idle"
    BY <1>1, <1>3 DEF Quiet
  <2> QED BY <1>1, <1>3, <2>1, IdleAtStep DEF IInv, Apart
<1> QED BY <1>2, <1>3 DEF IInv

LEMMA PanelStartsStep ==
  ASSUME IInv, Restart \/ Reboot
  PROVE  IInv'
<1>1. /\ memo' = NothingRemembered(Commands)
      /\ pc' = [h \in Handlers |-> "idle"] /\ local' = [h \in Handlers |-> NoLocals]
      /\ rules' \in {rules, saved} /\ tor' \in {tor, torrc, Off}
      /\ UNCHANGED <<iface, torrc, boot, saved>>
  BY DEF Restart, Reboot, PanelStarts, world, service
<1>2. WorldTyped'
  BY <1>1, NothingTyped DEF IInv, Typed, WorldTyped
<1>3. LocalsAt("idle", NoLocals)
  BY DEF LocalsAt, NoLocals, OfTheService, Dropping, Adding
<1>4. Typed'
  BY <1>1, <1>2, <1>3, NoLocalsTyped DEF Typed, Labels
<1>5. ASSUME Apart
      PROVE  Apart'
  BY <1>1, <1>5, IdleAtStep DEF Apart
<1> QED BY <1>4, <1>5 DEF IInv

-----------------------------------------------------------------------------
(***************************************************************************)
(* The theorems.                                                           *)
(***************************************************************************)
LEMMA InitEstablishes == Init => IInv
<1> SUFFICES ASSUME Init
             PROVE  IInv
  OBVIOUS
<1>1. WorldTyped
  <2>1. 0 \in 0..MaxCopies
    BY TorAssumption
  <2>2. rules \in [Rules -> 0..MaxCopies] /\ saved \in [Rules -> 0..MaxCopies]
    BY <2>1 DEF Init
  <2>3. memo \in Tables(Commands, {ok, error})
    BY NothingTyped DEF Init
  <2> QED BY <2>2, <2>3 DEF Init, WorldTyped
<1>2. LocalsAt("idle", NoLocals)
  BY DEF LocalsAt, NoLocals, OfTheService, Dropping, Adding
<1>3. Typed
  BY <1>1, <1>2, NoLocalsTyped DEF Init, Typed, Labels
<1>4. Apart
  BY IdleAtStep DEF Init, Apart
<1> QED BY <1>3, <1>4 DEF IInv

LEMMA HandlerKeeps ==
  ASSUME IInv, NEW h \in Handlers, Handler(h)
  PROVE  IInv'
<1>1. CASE \/ \E port \in Ports : configureTor(h, port)
           \/ enableTor(h) \/ StartStep(h) \/ EnableStep(h)
           \/ disableTor(h) \/ StopStep(h) \/ DisableStep(h)
  BY <1>1, ServiceSteps
<1>2. CASE enableTorIptables(h) \/ disableTorIptables(h) \/ ReadDropped(h)
  BY <1>2, BeginRulesStep, ReadDroppedStep
<1>3. CASE DeleteDNS(h)
  BY <1>3, DeleteStepKeeps DEF DeleteDNS
<1>4. CASE DeleteTCP(h)
  BY <1>4, DeleteStepKeeps DEF DeleteTCP
<1>5. CASE \/ SaveDropped(h) \/ AddDNS(h) \/ AddTCP(h) \/ Rollback(h)
           \/ SaveAdded(h) \/ Respond(h)
  BY <1>5, SaveDroppedStep, AddDNSStep, AddTCPStep, RollbackStep, SaveAddedStep, RespondStep
<1> QED BY <1>1, <1>2, <1>3, <1>4, <1>5 DEF Handler

\* The invariant is inductive: every command of a request, and the clock, the interface
\* and the restarts between two of them, keep it (tor_handlers.go:430-563).
THEOREM Inductive ==
  /\ Init => IInv
  /\ IInv /\ [Next]_vars => IInv'
<1>1. ASSUME IInv, [Next]_vars
      PROVE  IInv'
  <2>1. CASE UNCHANGED vars
    <3>1. UNCHANGED <<iface, torrc, tor, boot, rules, saved, memo, pc, local>>
      BY <2>1 DEF vars, world, service
    <3> QED BY <1>1, <3>1 DEF IInv, Typed, WorldTyped, Apart, CurrentTarget
  <2>2. ASSUME NEW h \in Handlers, Handler(h)
        PROVE  IInv'
    BY <1>1, <2>2, HandlerKeeps
  <2>3. ASSUME NEW i \in Ifaces, SetInterface(i)
        PROVE  IInv'
    BY <1>1, <2>3, SetInterfaceStep
  <2>4. CASE Tick \/ Restart \/ Reboot
    BY <1>1, <2>4, TickStep, PanelStartsStep
  <2> QED BY <1>1, <2>1, <2>2, <2>3, <2>4 DEF Next
<1> QED BY <1>1, InitEstablishes

LEMMA Invariance == Spec => []IInv
BY Inductive, PTL DEF Spec

\* The interface, the ports, the rules, what the executor remembers and the locals of
\* the handlers keep their types, whether operations are apart or not.
THEOREM TypeCorrect == Spec => []TypeOK
<1>1. IInv => TypeOK
  BY DEF IInv, Typed, WorldTyped, TypeOK
<1> QED BY <1>1, Invariance, PTL

\* "Quitar reglas previas para evitar duplicados" (tor_handlers.go:491): with operations
\* further apart than the executor remembers, no rule is in the table twice, however
\* often the redirection is enabled, for whatever interfaces, and whatever fails or is
\* cut off.
THEOREM NeverTwice ==
  ASSUME Spaced
  PROVE  Spec => []NoDuplicates
<1>1. IInv => NoDuplicates
  BY DEF IInv, Apart, NoDuplicates
<1> QED BY <1>1, Invariance, PTL

\* The step with which an operation on the rules comes to its answer leaves its locals.
LEMMA Arrives ==
  ASSUME IInv, [Next]_vars, NEW h \in Handlers,
         NEW label \in {"enabled", "disabled", "failed"}, Becomes(h, label)
  PROVE  local'[h] = local[h]
<1>1. pc[h] # pc'[h] /\ pc'[h] = label /\ Typed
  BY DEF Becomes, IInv
<1>2. ~UNCHANGED vars /\ ~Tick /\ ~Restart /\ ~Reboot /\ \A i \in Ifaces : ~SetInterface(i)
  BY <1>1 DEF vars, Tick, Restart, Reboot, PanelStarts, SetInterface
<1>3. PICK g \in Handlers : Handler(g)
  BY <1>2 DEF Next
<1>4. CASE UNCHANGED local
  BY <1>4
<1>5. CASE enableTorIptables(g) \/ ReadDropped(g) \/ Respond(g)
  <2>1. PICK next \in {"drop", "deleteDNS", "idle"} : Goto(g, next)
    BY <1>5 DEF enableTorIptables, ReadDropped, Respond
  <2>2. \/ local' = [local EXCEPT ![g].add = CurrentTarget]
        \/ local' = [local EXCEPT ![g].drop = CurrentTarget]
        \/ local' = [local EXCEPT ![g] = NoLocals]
    BY <1>5 DEF enableTorIptables, ReadDropped, Respond
  <2>3. g # h
    BY <1>1, <2>1 DEF Goto, Typed
  <2> QED BY <1>1, <2>1, <2>3 DEF Goto, Typed
<1>6. CASE DeleteDNS(g) \/ DeleteTCP(g)
  <2>1. PICK next \in {"deleteDNS", "deleteTCP", "saveDropped"} : Goto(g, next)
    BY <1>6 DEF DeleteDNS, DeleteTCP, DeleteStep
  <2>2. g # h
    BY <1>1, <2>1 DEF Goto, Typed
  <2> QED BY <1>1, <2>1, <2>2 DEF Goto, Typed
<1> QED
  BY <1>3, <1>4, <1>5, <1>6
  DEF Handler, configureTor, enableTor, StartStep, EnableStep, disableTor, StopStep,
      DisableStep, disableTorIptables, SaveDropped, AddDNS, AddTCP, Rollback, SaveAdded

\* What an answer about the rules says is so: when the panel says that the redirection is
\* enabled, DNS and TCP of the target it added are each redirected exactly once
\* (tor_handlers.go:494-519).
THEOREM EnabledRedirects ==
  ASSUME Spaced
  PROVE  Spec => EnableRedirects
<1>1. ASSUME IInv, IInv', [Next]_vars, NEW h \in Handlers, Becomes(h, "enabled"),
             NEW proto \in {"udp", "tcp"}
      PROVE  rules'[Rule(proto, local[h].add)] = 1
  <2>1. pc'[h] = "enabled" /\ local'[h] = local[h]
    BY <1>1, Arrives DEF Becomes
  <2>2. AtStep("enabled", local[h], CurrentTarget', memo', rules')
    BY <1>1, <2>1 DEF IInv, Apart
  <2> QED BY <2>2 DEF AtStep, Copies, Adding
<1>2. IInv /\ IInv' /\ [Next]_vars =>
        [\A h \in Handlers : Becomes(h, "enabled") =>
           \A proto \in {"udp", "tcp"} : rules'[Rule(proto, local[h].add)] = 1]_vars
  BY <1>1
<1> QED BY <1>2, Invariance, PTL DEF Spec, EnableRedirects

\* When it says that the redirection is off, no rule is left for the interface and ports
\* it read (tor_handlers.go:545-563).
THEOREM DisabledClears ==
  ASSUME Spaced
  PROVE  Spec => DisableClears
<1>1. ASSUME IInv, IInv', [Next]_vars, NEW h \in Handlers, Becomes(h, "disabled"),
             NEW proto \in {"udp", "tcp"}
      PROVE  rules'[Rule(proto, local[h].drop)] = 0
  <2>1. pc'[h] = "disabled" /\ local'[h] = local[h]
    BY <1>1, Arrives DEF Becomes
  <2>2. AtStep("disabled", local[h], CurrentTarget', memo', rules')
    BY <1>1, <2>1 DEF IInv, Apart
  <2> QED BY <2>2 DEF AtStep, Copies
<1>2. IInv /\ IInv' /\ [Next]_vars =>
        [\A h \in Handlers : Becomes(h, "disabled") =>
           \A proto \in {"udp", "tcp"} : rules'[Rule(proto, local[h].drop)] = 0]_vars
  BY <1>1
<1> QED BY <1>2, Invariance, PTL DEF Spec, DisableClears

\* Whatever the answer is, DNS and TCP of the target are redirected together or not at
\* all: a failed addition is rolled back, and an operation that was cut off between its
\* two rules is made good by the next (tor_handlers.go:491-510).
THEOREM AnswersPaired ==
  ASSUME Spaced
  PROVE  Spec => OutcomesPaired
<1>1. ASSUME IInv, IInv', [Next]_vars, NEW h \in Handlers,
             NEW label \in {"enabled", "disabled", "failed"}, Becomes(h, label),
             local[h].drop # Off
      PROVE  rules'[Rule("udp", local[h].drop)] = rules'[Rule("tcp", local[h].drop)]
  <2>1. pc'[h] = label /\ local'[h] = local[h]
    BY <1>1, Arrives DEF Becomes
  <2>2. AtStep(label, local[h], CurrentTarget', memo', rules')
    BY <1>1, <2>1 DEF IInv, Apart
  <2> QED BY <1>1, <2>2 DEF AtStep, Copies
<1>2. IInv /\ IInv' /\ [Next]_vars =>
        [\A h \in Handlers : \A label \in {"enabled", "disabled", "failed"} :
           (Becomes(h, label) /\ local[h].drop # Off) =>
             rules'[Rule("udp", local[h].drop)] = rules'[Rule("tcp", local[h].drop)]]_vars
  BY <1>1
<1> QED BY <1>2, Invariance, PTL DEF Spec, OutcomesPaired
=============================================================================
