--------------------------- MODULE HostApd_proofs ---------------------------
(***************************************************************************)
(* Theorems of HostApd: its types, that no firewall rule is doubled unless *)
(* a deletion was refused, that no running access point loses its          *)
(* interface to the panel, and that the successes the panel reports about  *)
(* the access point are so, for any settings, whatever may fail and        *)
(* wherever a request is cut off.                                          *)
(***************************************************************************)
EXTENDS HostApd, Sequences, TLAPS

-----------------------------------------------------------------------------
(***************************************************************************)
(* The types, and what each step of a request has in its locals.           *)
(***************************************************************************)
WorldTyped ==
  /\ ap0 \in BOOLEAN
  /\ udev \in BOOLEAN
  /\ {conf, dnsConf, running, dnsmasq} \subseteq Configs \cup {None}
  /\ override \in {None, "plain", "prestart"}
  /\ boot \subseteq Services
  /\ rules \in [Rules -> 0..MaxCopies]
  /\ refused \subseteq Rules
  /\ bus \in BOOLEAN
  /\ memo \in Tables(Commands, Results)

Finding == {"look", "delete", "create"}
SwitchingOn == {"enableDns", "startDnsmasq", "enable", "start", "status"}
SwitchingOff == {"stopDnsmasq", "disable", "stop"}
Ending ==
  {"restartDnsmasq", "lookBefore", "createLate", "lookLate", "restart", "restartAgain",
   "configured"}
Written == {"deleteRules", "addRules", "override", "prestart", "enableBoth"} \cup Ending
Configuring == {"udev", "verify", "write", "writeDns"} \cup Written

LocalsAt(label, me) ==
  /\ label = "idle" => me = NoLocals
  /\ label \in Finding => me.kind \in {"create", "toggle", "configure"}
  /\ label \in Finding \cup {"udev"} => me.tries = 0
  /\ label = "lookAgain" => me.kind = "create"
  /\ label \in SwitchingOn \cup SwitchingOff => me.kind = "toggle"
  /\ label \in Configuring => me.kind = "configure"
  /\ me.kind = "configure" => me.net \in Settings

Typed ==
  /\ WorldTyped
  /\ pc \in [Handlers -> Labels]
  /\ local \in [Handlers -> Locals]
  /\ \A h \in Handlers : LocalsAt(pc[h], local[h])

-----------------------------------------------------------------------------
(***************************************************************************)
(* What is so of the world at each step of the one request.                *)
(***************************************************************************)
\* The first look is not answered from the memo, so ap0 is removed only where there is
\* none.  The looks at a new ap0 may be, but the ticks waited since it was made are
\* off the time that the memo has left.
Ap0At(h) ==
  /\ pc[h] \in {"udev", "look"} => ~Known(memo, "look")
  /\ pc[h] = "delete" => ~ap0
  /\ pc[h] = "lookAgain" /\ ap0 /\ Known(memo, "look") /\ memo["look"].result = "missing" =>
       memo["look"].left + Waits + local[h].tries - local[h].wait <= TTL

\* The toggle switches on what it does not see running.  Where it sees what there is,
\* hostapd does not run, and nothing else starts it.  A restart that could stop hostapd
\* starts one that does not run.
ToggleAt(h) ==
  /\ ~bus /\ pc[h] \in Finding \cup (SwitchingOn \ {"status"}) /\ local[h].kind = "toggle" =>
       running = None
  /\ pc[h] \in {"start", "status"} => "hostapd" \in boot
  /\ ~bus /\ pc[h] = "status" => running \in {None, conf}
  /\ pc[h] = "stop" => "hostapd" \notin boot
  /\ pc[h] = "startAfter" => running = None

\* What a configuration has written stays, and what it has restarted runs with it or
\* not at all.
ConfigAt(h) ==
  /\ pc[h] \in Written \cup {"writeDns"} => conf = Asked(h)
  /\ pc[h] \in Written => dnsConf = Asked(h)
  /\ pc[h] \in Ending => boot = Services
  /\ pc[h] \in {"restartAgain", "configured"} => running \in {None, Asked(h)}
  /\ pc[h] = "configured" => dnsmasq \in {None, Asked(h)}

\* Of a rule that is there at most once, no copy is left when it is added, unless its
\* deletion was refused.
RulesAt(h) ==
  pc[h] = "addRules" => \A r \in local[h].own \ refused : r \in Rules /\ rules[r] = 0

AtStep(h) == Ap0At(h) /\ ToggleAt(h) /\ ConfigAt(h) /\ RulesAt(h)

\* hostapd does not run on an ap0 that is not there.
RunsOnAp0 == running # None /\ running.iface = "ap0" => ap0

World == RunsOnAp0 /\ NoDuplicateRules

Alone == \A g, h \in Handlers : pc[g] # "idle" /\ pc[h] # "idle" => g = h

IInv == Typed /\ World /\ Alone /\ \A h \in Handlers : AtStep(h)
-----------------------------------------------------------------------------
(***************************************************************************)
(* Lemmas about the locals, the memo and the interface.                    *)
(***************************************************************************)
LEMMA NoLocalsTyped == NoLocals \in Locals
BY HostApdAssumption DEF NoLocals, Locals, Kinds, Interfaces

LEMMA AskedTyped ==
  ASSUME NEW h \in Handlers, local[h] \in Locals, local[h].net \in Settings
  PROVE  /\ Asked(h) \in Configs /\ Asked(h).iface = local[h].iface
         /\ \A own \in OwnRules(h) : own \subseteq Rules
BY DEF Asked, Configs, Locals, OwnRules, Rules

\* A command whose result is remembered, or will be, leaves what is known of the others.
LEMMA Consulted ==
  ASSUME memo \in Tables(Commands, Results), NEW c \in Commands, NEW result \in Results,
         Answer(c, result) \/ Ran(c, result)
  PROVE  /\ memo' \in Tables(Commands, Results)
         /\ \A d \in Commands \ {c} : memo'[d] = memo[d]
<1>1. CASE Answer(c, result)
  BY <1>1 DEF Answer
<1>2. CASE Ran(c, result)
  <2>1. Remembered(result) \in [result : Results, left : 1..TTL]
    BY MemoAssumption DEF Remembered
  <2> QED BY <1>2, <2>1 DEF Ran, Tables
<1> QED BY <1>1, <1>2

\* A look that is not answered from the memo sees what there is; one that is changes
\* nothing.
LEMMA LookEffect ==
  ASSUME memo \in Tables(Commands, Results), NEW result \in {"present", "missing"},
         Look(result)
  PROVE  /\ memo' \in Tables(Commands, Results)
         /\ \/ Known(memo, "look") /\ memo["look"].result = result /\ memo' = memo
            \/ ~Known(memo, "look") /\ result = IF ap0 THEN "present" ELSE "missing"
<1>1. "look" \in Commands /\ result \in Results
  BY DEF Commands, Results
<1>2. memo' \in Tables(Commands, Results)
  BY <1>1, Consulted DEF Look
<1> QED BY <1>2 DEF Look, Answer, Ran

LEMMA CreateEffect ==
  ASSUME memo \in Tables(Commands, Results), ap0 \in BOOLEAN,
         NEW result \in {"ok", "error"},
         Create(result)
  PROVE  /\ memo' \in Tables(Commands, Results) /\ memo'["look"] = memo["look"]
         /\ ap0' \in BOOLEAN /\ (ap0 => ap0')
<1>1. {"look", "create"} \subseteq Commands /\ result \in Results /\ "look" # "create"
  BY DEF Commands, Results
<1>2. /\ memo' \in Tables(Commands, Results)
      /\ \A d \in Commands \ {"create"} : memo'[d] = memo[d]
  BY <1>1, Consulted DEF Create
<1>3. ap0' \in BOOLEAN /\ (ap0 => ap0')
  BY DEF Create
<1> QED BY <1>1, <1>2, <1>3

LEMMA CopyEffect ==
  ASSUME memo \in Tables(Commands, Results), NEW content, CopyOverride(content)
  PROVE  /\ memo' \in Tables(Commands, Results)
         /\ override' \in {override, content}
<1>1. "copyOverride" \in Commands /\ "ok" \in Results
  BY DEF Commands, Results
<1>2. memo' \in Tables(Commands, Results)
  BY <1>1, Consulted DEF CopyOverride
<1> QED BY <1>2 DEF CopyOverride

\* What is known is known a tick less long, or not any more.
LEMMA AgedTyped ==
  ASSUME memo \in Tables(Commands, Results)
  PROVE  /\ Aged(memo) \in Tables(Commands, Results)
         /\ \A c \in Commands : Known(Aged(memo), c) =>
              /\ Known(memo, c) /\ Aged(memo)[c].result = memo[c].result
              /\ memo[c].left \in Nat /\ Aged(memo)[c].left = memo[c].left - 1
<1> SUFFICES ASSUME NEW c \in Commands
             PROVE  /\ Older(memo[c]) \in {Forgotten} \cup [result : Results, left : 1..TTL]
                    /\ Older(memo[c]).left > 0 =>
                         /\ memo[c].left > 0 /\ Older(memo[c]).result = memo[c].result
                         /\ memo[c].left \in Nat /\ Older(memo[c]).left = memo[c].left - 1
  <2>1. DOMAIN memo = Commands
    BY DEF Tables
  <2> QED BY <2>1 DEF Aged, Tables, Known
<1>1. CASE memo[c] = Forgotten
  BY <1>1 DEF Older, Forgotten
<1>2. CASE memo[c] \in [result : Results, left : 1..TTL]
  BY <1>2, MemoAssumption DEF Older, Forgotten
<1> QED BY <1>1, <1>2 DEF Tables

LEMMA NothingTyped == NothingRemembered(Commands) \in Tables(Commands, Results)
BY DEF NothingRemembered, Tables

\* A hostapd that its interface may have taken with it runs with what it ran with or not
\* at all.
LEMMA WithoutEither ==
  ASSUME NEW config
  PROVE  /\ Without(config) \in {None, config}
         /\ Without(config) # None => Without(config).iface # "ap0"
BY DEF Without

-----------------------------------------------------------------------------
(***************************************************************************)
(* How a step of the one request keeps the invariant.                      *)
(***************************************************************************)
Moves(h, label, me) ==
  /\ pc' \in [Handlers -> Labels] /\ local' \in [Handlers -> Locals]
  /\ pc'[h] = label /\ local'[h] = me
  /\ \A g \in Handlers \ {h} : pc'[g] = pc[g] /\ local'[g] = local[g]

LEMMA MovesWith ==
  ASSUME Typed, NEW h \in Handlers, NEW label \in Labels, NEW me \in Locals,
         Goto(h, label), local' = [local EXCEPT ![h] = me]
  PROVE  Moves(h, label, me)
BY DEF Typed, Goto, Moves

\* The toggle sees hostapd running when it runs and systemctl does not say so itself.
LEMMA ActiveSeen == isActive <=> running # None /\ ~bus
<1>1. CASE bus
  <2> DEFINE state == IF running # None THEN "active" ELSE "inactive"
  <2>1. Status = <<state, state>>
    BY <1>1 DEF Status
  <2>2. Len(<<state, state>>) = 2 /\ Len(<<"active">>) = 1
    OBVIOUS
  <2> QED BY <1>1, <2>1, <2>2 DEF isActive
<1>2. CASE ~bus
  BY <1>2 DEF isActive, Status
<1> QED BY <1>1, <1>2

LEMMA Own ==
  ASSUME IInv, NEW h \in Handlers
  PROVE  /\ Typed /\ WorldTyped /\ World /\ local[h] \in Locals
         /\ LocalsAt(pc[h], local[h])
         /\ Ap0At(h) /\ ToggleAt(h) /\ ConfigAt(h) /\ RulesAt(h)
BY DEF IInv, Typed, AtStep

LEMMA IdleAtStep ==
  ASSUME NEW h \in Handlers, pc'[h] = "idle"
  PROVE  AtStep(h)'
BY DEF AtStep, Ap0At, ToggleAt, ConfigAt, RulesAt, Finding, SwitchingOn, Written, Ending

LEMMA StepMoves ==
  ASSUME IInv, NEW h \in Handlers, \A g \in Handlers \ {h} : pc[g] = "idle",
         NEW label \in Labels, NEW me \in Locals, Moves(h, label, me),
         LocalsAt(label, me), WorldTyped', World', AtStep(h)'
  PROVE  IInv'
<1>1. ASSUME NEW g \in Handlers
      PROVE  LocalsAt(pc[g], local[g])'
  BY DEF IInv, Typed, Moves
<1>2. Typed'
  BY <1>1 DEF Typed, Moves
<1>3. Alone'
  BY DEF Moves, Alone
<1>4. ASSUME NEW g \in Handlers
      PROVE  AtStep(g)'
  BY IdleAtStep DEF Moves
<1> QED BY <1>2, <1>3, <1>4 DEF IInv

\* A step that leaves the locals of the request.
LEMMA StepOn ==
  ASSUME IInv, NEW h \in Handlers, pc[h] # "idle", NEW label \in Labels,
         Goto(h, label), UNCHANGED local, LocalsAt(label, local[h]), WorldTyped', World',
         pc'[h] = label /\ local'[h] = local[h] => AtStep(h)'
  PROVE  IInv'
<1>1. Typed /\ local[h] \in Locals
  BY Own
<1>2. Moves(h, label, local[h])
  BY <1>1 DEF Typed, Goto, Moves
<1>3. \A g \in Handlers \ {h} : pc[g] = "idle"
  BY DEF IInv, Alone
<1>4. AtStep(h)'
  BY <1>2 DEF Moves
<1> QED BY <1>1, <1>2, <1>3, <1>4, StepMoves

LEMMA BeginsStep ==
  ASSUME IInv, NEW h \in Handlers, NEW kind \in Kinds, NEW net \in Settings \cup {None},
         NEW label \in {"look", "stopFirst", "udev", "stopDnsmasq"},
         Begins(h, kind, net, label), kind = "configure" => net \in Settings,
         kind = "configure" <=> label = "udev", label = "stopDnsmasq" => kind = "toggle",
         label = "look" => kind \in {"create", "toggle"},
         ~bus /\ label = "look" /\ kind = "toggle" => running = None
  PROVE  IInv'
<1> DEFINE me == [NoLocals EXCEPT !.kind = kind, !.net = net]
<1>1. /\ \A o \in Handlers : pc[o] = "idle"
      /\ \A c \in Commands : ~Known(memo, c)
      /\ local' = [local EXCEPT ![h] = me] /\ Goto(h, label)
      /\ UNCHANGED <<ap0, udev, conf, dnsConf, override, running, dnsmasq, boot, rules,
                     refused, bus, memo>>
  BY DEF Begins, world, files, services, firewall
<1>2. me \in Locals /\ me.kind = kind /\ me.net = net /\ me.tries = 0
  BY NoLocalsTyped DEF NoLocals, Locals
<1> HIDE DEF me
<1>3. label \in Labels /\ Moves(h, label, me)
  BY <1>1, <1>2, Own, MovesWith DEF Labels
<1>4. LocalsAt(label, me)
  BY <1>2 DEF LocalsAt, Finding, SwitchingOn, SwitchingOff, Configuring, Written, Ending
<1>5. WorldTyped' /\ World'
  BY <1>1, Own DEF WorldTyped, World, RunsOnAp0, NoDuplicateRules
<1>6. "look" \in Commands
  BY DEF Commands
<1>7. AtStep(h)'
  BY <1>1, <1>2, <1>3, <1>6
  DEF AtStep, Ap0At, ToggleAt, ConfigAt, RulesAt, Moves, Known, Finding, SwitchingOn,
      Written, Ending
<1> QED BY <1>1, <1>2, <1>3, <1>4, <1>5, <1>7, StepMoves

LEMMA RequestStep ==
  ASSUME IInv, NEW h \in Handlers,
         \/ hostapdCreateAp0(h) \/ hostapdToggle(h) \/ hostapdRestart(h)
         \/ \E net \in Settings : hostapdConfig(h, net)
  PROVE  IInv'
<1>1. CASE hostapdCreateAp0(h)
  BY <1>1, BeginsStep DEF hostapdCreateAp0, Kinds
<1>2. CASE hostapdToggle(h)
  <2>1. CASE isActive
    BY <1>2, <2>1, BeginsStep DEF hostapdToggle, Kinds
  <2>2. CASE ~isActive
    <3>1. ~bus => running = None
      BY <2>2, ActiveSeen
    <3> QED BY <1>2, <2>2, <3>1, BeginsStep DEF hostapdToggle, Kinds
  <2> QED BY <2>1, <2>2
<1>3. CASE hostapdRestart(h)
  BY <1>3, BeginsStep DEF hostapdRestart, Kinds
<1>4. ASSUME NEW net \in Settings, hostapdConfig(h, net)
      PROVE  IInv'
  BY <1>4, BeginsStep DEF hostapdConfig, Kinds
<1> QED BY <1>1, <1>2, <1>3, <1>4

LEMMA RespondStep ==
  ASSUME IInv, NEW h \in Handlers, Respond(h)
  PROVE  IInv'
<1>1. /\ pc[h] # "idle" /\ Goto(h, "idle") /\ local' = [local EXCEPT ![h] = NoLocals]
      /\ memo' \in Tables(Commands, Results)
      /\ UNCHANGED <<ap0, udev, conf, dnsConf, override, running, dnsmasq, boot, rules,
                     refused,
                     bus>>
  BY NothingTyped DEF Respond, NothingAskedAgain, world, files, services, firewall
<1>2. Moves(h, "idle", NoLocals) /\ "idle" \in Labels
  BY <1>1, Own, MovesWith, NoLocalsTyped DEF Labels
<1>3. LocalsAt("idle", NoLocals)
  BY DEF LocalsAt, NoLocals, Finding, SwitchingOn, SwitchingOff, Configuring, Written,
         Ending
<1>4. WorldTyped' /\ World'
  BY <1>1, Own DEF WorldTyped, World, RunsOnAp0, NoDuplicateRules
<1>5. AtStep(h)'
  BY <1>2, IdleAtStep DEF Moves
<1>6. \A g \in Handlers \ {h} : pc[g] = "idle"
  BY <1>1 DEF IInv, Alone
<1> QED BY <1>2, <1>3, <1>4, <1>5, <1>6, NoLocalsTyped, StepMoves

-----------------------------------------------------------------------------
(***************************************************************************)
(* ap0.                                                                    *)
(***************************************************************************)
LEMMA WithAp0Label ==
  ASSUME NEW h \in Handlers, local[h].kind \in {"create", "toggle", "configure"}
  PROVE  /\ WithAp0(h) \in {"created", "enableDns", "write"}
         /\ WithAp0(h) = "enableDns" => local[h].kind = "toggle"
         /\ WithAp0(h) = "write" => local[h].kind = "configure"
BY DEF WithAp0

LEMMA LookForStep ==
  ASSUME IInv, NEW h \in Handlers, LookFor(h)
  PROVE  IInv'
<1>1. /\ pc[h] = "look"
      /\ UNCHANGED <<ap0, udev, conf, dnsConf, override, running, dnsmasq, boot, rules,
                     refused, bus, local>>
  BY DEF LookFor, world, files, services, firewall
<1>2. local[h].kind \in {"create", "toggle", "configure"} /\ LocalsAt("look", local[h])
  BY <1>1, Own DEF LocalsAt, Finding
<1>3. PICK result \in {"present", "missing"} :
        Look(result) /\ Goto(h, IF result = "present" THEN WithAp0(h) ELSE "delete")
  BY DEF LookFor
<1>4. ~Known(memo, "look") /\ memo \in Tables(Commands, Results)
  BY <1>1, Own DEF Ap0At, WorldTyped
<1>5. /\ memo' \in Tables(Commands, Results)
      /\ result = IF ap0 THEN "present" ELSE "missing"
  BY <1>3, <1>4, LookEffect
<1> DEFINE label == IF result = "present" THEN WithAp0(h) ELSE "delete"
<1>6. /\ label \in {"created", "enableDns", "write", "delete"}
      /\ label = "enableDns" => local[h].kind = "toggle"
      /\ label = "write" => local[h].kind = "configure"
      /\ label = "delete" => ~ap0
  BY <1>2, <1>5, WithAp0Label
<1>7. Goto(h, label)
  BY <1>3
<1> HIDE DEF label
<1>8. label \in Labels /\ LocalsAt(label, local[h])
  BY <1>2, <1>6
  DEF Labels, LocalsAt, Finding, SwitchingOn, SwitchingOff, Configuring, Written, Ending
<1>9. WorldTyped' /\ World'
  BY <1>1, <1>5, Own DEF WorldTyped, World, RunsOnAp0, NoDuplicateRules
<1>10. ASSUME pc'[h] = label, local'[h] = local[h]
       PROVE  AtStep(h)'
  <2>1. ToggleAt(h)
    BY Own
  <2> QED BY <1>1, <1>6, <1>10, <2>1
    DEF AtStep, Ap0At, ToggleAt, ConfigAt, RulesAt, Finding, SwitchingOn, Written, Ending
<1> QED BY <1>1, <1>7, <1>8, <1>9, <1>10, StepOn

LEMMA DeleteAp0Step ==
  ASSUME IInv, NEW h \in Handlers, DeleteAp0(h)
  PROVE  IInv'
<1>1. /\ pc[h] = "delete" /\ Goto(h, "create")
      /\ ap0' = FALSE /\ running' = Without(running)
      /\ UNCHANGED <<udev, conf, dnsConf, override, dnsmasq, boot, rules, refused, bus,
                     memo, local>>
  BY DEF DeleteAp0, files, firewall
<1>2. LocalsAt("delete", local[h]) /\ ToggleAt(h) /\ WorldTyped /\ World
  BY <1>1, Own
<1>3. LocalsAt("create", local[h]) /\ "create" \in Labels
  BY <1>2
  DEF Labels, LocalsAt, Finding, SwitchingOn, SwitchingOff, Configuring, Written, Ending
<1>4. WorldTyped' /\ World'
  BY <1>1, <1>2, WithoutEither DEF WorldTyped, World, RunsOnAp0, NoDuplicateRules
<1>5. ASSUME pc'[h] = "create", local'[h] = local[h]
      PROVE  AtStep(h)'
  BY <1>1, <1>2, <1>5, WithoutEither
  DEF AtStep, Ap0At, ToggleAt, ConfigAt, RulesAt, Finding, SwitchingOn, Written, Ending
<1> QED BY <1>1, <1>3, <1>4, <1>5, StepOn

LEMMA CreateAp0Step ==
  ASSUME IInv, NEW h \in Handlers, CreateAp0(h)
  PROVE  IInv'
<1> DEFINE kind == local[h].kind
<1>1. /\ pc[h] = "create"
      /\ UNCHANGED <<udev, conf, dnsConf, override, running, dnsmasq, boot, rules, refused,
                     bus>>
  BY DEF CreateAp0, files, services, firewall
<1>2. /\ LocalsAt("create", local[h]) /\ ToggleAt(h) /\ Typed /\ WorldTyped /\ World
      /\ local[h] \in Locals
  BY <1>1, Own
<1>3. kind \in {"create", "toggle", "configure"} /\ local[h].tries = 0
  BY <1>2 DEF LocalsAt, Finding
<1>4. PICK result \in {"ok", "error"}, label \in Labels, me \in Locals :
        /\ Create(result) /\ Moves(h, label, me)
        /\ me.kind = kind /\ me.net = local[h].net /\ me.tries = 0
        /\ label \in {"lookAgain", "enableDns", "verify", "failed", "created", "write"}
        /\ label = "lookAgain" => kind = "create" /\ me.wait = Waits
        /\ label = "enableDns" => kind = "toggle"
        /\ label \in {"verify", "write"} => kind = "configure"
  <2>1. CASE /\ Create("ok")
             /\ Goto(h, CASE kind = "create" -> "lookAgain"
                          [] kind = "toggle" -> "enableDns"
                          [] kind = "configure" -> "verify")
             /\ local' = [local EXCEPT ![h].wait = Waits]
    <3> DEFINE me == [local[h] EXCEPT !.wait = Waits]
               label == CASE kind = "create" -> "lookAgain"
                          [] kind = "toggle" -> "enableDns"
                          [] kind = "configure" -> "verify"
    <3>1. /\ me \in Locals /\ me.kind = kind /\ me.net = local[h].net /\ me.tries = 0
          /\ me.wait = Waits
      BY <1>2, <1>3, HostApdAssumption DEF Locals
    <3>2. /\ label \in {"lookAgain", "enableDns", "verify"}
          /\ label = "lookAgain" => kind = "create"
          /\ label = "enableDns" => kind = "toggle"
          /\ label = "verify" => kind = "configure"
      BY <1>3
    <3>3. Goto(h, label) /\ local' = [local EXCEPT ![h] = me]
      BY <2>1
    <3> HIDE DEF me, label
    <3>4. label \in Labels /\ Moves(h, label, me)
      BY <1>2, <3>1, <3>2, <3>3, MovesWith DEF Labels
    <3> QED BY <2>1, <3>1, <3>2, <3>4
  <2>2. CASE /\ Create("error")
             /\ Goto(h, IF kind = "create" THEN "failed" ELSE WithAp0(h))
             /\ local' =
                  [local EXCEPT ![h].iface = IF kind = "configure" THEN "wlan" ELSE @]
    <3> DEFINE iface == IF kind = "configure" THEN "wlan" ELSE local[h].iface
               me == [local[h] EXCEPT !.iface = iface]
               label == IF kind = "create" THEN "failed" ELSE WithAp0(h)
    <3>1. me \in Locals /\ me.kind = kind /\ me.net = local[h].net /\ me.tries = 0
      BY <1>2, <1>3 DEF Locals, Interfaces
    <3>2. /\ label \in {"failed", "created", "enableDns", "write"}
          /\ label = "enableDns" => kind = "toggle"
          /\ label = "write" => kind = "configure"
      BY <1>3, WithAp0Label
    <3>3. Goto(h, label) /\ local' = [local EXCEPT ![h] = me]
      BY <2>2
    <3> HIDE DEF me, label
    <3>4. label \in Labels /\ Moves(h, label, me)
      BY <1>2, <3>1, <3>2, <3>3, MovesWith DEF Labels
    <3> QED BY <2>2, <3>1, <3>2, <3>4
  <2> QED BY <2>1, <2>2 DEF CreateAp0
<1>5. /\ memo' \in Tables(Commands, Results) /\ memo'["look"] = memo["look"]
      /\ ap0' \in BOOLEAN /\ (ap0 => ap0')
  BY <1>2, <1>4, CreateEffect DEF WorldTyped
<1>6. LocalsAt(label, me)
  BY <1>2, <1>3, <1>4
  DEF LocalsAt, Finding, SwitchingOn, SwitchingOff, Configuring, Written, Ending
<1>7. WorldTyped' /\ World'
  BY <1>1, <1>2, <1>5 DEF WorldTyped, World, RunsOnAp0, NoDuplicateRules
<1>8. AtStep(h)'
  <2>1. pc'[h] = label /\ local'[h] = me
    BY <1>4 DEF Moves
  <2>2. Ap0At(h)'
    <3>1. Known(memo, "look") => memo["look"].left \in 1..TTL
      BY <1>2, MemoAssumption DEF WorldTyped, Tables, Commands, Known, Forgotten
    <3>2. label = "lookAgain" => me.tries = 0 /\ me.wait = Waits /\ Waits \in Nat
      BY <1>4, HostApdAssumption
    <3> QED BY <1>4, <1>5, <2>1, <3>1, <3>2, MemoAssumption DEF Ap0At, Known
  <2>3. ToggleAt(h)' /\ ConfigAt(h)' /\ RulesAt(h)'
    BY <1>1, <1>2, <1>4, <2>1
    DEF ToggleAt, ConfigAt, RulesAt, Finding, SwitchingOn, Written, Ending
  <2> QED BY <2>2, <2>3 DEF AtStep
<1>9. \A g \in Handlers \ {h} : pc[g] = "idle"
  BY <1>1 DEF IInv, Alone
<1> QED BY <1>4, <1>6, <1>7, <1>8, <1>9, StepMoves
LEMMA LookAgainStep ==
  ASSUME IInv, NEW h \in Handlers, LookAgain(h)
  PROVE  IInv'
<1>1. /\ pc[h] = "lookAgain" /\ local[h].wait = 0
      /\ UNCHANGED <<ap0, udev, conf, dnsConf, override, running, dnsmasq, boot, rules,
                     refused, bus>>
  BY DEF LookAgain, world, files, services, firewall
<1>2. /\ LocalsAt("lookAgain", local[h]) /\ Ap0At(h) /\ Typed /\ WorldTyped /\ World
      /\ local[h] \in Locals
  BY <1>1, Own
<1>3. PICK result \in {"present", "missing"} :
        /\ Look(result)
        /\ \/ Goto(h, IF result = "present" THEN "created" ELSE "failed") /\ UNCHANGED local
           \/ /\ result = "missing" /\ local[h].tries + 1 < Attempts
              /\ local' = [local EXCEPT ![h].tries = @ + 1, ![h].wait = 1]
              /\ UNCHANGED pc
  BY DEF LookAgain
<1>4. /\ memo' \in Tables(Commands, Results)
      /\ \/ Known(memo, "look") /\ memo["look"].result = result /\ memo' = memo
         \/ ~Known(memo, "look") /\ result = IF ap0 THEN "present" ELSE "missing"
  BY <1>2, <1>3, LookEffect DEF WorldTyped
<1>5. WorldTyped' /\ World'
  BY <1>1, <1>2, <1>4 DEF WorldTyped, World, RunsOnAp0, NoDuplicateRules
<1>6. CASE \E label \in {"created", "failed"} : Goto(h, label) /\ UNCHANGED local
  <2>1. PICK label \in {"created", "failed"} : Goto(h, label)
    BY <1>6
  <2>2. label \in Labels /\ LocalsAt(label, local[h])
    BY <1>2
    DEF Labels, LocalsAt, Finding, SwitchingOn, SwitchingOff, Configuring, Written, Ending
  <2>3. ASSUME pc'[h] = label, local'[h] = local[h]
        PROVE  AtStep(h)'
    BY <2>3 DEF AtStep, Ap0At, ToggleAt, ConfigAt, RulesAt, Finding, SwitchingOn, Written,
                Ending
  <2> QED BY <1>1, <1>5, <1>6, <2>1, <2>2, <2>3, StepOn
<1>7. CASE /\ result = "missing" /\ local[h].tries + 1 < Attempts
           /\ local' = [local EXCEPT ![h].tries = @ + 1, ![h].wait = 1]
           /\ UNCHANGED pc
  <2> DEFINE me == [local[h] EXCEPT !.tries = @ + 1, !.wait = 1]
  <2>1. local[h].tries \in Nat
    BY <1>2, HostApdAssumption DEF Locals
  <2>2. /\ me \in Locals /\ me.kind = local[h].kind /\ me.net = local[h].net
        /\ me.tries = local[h].tries + 1 /\ me.wait = 1
    <3>1. local[h].tries + 1 \in 0..(Attempts - 1) /\ 1 \in 0..(Waits + 1)
      BY <1>7, <2>1, HostApdAssumption
    <3> QED BY <1>2, <3>1 DEF Locals
  <2>3. local' = [local EXCEPT ![h] = me]
    BY <1>7
  <2> HIDE DEF me
  <2>4. "lookAgain" \in Labels
    BY DEF Labels
  <2>5. Moves(h, "lookAgain", me)
    BY <1>1, <1>2, <1>7, <2>2, <2>3 DEF Typed, Moves
  <2>6. LocalsAt("lookAgain", me)
    BY <1>2, <2>2
    DEF LocalsAt, Finding, SwitchingOn, SwitchingOff, Configuring, Written, Ending
  <2>7. Known(memo, "look") => memo["look"].left \in 1..TTL
    BY <1>2, MemoAssumption DEF WorldTyped, Tables, Commands, Known, Forgotten
  <2>8. Ap0At(h)'
    <3>1. pc'[h] = "lookAgain" /\ local'[h] = me /\ ap0' = ap0
      BY <1>1, <2>5 DEF Moves
    <3>2. ASSUME ap0, Known(memo, "look")
          PROVE  /\ memo' = memo
                 /\ memo["look"].left + Waits + me.tries - me.wait <= TTL
      BY <1>1, <1>2, <1>4, <1>7, <2>1, <2>2, <2>7, <3>2, HostApdAssumption, MemoAssumption
      DEF Ap0At
    <3>3. ap0 => Known(memo, "look")
      BY <1>4, <1>7
    <3> QED BY <3>1, <3>2, <3>3 DEF Ap0At
  <2>9. AtStep(h)'
    BY <2>5, <2>8
    DEF Moves, AtStep, ToggleAt, ConfigAt, RulesAt, Finding, SwitchingOn, Written, Ending
  <2>10. \A g \in Handlers \ {h} : pc[g] = "idle"
    BY <1>1 DEF IInv, Alone
  <2> QED BY <1>5, <2>2, <2>4, <2>5, <2>6, <2>9, <2>10, StepMoves
<1> QED BY <1>3, <1>6, <1>7

LEMMA VerifyStep ==
  ASSUME IInv, NEW h \in Handlers, Verify(h)
  PROVE  IInv'
<1>1. /\ pc[h] = "verify" /\ Goto(h, "write") /\ ap0' \in BOOLEAN /\ (ap0 => ap0')
      /\ UNCHANGED <<udev, conf, dnsConf, override, running, dnsmasq, boot, rules, refused,
                     bus, local>>
  BY Own DEF Verify, files, services, firewall, WorldTyped
<1>2. LocalsAt("verify", local[h]) /\ WorldTyped /\ World
  BY <1>1, Own
<1>3. LocalsAt("write", local[h]) /\ "write" \in Labels
  BY <1>2
  DEF Labels, LocalsAt, Finding, SwitchingOn, SwitchingOff, Configuring, Written, Ending
<1>4. memo' \in Tables(Commands, Results)
  BY <1>2, LookEffect DEF Verify, WorldTyped
<1>5. WorldTyped' /\ World'
  BY <1>1, <1>2, <1>4 DEF WorldTyped, World, RunsOnAp0, NoDuplicateRules
<1>6. ASSUME pc'[h] = "write", local'[h] = local[h]
      PROVE  AtStep(h)'
  BY <1>6
  DEF AtStep, Ap0At, ToggleAt, ConfigAt, RulesAt, Finding, SwitchingOn, Written, Ending
<1> QED BY <1>1, <1>3, <1>5, <1>6, StepOn
-----------------------------------------------------------------------------
(***************************************************************************)
(* The toggle and the restart.                                             *)
(***************************************************************************)
\* hostapd is left as it is, not running if it could not be started, or started with
\* the saved configuration.
LEMMA StartEffect ==
  ASSUME WorldTyped, RunsOnAp0, UNCHANGED ap0, NEW result \in {"ok", "error"},
         StartHostapd(result)
  PROVE  /\ running' \in Configs \cup {None} /\ RunsOnAp0'
         /\ running = None => running' \in {None, conf}
BY DEF StartHostapd, CanRun, WorldTyped, RunsOnAp0

LEMMA DnsmasqEffect ==
  ASSUME WorldTyped, StartDnsmasq \/ RestartDnsmasq
  PROVE  /\ dnsmasq' \in Configs \cup {None}
         /\ RestartDnsmasq => dnsmasq' \in {None, dnsConf}
BY DEF StartDnsmasq, RestartDnsmasq, WorldTyped

LEMMA EnableDnsmasqStep ==
  ASSUME IInv, NEW h \in Handlers, EnableDnsmasq(h)
  PROVE  IInv'
<1>1. /\ pc[h] = "enableDns" /\ Goto(h, "startDnsmasq") /\ boot' = boot \cup {"dnsmasq"}
      /\ memo' \in Tables(Commands, Results)
      /\ UNCHANGED <<ap0, udev, conf, dnsConf, override, running, dnsmasq, rules, refused,
                     bus, local>>
  BY NothingTyped DEF EnableDnsmasq, NothingAskedAgain, files, firewall
<1>2. LocalsAt("enableDns", local[h]) /\ AtStep(h) /\ WorldTyped /\ World
  BY <1>1, Own DEF AtStep
<1>3. LocalsAt("startDnsmasq", local[h]) /\ "startDnsmasq" \in Labels
  BY <1>2
  DEF Labels, LocalsAt, Finding, SwitchingOn, SwitchingOff, Configuring, Written, Ending
<1>4. WorldTyped' /\ World'
  BY <1>1, <1>2 DEF WorldTyped, World, RunsOnAp0, NoDuplicateRules, Services
<1>5. ASSUME pc'[h] = "startDnsmasq", local'[h] = local[h]
      PROVE  AtStep(h)'
  BY <1>1, <1>2, <1>5
  DEF AtStep, Ap0At, ToggleAt, ConfigAt, RulesAt, Asked, LocalsAt, Finding, SwitchingOn,
      SwitchingOff, Configuring, Written, Ending
<1> QED BY <1>1, <1>3, <1>4, <1>5, StepOn

LEMMA StartDnsmasqFirstStep ==
  ASSUME IInv, NEW h \in Handlers, StartDnsmasqFirst(h)
  PROVE  IInv'
<1>1. /\ pc[h] = "startDnsmasq" /\ Goto(h, "enable") /\ StartDnsmasq
      /\ UNCHANGED <<ap0, udev, conf, dnsConf, override, running, boot, rules, refused,
                     bus, memo, local>>
  BY DEF StartDnsmasqFirst, files, firewall
<1>2. LocalsAt("startDnsmasq", local[h]) /\ AtStep(h) /\ WorldTyped /\ World
  BY <1>1, Own DEF AtStep
<1>3. LocalsAt("enable", local[h]) /\ "enable" \in Labels
  BY <1>2
  DEF Labels, LocalsAt, Finding, SwitchingOn, SwitchingOff, Configuring, Written, Ending
<1>4. WorldTyped' /\ World'
  BY <1>1, <1>2, DnsmasqEffect DEF WorldTyped, World, RunsOnAp0, NoDuplicateRules
<1>5. ASSUME pc'[h] = "enable", local'[h] = local[h]
      PROVE  AtStep(h)'
  BY <1>1, <1>2, <1>5
  DEF AtStep, Ap0At, ToggleAt, ConfigAt, RulesAt, Asked, LocalsAt, Finding, SwitchingOn,
      SwitchingOff, Configuring, Written, Ending
<1> QED BY <1>1, <1>3, <1>4, <1>5, StepOn

LEMMA EnableHostapdStep ==
  ASSUME IInv, NEW h \in Handlers, EnableHostapd(h)
  PROVE  IInv'
<1>1. /\ pc[h] = "enable" /\ Goto(h, "start") /\ boot' = boot \cup {"hostapd"}
      /\ UNCHANGED <<ap0, udev, conf, dnsConf, override, running, dnsmasq, rules, refused,
                     bus, memo, local>>
  BY DEF EnableHostapd, files, firewall
<1>2. LocalsAt("enable", local[h]) /\ AtStep(h) /\ WorldTyped /\ World
  BY <1>1, Own DEF AtStep
<1>3. LocalsAt("start", local[h]) /\ "start" \in Labels
  BY <1>2
  DEF Labels, LocalsAt, Finding, SwitchingOn, SwitchingOff, Configuring, Written, Ending
<1>4. WorldTyped' /\ World'
  BY <1>1, <1>2 DEF WorldTyped, World, RunsOnAp0, NoDuplicateRules, Services
<1>5. ASSUME pc'[h] = "start", local'[h] = local[h]
      PROVE  AtStep(h)'
  BY <1>1, <1>2, <1>5
  DEF AtStep, Ap0At, ToggleAt, ConfigAt, RulesAt, Asked, LocalsAt, Finding, SwitchingOn,
      SwitchingOff, Configuring, Written, Ending
<1> QED BY <1>1, <1>3, <1>4, <1>5, StepOn

LEMMA StopDnsmasqStep ==
  ASSUME IInv, NEW h \in Handlers, StopDnsmasq(h)
  PROVE  IInv'
<1>1. /\ pc[h] = "stopDnsmasq" /\ Goto(h, "disable") /\ dnsmasq' \in {None, dnsmasq}
      /\ UNCHANGED <<ap0, udev, conf, dnsConf, override, running, boot, rules, refused,
                     bus, memo, local>>
  BY DEF StopDnsmasq, files, firewall
<1>2. LocalsAt("stopDnsmasq", local[h]) /\ AtStep(h) /\ WorldTyped /\ World
  BY <1>1, Own DEF AtStep
<1>3. LocalsAt("disable", local[h]) /\ "disable" \in Labels
  BY <1>2
  DEF Labels, LocalsAt, Finding, SwitchingOn, SwitchingOff, Configuring, Written, Ending
<1>4. WorldTyped' /\ World'
  BY <1>1, <1>2 DEF WorldTyped, World, RunsOnAp0, NoDuplicateRules
<1>5. ASSUME pc'[h] = "disable", local'[h] = local[h]
      PROVE  AtStep(h)'
  BY <1>1, <1>2, <1>5
  DEF AtStep, Ap0At, ToggleAt, ConfigAt, RulesAt, Asked, LocalsAt, Finding, SwitchingOn,
      SwitchingOff, Configuring, Written, Ending
<1> QED BY <1>1, <1>3, <1>4, <1>5, StepOn

LEMMA DisableHostapdStep ==
  ASSUME IInv, NEW h \in Handlers, DisableHostapd(h)
  PROVE  IInv'
<1>1. /\ pc[h] = "disable" /\ Goto(h, "stop") /\ boot' = boot \ {"hostapd"}
      /\ UNCHANGED <<ap0, udev, conf, dnsConf, override, running, dnsmasq, rules, refused,
                     bus, memo, local>>
  BY DEF DisableHostapd, files, firewall
<1>2. LocalsAt("disable", local[h]) /\ AtStep(h) /\ WorldTyped /\ World
  BY <1>1, Own DEF AtStep
<1>3. LocalsAt("stop", local[h]) /\ "stop" \in Labels
  BY <1>2
  DEF Labels, LocalsAt, Finding, SwitchingOn, SwitchingOff, Configuring, Written, Ending
<1>4. WorldTyped' /\ World'
  BY <1>1, <1>2 DEF WorldTyped, World, RunsOnAp0, NoDuplicateRules
<1>5. ASSUME pc'[h] = "stop", local'[h] = local[h]
      PROVE  AtStep(h)'
  BY <1>1, <1>2, <1>5
  DEF AtStep, Ap0At, ToggleAt, ConfigAt, RulesAt, Asked, LocalsAt, Finding, SwitchingOn,
      SwitchingOff, Configuring, Written, Ending
<1> QED BY <1>1, <1>3, <1>4, <1>5, StepOn
LEMMA StartStep ==
  ASSUME IInv, NEW h \in Handlers, Start(h)
  PROVE  IInv'
<1>1. /\ pc[h] = "start"
      /\ UNCHANGED <<ap0, udev, conf, dnsConf, override, dnsmasq, boot, rules, refused,
                     bus, memo, local>>
  BY DEF Start, files, firewall
<1>2. LocalsAt("start", local[h]) /\ AtStep(h) /\ WorldTyped /\ World
  BY <1>1, Own DEF AtStep
<1>3. PICK label \in {"status", "failed"} :
        /\ Goto(h, label)
        /\ running' \in Configs \cup {None} /\ RunsOnAp0'
        /\ running = None => running' \in {None, conf}
  BY <1>1, <1>2, StartEffect DEF Start, World
<1>4. LocalsAt(label, local[h]) /\ label \in Labels
  BY <1>1, <1>2, <1>3
  DEF Labels, LocalsAt, Finding, SwitchingOn, SwitchingOff, Configuring, Written, Ending
<1>5. WorldTyped' /\ World'
  BY <1>1, <1>2, <1>3 DEF WorldTyped, World, RunsOnAp0, NoDuplicateRules
<1>6. ASSUME pc'[h] = label, local'[h] = local[h]
      PROVE  AtStep(h)'
  BY <1>1, <1>2, <1>3, <1>6
  DEF AtStep, Ap0At, ToggleAt, ConfigAt, RulesAt, Asked, LocalsAt, Finding, SwitchingOn,
      SwitchingOff, Configuring, Written, Ending
<1> QED BY <1>1, <1>3, <1>4, <1>5, <1>6, StepOn

LEMMA ReadStatusStep ==
  ASSUME IInv, NEW h \in Handlers, ReadStatus(h)
  PROVE  IInv'
<1>1. /\ pc[h] = "status"
      /\ UNCHANGED <<ap0, udev, conf, dnsConf, override, running, dnsmasq, boot, rules,
                     refused, bus, memo,
                  local>>
  BY DEF ReadStatus, world, files, services, firewall
<1>2. LocalsAt("status", local[h]) /\ AtStep(h) /\ WorldTyped /\ World
  BY <1>1, Own DEF AtStep
<1>3. PICK label \in {"on", "failed"} :
        /\ Goto(h, label)
  BY <1>1, <1>2 DEF ReadStatus
<1>4. LocalsAt(label, local[h]) /\ label \in Labels
  BY <1>1, <1>2, <1>3
  DEF Labels, LocalsAt, Finding, SwitchingOn, SwitchingOff, Configuring, Written, Ending
<1>5. WorldTyped' /\ World'
  BY <1>1, <1>2, <1>3 DEF WorldTyped, World, RunsOnAp0, NoDuplicateRules
<1>6. ASSUME pc'[h] = label, local'[h] = local[h]
      PROVE  AtStep(h)'
  BY <1>1, <1>2, <1>3, <1>6
  DEF AtStep, Ap0At, ToggleAt, ConfigAt, RulesAt, Asked, LocalsAt, Finding, SwitchingOn,
      SwitchingOff, Configuring, Written, Ending
<1> QED BY <1>1, <1>3, <1>4, <1>5, <1>6, StepOn

LEMMA StopStep ==
  ASSUME IInv, NEW h \in Handlers, Stop(h)
  PROVE  IInv'
<1>1. /\ pc[h] \in {"stop", "stopFirst"}
      /\ UNCHANGED <<ap0, udev, conf, dnsConf, override, dnsmasq, boot, rules, refused,
                     bus, memo, local>>
  BY DEF Stop, files, firewall
<1>2. LocalsAt(pc[h], local[h]) /\ AtStep(h) /\ WorldTyped /\ World
  BY <1>1, Own DEF AtStep
<1>3. PICK label \in {"off", "startAfter", "failed", "startAnyway"} :
        /\ Goto(h, label)
        /\ running' \in {None, running}
        /\ label = "startAfter" => running' = None
  BY <1>1, <1>2 DEF Stop, StopHostapd
<1>4. LocalsAt(label, local[h]) /\ label \in Labels
  BY <1>1, <1>2, <1>3
  DEF Labels, LocalsAt, Finding, SwitchingOn, SwitchingOff, Configuring, Written, Ending
<1>5. WorldTyped' /\ World'
  BY <1>1, <1>2, <1>3 DEF WorldTyped, World, RunsOnAp0, NoDuplicateRules
<1>6. ASSUME pc'[h] = label, local'[h] = local[h]
      PROVE  AtStep(h)'
  BY <1>1, <1>2, <1>3, <1>6
  DEF AtStep, Ap0At, ToggleAt, ConfigAt, RulesAt, Asked, LocalsAt, Finding, SwitchingOn,
      SwitchingOff, Configuring, Written, Ending
<1> QED BY <1>1, <1>3, <1>4, <1>5, <1>6, StepOn

LEMMA StartAfterStep ==
  ASSUME IInv, NEW h \in Handlers, StartAfter(h)
  PROVE  IInv'
<1>1. /\ pc[h] \in {"startAfter", "startAnyway"}
      /\ UNCHANGED <<ap0, udev, conf, dnsConf, override, dnsmasq, boot, rules, refused,
                     bus, memo, local>>
  BY DEF StartAfter, files, firewall
<1>2. LocalsAt(pc[h], local[h]) /\ AtStep(h) /\ WorldTyped /\ World
  BY <1>1, Own DEF AtStep
<1>3. PICK label \in {"restarted", "failed"} :
        /\ Goto(h, label)
        /\ running' \in Configs \cup {None} /\ RunsOnAp0'
  BY <1>1, <1>2, StartEffect DEF StartAfter, World
<1>4. LocalsAt(label, local[h]) /\ label \in Labels
  BY <1>1, <1>2, <1>3
  DEF Labels, LocalsAt, Finding, SwitchingOn, SwitchingOff, Configuring, Written, Ending
<1>5. WorldTyped' /\ World'
  BY <1>1, <1>2, <1>3 DEF WorldTyped, World, RunsOnAp0, NoDuplicateRules
<1>6. ASSUME pc'[h] = label, local'[h] = local[h]
      PROVE  AtStep(h)'
  BY <1>1, <1>2, <1>3, <1>6
  DEF AtStep, Ap0At, ToggleAt, ConfigAt, RulesAt, Asked, LocalsAt, Finding, SwitchingOn,
      SwitchingOff, Configuring, Written, Ending
<1> QED BY <1>1, <1>3, <1>4, <1>5, <1>6, StepOn

-----------------------------------------------------------------------------
(***************************************************************************)
(* The configuration.                                                      *)
(***************************************************************************)
\* What a configuration asks for is a configuration.
LEMMA ConfiguringAsks ==
  ASSUME IInv, NEW h \in Handlers, pc[h] \in Configuring
  PROVE  /\ Asked(h) \in Configs /\ Asked(h).iface = local[h].iface
         /\ \A own \in OwnRules(h) : own \subseteq Rules
BY Own, AskedTyped DEF LocalsAt

LEMMA WriteUdevStep ==
  ASSUME IInv, NEW h \in Handlers, WriteUdev(h)
  PROVE  IInv'
<1>1. /\ pc[h] = "udev" /\ Goto(h, "look") /\ udev' \in {TRUE, udev}
      /\ UNCHANGED <<ap0, conf, dnsConf, override, running, dnsmasq, boot, rules, refused,
                     bus, memo, local>>
  BY DEF WriteUdev, services, firewall
<1>2. LocalsAt("udev", local[h]) /\ AtStep(h) /\ WorldTyped /\ World
  BY <1>1, Own DEF AtStep
<1>3. LocalsAt("look", local[h]) /\ "look" \in Labels
  BY <1>2
  DEF Labels, LocalsAt, Finding, SwitchingOn, SwitchingOff, Configuring, Written, Ending
<1>4. WorldTyped' /\ World'
  BY <1>1, <1>2 DEF WorldTyped, World, RunsOnAp0, NoDuplicateRules
<1>5. ASSUME pc'[h] = "look", local'[h] = local[h]
      PROVE  AtStep(h)'
  BY <1>1, <1>2, <1>5
  DEF AtStep, Ap0At, ToggleAt, ConfigAt, RulesAt, Asked, LocalsAt, Finding, SwitchingOn,
      SwitchingOff, Configuring, Written, Ending
<1> QED BY <1>1, <1>3, <1>4, <1>5, StepOn

LEMMA WriteConfStep ==
  ASSUME IInv, NEW h \in Handlers, WriteConf(h)
  PROVE  IInv'
<1>1. /\ pc[h] = "write"
      /\ UNCHANGED <<ap0, udev, dnsConf, override, running, dnsmasq, boot, rules, refused,
                     bus, memo, local>>
  BY DEF WriteConf, services, firewall
<1>2. LocalsAt("write", local[h]) /\ AtStep(h) /\ WorldTyped /\ World
  BY <1>1, Own DEF AtStep
<1>3. PICK label \in {"writeDns", "failed"} :
        /\ Goto(h, label)
        /\ label = "writeDns" => conf' = Asked(h)
        /\ conf' \in Configs \cup {None}
  BY <1>1, <1>2, ConfiguringAsks DEF WriteConf, WorldTyped, Configuring
<1>4. LocalsAt(label, local[h]) /\ label \in Labels
  BY <1>1, <1>2, <1>3
  DEF Labels, LocalsAt, Finding, SwitchingOn, SwitchingOff, Configuring, Written, Ending
<1>5. WorldTyped' /\ World'
  BY <1>1, <1>2, <1>3 DEF WorldTyped, World, RunsOnAp0, NoDuplicateRules
<1>6. ASSUME pc'[h] = label, local'[h] = local[h]
      PROVE  AtStep(h)'
  BY <1>1, <1>2, <1>3, <1>6
  DEF AtStep, Ap0At, ToggleAt, ConfigAt, RulesAt, Asked, LocalsAt, Finding, SwitchingOn,
      SwitchingOff, Configuring, Written, Ending
<1> QED BY <1>1, <1>3, <1>4, <1>5, <1>6, StepOn

LEMMA WriteDnsConfStep ==
  ASSUME IInv, NEW h \in Handlers, WriteDnsConf(h)
  PROVE  IInv'
<1>1. /\ pc[h] = "writeDns"
      /\ UNCHANGED <<ap0, udev, conf, override, running, dnsmasq, boot, rules, refused,
                     bus, memo, local>>
  BY DEF WriteDnsConf, services, firewall
<1>2. LocalsAt("writeDns", local[h]) /\ AtStep(h) /\ WorldTyped /\ World
  BY <1>1, Own DEF AtStep
<1>3. PICK label \in {"deleteRules", "failed"} :
        /\ Goto(h, label)
        /\ label = "deleteRules" => dnsConf' = Asked(h)
        /\ dnsConf' \in Configs \cup {None}
  BY <1>1, <1>2, ConfiguringAsks DEF WriteDnsConf, WorldTyped, Configuring
<1>4. LocalsAt(label, local[h]) /\ label \in Labels
  BY <1>1, <1>2, <1>3
  DEF Labels, LocalsAt, Finding, SwitchingOn, SwitchingOff, Configuring, Written, Ending
<1>5. WorldTyped' /\ World'
  BY <1>1, <1>2, <1>3 DEF WorldTyped, World, RunsOnAp0, NoDuplicateRules
<1>6. ASSUME pc'[h] = label, local'[h] = local[h]
      PROVE  AtStep(h)'
  BY <1>1, <1>2, <1>3, <1>6
  DEF AtStep, Ap0At, ToggleAt, ConfigAt, RulesAt, Asked, LocalsAt, Finding, SwitchingOn,
      SwitchingOff, Configuring, Written, Ending
<1> QED BY <1>1, <1>3, <1>4, <1>5, <1>6, StepOn

\* The rules that a request deletes and adds are in its locals in between.
LEMMA OwnMoves ==
  ASSUME Typed, NEW h \in Handlers, NEW label \in {"addRules", "override"},
         NEW own \in SUBSET Rules, Goto(h, label), local' = [local EXCEPT ![h].own = own],
         pc[h] \in Written
  PROVE  LET me == [local[h] EXCEPT !.own = own]
         IN  /\ me \in Locals /\ label \in Labels /\ Moves(h, label, me)
             /\ LocalsAt(label, me) /\ me.own = own
             /\ me.net = local[h].net /\ me.iface = local[h].iface
<1> DEFINE me == [local[h] EXCEPT !.own = own]
<1>1. local[h] \in Locals /\ LocalsAt(pc[h], local[h])
  BY DEF Typed
<1>2. /\ me \in Locals /\ me.own = own /\ me.net = local[h].net /\ me.iface = local[h].iface
      /\ me.kind = local[h].kind
  BY <1>1 DEF Locals
<1>3. local' = [local EXCEPT ![h] = me]
  OBVIOUS
<1> HIDE DEF me
<1>4. label \in Labels /\ LocalsAt(label, me)
  BY <1>1, <1>2
  DEF Labels, LocalsAt, Finding, SwitchingOn, SwitchingOff, Configuring, Written, Ending
<1>5. Moves(h, label, me)
  BY <1>2, <1>3, <1>4, MovesWith
<1> QED BY <1>2, <1>4, <1>5 DEF me

LEMMA DeleteRulesStep ==
  ASSUME IInv, NEW h \in Handlers, DeleteRules(h)
  PROVE  IInv'
<1>1. /\ pc[h] = "deleteRules" /\ Goto(h, "addRules")
      /\ UNCHANGED <<ap0, udev, conf, dnsConf, override, running, dnsmasq, boot, bus, memo>>
  BY DEF DeleteRules, files, services
<1>2. /\ LocalsAt("deleteRules", local[h]) /\ AtStep(h) /\ Typed /\ WorldTyped /\ World
      /\ \A own \in OwnRules(h) : own \subseteq Rules
  BY <1>1, Own, ConfiguringAsks DEF AtStep, Configuring, Written
<1>3. PICK own \in SUBSET Rules, denied \in SUBSET Rules :
        /\ local' = [local EXCEPT ![h].own = own]
        /\ rules' = [r \in Rules |->
                       IF r \in own \ denied /\ rules[r] > 0 THEN rules[r] - 1 ELSE rules[r]]
        /\ refused' = refused \cup denied
  BY <1>2 DEF DeleteRules
<1> DEFINE me == [local[h] EXCEPT !.own = own]
<1>4. /\ me \in Locals /\ "addRules" \in Labels /\ Moves(h, "addRules", me)
      /\ LocalsAt("addRules", me) /\ me.own = own
      /\ me.net = local[h].net /\ me.iface = local[h].iface
  BY <1>1, <1>2, <1>3, OwnMoves DEF Written
<1> HIDE DEF me
<1>5. WorldTyped'
  <2>1. \A r \in Rules : rules[r] \in 0..MaxCopies /\ rules[r] \in Int
    BY <1>2, HostApdAssumption DEF WorldTyped
  <2>2. rules' \in [Rules -> 0..MaxCopies]
    BY <1>3, <2>1, HostApdAssumption
  <2> QED BY <1>1, <1>2, <1>3, <2>2 DEF WorldTyped
<1>6. \A r \in Rules \ refused' : r \notin denied /\ rules[r] \in {0, 1}
  BY <1>2, <1>3, HostApdAssumption DEF World, NoDuplicateRules, WorldTyped
<1>7. World'
  BY <1>1, <1>2, <1>3, <1>6 DEF World, RunsOnAp0, NoDuplicateRules
<1>8. AtStep(h)'
  <2>1. pc'[h] = "addRules" /\ local'[h] = me
    BY <1>4 DEF Moves
  <2>2. RulesAt(h)'
    BY <1>3, <1>4, <1>6, <2>1 DEF RulesAt
  <2>3. Ap0At(h)' /\ ToggleAt(h)'
    BY <2>1 DEF Ap0At, ToggleAt, Finding, SwitchingOn
  <2>4. ConfigAt(h)'
    BY <1>1, <1>2, <1>4, <2>1 DEF AtStep, ConfigAt, Asked, Written, Ending
  <2> QED BY <2>2, <2>3, <2>4 DEF AtStep
<1>9. \A g \in Handlers \ {h} : pc[g] = "idle"
  BY <1>1 DEF IInv, Alone
<1> QED BY <1>4, <1>5, <1>7, <1>8, <1>9, StepMoves

LEMMA AddRulesStep ==
  ASSUME IInv, NEW h \in Handlers, AddRules(h)
  PROVE  IInv'
<1>1. /\ pc[h] = "addRules" /\ Goto(h, "override")
      /\ local' = [local EXCEPT ![h].own = {}]
      /\ UNCHANGED <<ap0, udev, conf, dnsConf, override, running, dnsmasq, boot, refused,
                     bus,
                     memo>>
  BY DEF AddRules, files, services
<1>2. /\ LocalsAt("addRules", local[h]) /\ AtStep(h) /\ Typed /\ WorldTyped /\ World
      /\ RulesAt(h)
  BY <1>1, Own DEF AtStep
<1>3. PICK added \in SUBSET local[h].own :
        /\ \A r \in added : rules[r] < MaxCopies
        /\ rules' = [r \in Rules |-> IF r \in added THEN rules[r] + 1 ELSE rules[r]]
  BY DEF AddRules
<1> DEFINE me == [local[h] EXCEPT !.own = {}]
<1>4. /\ me \in Locals /\ "override" \in Labels /\ Moves(h, "override", me)
      /\ LocalsAt("override", me)
      /\ me.net = local[h].net /\ me.iface = local[h].iface
  <2>1. {} \in SUBSET Rules
    OBVIOUS
  <2> QED BY <1>1, <1>2, <2>1, OwnMoves DEF Written
<1> HIDE DEF me
<1>5. WorldTyped'
  <2>1. \A r \in Rules : rules[r] \in 0..MaxCopies /\ rules[r] \in Int
    BY <1>2, HostApdAssumption DEF WorldTyped
  <2>2. rules' \in [Rules -> 0..MaxCopies]
    BY <1>3, <2>1, HostApdAssumption
  <2> QED BY <1>1, <1>2, <2>2 DEF WorldTyped
<1>6. \A r \in Rules \ refused : rules'[r] <= 1
  BY <1>1, <1>2, <1>3 DEF World, NoDuplicateRules, RulesAt
<1>7. World'
  BY <1>1, <1>2, <1>6 DEF World, RunsOnAp0, NoDuplicateRules
<1>8. AtStep(h)'
  <2>1. pc'[h] = "override" /\ local'[h] = me
    BY <1>4 DEF Moves
  <2>2. Ap0At(h)' /\ ToggleAt(h)' /\ RulesAt(h)'
    BY <2>1 DEF Ap0At, ToggleAt, RulesAt, Finding, SwitchingOn
  <2>3. ConfigAt(h)'
    BY <1>1, <1>2, <1>4, <2>1 DEF AtStep, ConfigAt, Asked, Written, Ending
  <2> QED BY <2>2, <2>3 DEF AtStep
<1>9. \A g \in Handlers \ {h} : pc[g] = "idle"
  BY <1>1 DEF IInv, Alone
<1> QED BY <1>4, <1>5, <1>7, <1>8, <1>9, StepMoves

LEMMA WriteOverrideStep ==
  ASSUME IInv, NEW h \in Handlers, WriteOverride(h)
  PROVE  IInv'
<1>1. /\ pc[h] = "override" /\ Goto(h, "prestart") /\ CopyOverride("plain")
      /\ UNCHANGED <<ap0, udev, conf, dnsConf, running, dnsmasq, boot, rules, refused, bus,
                     local>>
  BY DEF WriteOverride, services, firewall
<1>2. LocalsAt("override", local[h]) /\ AtStep(h) /\ WorldTyped /\ World
  BY <1>1, Own DEF AtStep
<1>3. LocalsAt("prestart", local[h]) /\ "prestart" \in Labels
  BY <1>2
  DEF Labels, LocalsAt, Finding, SwitchingOn, SwitchingOff, Configuring, Written, Ending
<1>4. WorldTyped' /\ World'
  BY <1>1, <1>2, CopyEffect DEF WorldTyped, World, RunsOnAp0, NoDuplicateRules
<1>5. ASSUME pc'[h] = "prestart", local'[h] = local[h]
      PROVE  AtStep(h)'
  BY <1>1, <1>2, <1>5
  DEF AtStep, Ap0At, ToggleAt, ConfigAt, RulesAt, Asked, LocalsAt, Finding, SwitchingOn,
      SwitchingOff, Configuring, Written, Ending
<1> QED BY <1>1, <1>3, <1>4, <1>5, StepOn

LEMMA WritePrestartStep ==
  ASSUME IInv, NEW h \in Handlers, WritePrestart(h)
  PROVE  IInv'
<1>1. /\ pc[h] = "prestart" /\ Goto(h, "enableBoth") /\ CopyOverride("prestart")
      /\ UNCHANGED <<ap0, udev, conf, dnsConf, running, dnsmasq, boot, rules, refused, bus,
                     local>>
  BY DEF WritePrestart, services, firewall
<1>2. LocalsAt("prestart", local[h]) /\ AtStep(h) /\ WorldTyped /\ World
  BY <1>1, Own DEF AtStep
<1>3. LocalsAt("enableBoth", local[h]) /\ "enableBoth" \in Labels
  BY <1>2
  DEF Labels, LocalsAt, Finding, SwitchingOn, SwitchingOff, Configuring, Written, Ending
<1>4. WorldTyped' /\ World'
  BY <1>1, <1>2, CopyEffect DEF WorldTyped, World, RunsOnAp0, NoDuplicateRules
<1>5. ASSUME pc'[h] = "enableBoth", local'[h] = local[h]
      PROVE  AtStep(h)'
  BY <1>1, <1>2, <1>5
  DEF AtStep, Ap0At, ToggleAt, ConfigAt, RulesAt, Asked, LocalsAt, Finding, SwitchingOn,
      SwitchingOff, Configuring, Written, Ending
<1> QED BY <1>1, <1>3, <1>4, <1>5, StepOn

LEMMA EnableBothStep ==
  ASSUME IInv, NEW h \in Handlers, EnableBoth(h)
  PROVE  IInv'
<1>1. /\ pc[h] = "enableBoth" /\ Goto(h, "restartDnsmasq") /\ boot' = Services
      /\ memo' \in Tables(Commands, Results)
      /\ UNCHANGED <<ap0, udev, conf, dnsConf, override, running, dnsmasq, rules, refused,
                     bus, local>>
  BY Own DEF EnableBoth, files, firewall, WorldTyped, Tables, Commands
<1>2. LocalsAt("enableBoth", local[h]) /\ AtStep(h) /\ WorldTyped /\ World
  BY <1>1, Own DEF AtStep
<1>3. LocalsAt("restartDnsmasq", local[h]) /\ "restartDnsmasq" \in Labels
  BY <1>2
  DEF Labels, LocalsAt, Finding, SwitchingOn, SwitchingOff, Configuring, Written, Ending
<1>4. WorldTyped' /\ World'
  BY <1>1, <1>2 DEF WorldTyped, World, RunsOnAp0, NoDuplicateRules
<1>5. ASSUME pc'[h] = "restartDnsmasq", local'[h] = local[h]
      PROVE  AtStep(h)'
  BY <1>1, <1>2, <1>5
  DEF AtStep, Ap0At, ToggleAt, ConfigAt, RulesAt, Asked, LocalsAt, Finding, SwitchingOn,
      SwitchingOff, Configuring, Written, Ending
<1> QED BY <1>1, <1>3, <1>4, <1>5, StepOn
LEMMA RestartDnsmasqKeeps ==
  ASSUME IInv, NEW h \in Handlers, RestartDnsmasqStep(h)
  PROVE  IInv'
<1>1. /\ pc[h] \in {"restartDnsmasq", "restartAgain"}
      /\ UNCHANGED <<ap0, udev, conf, dnsConf, override, running, boot, rules, refused,
                     bus, memo, local>>
  BY DEF RestartDnsmasqStep, files, firewall
<1>2. LocalsAt(pc[h], local[h]) /\ AtStep(h) /\ WorldTyped /\ World
  BY <1>1, Own DEF AtStep
<1>3. PICK label \in {"configured", "lookBefore", "restart"} :
        /\ Goto(h, label)
        /\ dnsmasq' \in Configs \cup {None}
        /\ label = "configured" => pc[h] = "restartAgain" /\ dnsmasq' \in {None, dnsConf}
  BY <1>1, <1>2, DnsmasqEffect DEF RestartDnsmasqStep
<1>4. LocalsAt(label, local[h]) /\ label \in Labels
  BY <1>1, <1>2, <1>3
  DEF Labels, LocalsAt, Finding, SwitchingOn, SwitchingOff, Configuring, Written, Ending
<1>5. WorldTyped' /\ World'
  BY <1>1, <1>2, <1>3 DEF WorldTyped, World, RunsOnAp0, NoDuplicateRules
<1>6. ASSUME pc'[h] = label, local'[h] = local[h]
      PROVE  AtStep(h)'
  BY <1>1, <1>2, <1>3, <1>6
  DEF AtStep, Ap0At, ToggleAt, ConfigAt, RulesAt, Asked, LocalsAt, Finding, SwitchingOn,
      SwitchingOff, Configuring, Written, Ending
<1> QED BY <1>1, <1>3, <1>4, <1>5, <1>6, StepOn

LEMMA LookBeforeStep ==
  ASSUME IInv, NEW h \in Handlers, LookBefore(h)
  PROVE  IInv'
<1>1. /\ pc[h] = "lookBefore"
      /\ UNCHANGED <<ap0, udev, conf, dnsConf, override, running, dnsmasq, boot, rules,
                     refused, bus, local>>
  BY DEF LookBefore, world, files, services, firewall
<1>2. LocalsAt("lookBefore", local[h]) /\ AtStep(h) /\ WorldTyped /\ World
  BY <1>1, Own DEF AtStep
<1>3. PICK label \in {"restart", "createLate"} :
        /\ Goto(h, label)
        /\ memo' \in Tables(Commands, Results)
  BY <1>1, <1>2, LookEffect DEF LookBefore, WorldTyped
<1>4. LocalsAt(label, local[h]) /\ label \in Labels
  BY <1>1, <1>2, <1>3
  DEF Labels, LocalsAt, Finding, SwitchingOn, SwitchingOff, Configuring, Written, Ending
<1>5. WorldTyped' /\ World'
  BY <1>1, <1>2, <1>3 DEF WorldTyped, World, RunsOnAp0, NoDuplicateRules
<1>6. ASSUME pc'[h] = label, local'[h] = local[h]
      PROVE  AtStep(h)'
  BY <1>1, <1>2, <1>3, <1>6
  DEF AtStep, Ap0At, ToggleAt, ConfigAt, RulesAt, Asked, LocalsAt, Finding, SwitchingOn,
      SwitchingOff, Configuring, Written, Ending
<1> QED BY <1>1, <1>3, <1>4, <1>5, <1>6, StepOn

LEMMA CreateLateStep ==
  ASSUME IInv, NEW h \in Handlers, CreateLate(h)
  PROVE  IInv'
<1>1. /\ pc[h] = "createLate" /\ Goto(h, "lookLate")
      /\ memo' \in Tables(Commands, Results) /\ ap0' \in BOOLEAN /\ (ap0 => ap0')
      /\ UNCHANGED <<udev, conf, dnsConf, override, running, dnsmasq, boot, rules, refused,
                     bus, local>>
  BY Own, CreateEffect DEF CreateLate, files, services, firewall, WorldTyped
<1>2. LocalsAt("createLate", local[h]) /\ AtStep(h) /\ WorldTyped /\ World
  BY <1>1, Own DEF AtStep
<1>3. LocalsAt("lookLate", local[h]) /\ "lookLate" \in Labels
  BY <1>2
  DEF Labels, LocalsAt, Finding, SwitchingOn, SwitchingOff, Configuring, Written, Ending
<1>4. WorldTyped' /\ World'
  BY <1>1, <1>2 DEF WorldTyped, World, RunsOnAp0, NoDuplicateRules
<1>5. ASSUME pc'[h] = "lookLate", local'[h] = local[h]
      PROVE  AtStep(h)'
  BY <1>1, <1>2, <1>5
  DEF AtStep, Ap0At, ToggleAt, ConfigAt, RulesAt, Asked, LocalsAt, Finding, SwitchingOn,
      SwitchingOff, Configuring, Written, Ending
<1> QED BY <1>1, <1>3, <1>4, <1>5, StepOn

LEMMA LookLateStep ==
  ASSUME IInv, NEW h \in Handlers, LookLate(h)
  PROVE  IInv'
<1>1. /\ pc[h] = "lookLate"
      /\ UNCHANGED <<ap0, udev, conf, dnsConf, override, running, dnsmasq, boot, rules,
                     refused, bus, local>>
  BY DEF LookLate, world, files, services, firewall
<1>2. LocalsAt("lookLate", local[h]) /\ AtStep(h) /\ WorldTyped /\ World
  BY <1>1, Own DEF AtStep
<1>3. PICK label \in {"restart", "failed"} :
        /\ Goto(h, label)
        /\ memo' \in Tables(Commands, Results)
  BY <1>1, <1>2, LookEffect DEF LookLate, WorldTyped
<1>4. LocalsAt(label, local[h]) /\ label \in Labels
  BY <1>1, <1>2, <1>3
  DEF Labels, LocalsAt, Finding, SwitchingOn, SwitchingOff, Configuring, Written, Ending
<1>5. WorldTyped' /\ World'
  BY <1>1, <1>2, <1>3 DEF WorldTyped, World, RunsOnAp0, NoDuplicateRules
<1>6. ASSUME pc'[h] = label, local'[h] = local[h]
      PROVE  AtStep(h)'
  BY <1>1, <1>2, <1>3, <1>6
  DEF AtStep, Ap0At, ToggleAt, ConfigAt, RulesAt, Asked, LocalsAt, Finding, SwitchingOn,
      SwitchingOff, Configuring, Written, Ending
<1> QED BY <1>1, <1>3, <1>4, <1>5, <1>6, StepOn

LEMMA RestartStep ==
  ASSUME IInv, NEW h \in Handlers, Restart(h)
  PROVE  IInv'
<1>1. /\ pc[h] = "restart"
      /\ memo' \in Tables(Commands, Results)
      /\ UNCHANGED <<ap0, udev, conf, dnsConf, override, dnsmasq, boot, rules, refused,
                     bus, local>>
  BY NothingTyped DEF Restart, NothingAskedAgain, files, firewall
<1>2. LocalsAt("restart", local[h]) /\ AtStep(h) /\ WorldTyped /\ World
  BY <1>1, Own DEF AtStep
<1>3. PICK label \in {"restartAgain", "failed"} :
        /\ Goto(h, label)
        /\ running' \in {None, conf} /\ RunsOnAp0'
  BY <1>1, <1>2 DEF Restart, RestartHostapd, CanRun, RunsOnAp0
<1>4. LocalsAt(label, local[h]) /\ label \in Labels
  BY <1>1, <1>2, <1>3
  DEF Labels, LocalsAt, Finding, SwitchingOn, SwitchingOff, Configuring, Written, Ending
<1>5. WorldTyped' /\ World'
  BY <1>1, <1>2, <1>3 DEF WorldTyped, World, RunsOnAp0, NoDuplicateRules
<1>6. ASSUME pc'[h] = label, local'[h] = local[h]
      PROVE  AtStep(h)'
  BY <1>1, <1>2, <1>3, <1>6
  DEF AtStep, Ap0At, ToggleAt, ConfigAt, RulesAt, Asked, LocalsAt, Finding, SwitchingOn,
      SwitchingOff, Configuring, Written, Ending
<1> QED BY <1>1, <1>3, <1>4, <1>5, <1>6, StepOn
-----------------------------------------------------------------------------
(***************************************************************************)
(* The environment.                                                        *)
(***************************************************************************)
LEMMA AroundStep ==
  ASSUME IInv, UNCHANGED <<pc, local>>, WorldTyped', World',
         \A h \in Handlers : AtStep(h)'
  PROVE  IInv'
BY DEF IInv, Typed, Alone, LocalsAt

LEMMA CrashStep == ASSUME IInv, Crash PROVE IInv'
<1>1. /\ running' = None
      /\ UNCHANGED <<ap0, udev, conf, dnsConf, override, dnsmasq, boot, rules, refused,
                     bus, memo, pc, local>>
  BY DEF Crash, files, firewall
<1>2. WorldTyped' /\ World'
  BY <1>1 DEF IInv, Typed, WorldTyped, World, RunsOnAp0, NoDuplicateRules
<1>3. ASSUME NEW h \in Handlers
      PROVE  AtStep(h)'
  <2>1. AtStep(h)
    BY DEF IInv
  <2> QED BY <1>1, <2>1 DEF AtStep, Ap0At, ToggleAt, ConfigAt, RulesAt, Asked
<1> QED BY <1>1, <1>2, <1>3, AroundStep

LEMMA LoseAp0Step == ASSUME IInv, LoseAp0 PROVE IInv'
<1>1. /\ ap0' = FALSE /\ running' = Without(running)
      /\ UNCHANGED <<udev, conf, dnsConf, override, dnsmasq, boot, rules, refused, bus,
                     memo, pc, local>>
  BY DEF LoseAp0, files, firewall
<1>2. WorldTyped' /\ World'
  BY <1>1, WithoutEither DEF IInv, Typed, WorldTyped, World, RunsOnAp0, NoDuplicateRules
<1>3. ASSUME NEW h \in Handlers
      PROVE  AtStep(h)'
  <2>1. AtStep(h)
    BY DEF IInv
  <2>2. running' \in {None, running}
    BY <1>1, WithoutEither
  <2> QED BY <1>1, <2>1, <2>2
    DEF AtStep, Ap0At, ToggleAt, ConfigAt, RulesAt, Asked
<1> QED BY <1>1, <1>2, <1>3, AroundStep

LEMMA LoseDnsmasqStep == ASSUME IInv, LoseDnsmasq PROVE IInv'
<1>1. /\ dnsmasq' = None
      /\ UNCHANGED <<ap0, udev, conf, dnsConf, override, running, boot, rules, refused,
                     bus, memo, pc, local>>
  BY DEF LoseDnsmasq, files, firewall
<1>2. WorldTyped' /\ World'
  BY <1>1 DEF IInv, Typed, WorldTyped, World, RunsOnAp0, NoDuplicateRules
<1>3. ASSUME NEW h \in Handlers
      PROVE  AtStep(h)'
  <2>1. AtStep(h)
    BY DEF IInv
  <2> QED BY <1>1, <2>1 DEF AtStep, Ap0At, ToggleAt, ConfigAt, RulesAt, Asked
<1> QED BY <1>1, <1>2, <1>3, AroundStep

\* A tick is off what the handler has still to wait, and off what the memo has left.
LEMMA TickStep == ASSUME IInv, Tick PROVE IInv'
<1>1. /\ memo' = Aged(memo)
      /\ UNCHANGED <<ap0, udev, conf, dnsConf, override, running, dnsmasq, boot, rules,
                     refused, bus, pc>>
  BY DEF Tick, world, files, services, firewall
<1>2. memo \in Tables(Commands, Results)
  BY DEF IInv, Typed, WorldTyped
<1>3. "look" \in Commands
  BY DEF Commands
<1>4. /\ memo' \in Tables(Commands, Results)
      /\ Known(memo', "look") =>
           /\ Known(memo, "look") /\ memo'["look"].result = memo["look"].result
           /\ memo["look"].left \in Nat /\ memo'["look"].left = memo["look"].left - 1
  BY <1>1, <1>2, <1>3, AgedTyped
<1>5. WorldTyped' /\ World'
  BY <1>1, <1>4 DEF IInv, Typed, WorldTyped, World, RunsOnAp0, NoDuplicateRules
<1>6. ASSUME NEW h \in Handlers
      PROVE  /\ local'[h] \in Locals
             /\ local'[h].kind = local[h].kind /\ local'[h].net = local[h].net
             /\ local'[h].iface = local[h].iface /\ local'[h].tries = local[h].tries
             /\ local'[h].own = local[h].own
             /\ {local[h].tries, local[h].wait, local'[h].wait} \subseteq Nat
             /\ \/ local'[h] = local[h] /\ (pc[h] = "lookAgain" => local[h].wait = 0)
                \/ /\ pc[h] = "lookAgain" /\ local[h].wait > 0
                   /\ local'[h].wait = local[h].wait - 1
  <2>1. local[h] \in Locals
    BY Own
  <2>2. local[h].tries \in Nat /\ local[h].wait \in Nat
    BY <2>1, HostApdAssumption DEF Locals
  <2>3. CASE pc[h] = "lookAgain" /\ local[h].wait > 0
    <3> DEFINE me == [local[h] EXCEPT !.wait = @ - 1]
    <3>1. local'[h] = me
      BY <2>3 DEF Tick
    <3>2. /\ me \in Locals /\ me.wait = local[h].wait - 1
          /\ me.kind = local[h].kind /\ me.net = local[h].net
          /\ me.iface = local[h].iface /\ me.tries = local[h].tries /\ me.own = local[h].own
      BY <2>1, <2>2, <2>3, HostApdAssumption DEF Locals
    <3> HIDE DEF me
    <3> QED BY <2>2, <2>3, <3>1, <3>2
  <2>4. CASE ~(pc[h] = "lookAgain" /\ local[h].wait > 0)
    <3>1. local'[h] = local[h]
      BY <2>4 DEF Tick
    <3> QED BY <2>1, <2>2, <2>4, <3>1
  <2> QED BY <2>3, <2>4
<1>7. local' \in [Handlers -> Locals]
  <2>1. DOMAIN local' = Handlers /\ local' = [h \in Handlers |-> local'[h]]
    BY DEF Tick
  <2> QED BY <1>6, <2>1
<1>8. ASSUME NEW h \in Handlers
      PROVE  LocalsAt(pc[h], local[h])'
  <2>1. LocalsAt(pc[h], local[h])
    BY Own
  <2>2. pc[h] = "idle" => local'[h] = local[h]
    BY <1>6
  <2> QED BY <1>1, <1>6, <2>1, <2>2 DEF LocalsAt
<1>9. Typed'
  BY <1>1, <1>5, <1>7, <1>8 DEF IInv, Typed
<1>10. ASSUME NEW h \in Handlers
       PROVE  AtStep(h)'
  <2>1. AtStep(h)
    BY DEF IInv
  <2>2. Ap0At(h)'
    <3>1. \/ local'[h].wait = local[h].wait /\ local[h].wait = 0
          \/ local'[h].wait = local[h].wait - 1
          \/ pc[h] # "lookAgain"
      BY <1>6
    <3> QED BY <1>1, <1>4, <1>6, <2>1, <3>1, HostApdAssumption, MemoAssumption
      DEF AtStep, Ap0At, Known
  <2>3. ToggleAt(h)' /\ ConfigAt(h)' /\ RulesAt(h)'
    BY <1>1, <1>6, <2>1 DEF AtStep, ToggleAt, ConfigAt, RulesAt, Asked
  <2> QED BY <2>2, <2>3 DEF AtStep
<1>11. Alone'
  BY <1>1 DEF IInv, Alone
<1> QED BY <1>5, <1>9, <1>10, <1>11 DEF IInv

\* After a cut no request is under way and nothing is remembered.
LEMMA CutStep ==
  ASSUME Cut, WorldTyped', World'
  PROVE  IInv'
<1>1. ASSUME NEW h \in Handlers
      PROVE  /\ pc'[h] = "idle" /\ local'[h] = NoLocals
             /\ AtStep(h)' /\ LocalsAt(pc'[h], local'[h])
  <2>1. pc'[h] = "idle" /\ local'[h] = NoLocals
    BY DEF Cut
  <2>2. AtStep(h)'
    BY <2>1, IdleAtStep
  <2>3. LocalsAt("idle", NoLocals)
    BY DEF LocalsAt, NoLocals, Finding, SwitchingOn, SwitchingOff, Configuring, Written,
           Ending
  <2> QED BY <2>1, <2>2, <2>3
<1>2. pc' \in [Handlers -> Labels] /\ local' \in [Handlers -> Locals]
  BY NoLocalsTyped DEF Cut, Labels
<1>3. Typed' /\ Alone'
  BY <1>1, <1>2 DEF Typed, Alone
<1> QED BY <1>1, <1>3 DEF IInv

LEMMA RestartPanelStep == ASSUME IInv, RestartPanel PROVE IInv'
<1>1. WorldTyped' /\ World'
  BY NothingTyped
  DEF RestartPanel, Cut, IInv, Typed, WorldTyped, World, RunsOnAp0, NoDuplicateRules, world,
      files, services, firewall
<1> QED BY <1>1, CutStep DEF RestartPanel

LEMMA RebootStep == ASSUME IInv, Reboot PROVE IInv'
<1>1. /\ ap0' \in BOOLEAN /\ memo' \in Tables(Commands, Results)
      /\ running' \in {None, conf} /\ dnsmasq' \in {None, dnsConf}
      /\ RunsOnAp0' /\ rules' = [r \in Rules |-> 0] /\ rules' \in [Rules -> 0..MaxCopies]
      /\ refused' = {}
      /\ UNCHANGED <<udev, conf, dnsConf, override, boot, bus>>
  <2>1. 0 \in 0..MaxCopies
    BY HostApdAssumption
  <2> QED BY <2>1, NothingTyped DEF Reboot, Cut, IInv, Typed, WorldTyped, RunsOnAp0, files
<1>2. WorldTyped' /\ World'
  BY <1>1 DEF IInv, Typed, WorldTyped, World, NoDuplicateRules
<1> QED BY <1>2, CutStep DEF Reboot
-----------------------------------------------------------------------------
(***************************************************************************)
(* The invariant.                                                          *)
(***************************************************************************)
LEMMA InitEstablishes == ASSUME Init PROVE IInv
<1>1. 0 \in 0..MaxCopies
  BY HostApdAssumption
<1>2. WorldTyped
  BY <1>1, NothingTyped DEF Init, WorldTyped
<1>3. World
  BY DEF Init, World, RunsOnAp0, NoDuplicateRules
<1>4. pc \in [Handlers -> Labels] /\ local \in [Handlers -> Locals]
  BY NoLocalsTyped DEF Init, Labels
<1>5. ASSUME NEW h \in Handlers
      PROVE  pc[h] = "idle" /\ LocalsAt(pc[h], local[h]) /\ AtStep(h)
  BY DEF Init, LocalsAt, NoLocals, AtStep, Ap0At, ToggleAt, ConfigAt, RulesAt, Finding,
         SwitchingOn, SwitchingOff, Configuring, Written, Ending
<1> QED BY <1>2, <1>3, <1>4, <1>5 DEF IInv, Typed, Alone

LEMMA HandlerStep ==
  ASSUME IInv, NEW h \in Handlers, Handler(h)
  PROVE  IInv'
BY RequestStep, LookForStep, DeleteAp0Step, CreateAp0Step, LookAgainStep, VerifyStep,
   EnableDnsmasqStep, StartDnsmasqFirstStep, EnableHostapdStep, StartStep, ReadStatusStep,
   StopDnsmasqStep, DisableHostapdStep, StopStep, StartAfterStep, WriteUdevStep,
   WriteConfStep, WriteDnsConfStep, DeleteRulesStep, AddRulesStep, WriteOverrideStep,
   WritePrestartStep, EnableBothStep, RestartDnsmasqKeeps, LookBeforeStep, CreateLateStep,
   LookLateStep, RestartStep, RespondStep
DEF Handler

LEMMA Preserved == ASSUME IInv, [Next]_vars PROVE IInv'
<1>1. CASE UNCHANGED vars
  <2>1. UNCHANGED <<ap0, udev, conf, dnsConf, override, running, dnsmasq, boot, rules,
                    refused, bus, memo,
                    pc, local>>
    BY <1>1 DEF vars, world, files, services, firewall
  <2>2. Typed' /\ World' /\ Alone'
    BY <2>1 DEF IInv, Typed, WorldTyped, World, RunsOnAp0, NoDuplicateRules, Alone
  <2>3. ASSUME NEW h \in Handlers
        PROVE  AtStep(h)'
    <3>1. AtStep(h)
      BY DEF IInv
    <3> QED BY <2>1, <3>1 DEF AtStep, Ap0At, ToggleAt, ConfigAt, RulesAt, Asked
  <2> QED BY <2>2, <2>3 DEF IInv
<1>2. CASE Next
  BY <1>2, HandlerStep, CrashStep, LoseAp0Step, LoseDnsmasqStep, TickStep, RestartPanelStep,
     RebootStep
  DEF Next
<1> QED BY <1>1, <1>2

\* Every execution of the access point's requests keeps, with the types, that hostapd
\* runs only on an ap0 that is there, that no rule is doubled and that each request, at
\* each of its steps, has what its earlier steps did (api_compat.go:1310-1694,
\* 2076-2701).
THEOREM Inductive == Spec => []IInv
<1>1. Init => IInv
  BY InitEstablishes
<1>2. IInv /\ [Next]_vars => IInv'
  BY Preserved
<1> QED BY <1>1, <1>2, PTL DEF Spec

LEMMA Invariance == Spec => []IInv
BY Inductive, PTL DEF Spec

\* The files, services and firewall of the access point, the memo and the locals of its
\* requests keep their types (api_compat.go:1310-1694, 2076-2701).
THEOREM TypeCorrect == Spec => []TypeOK
<1>1. IInv => TypeOK
  BY DEF IInv, Typed, WorldTyped, TypeOK
<1> QED BY <1>1, Invariance, PTL

\* No rule of the firewall is there twice, however often the access point is configured
\* and wherever a request is cut off, unless a deletion of that rule was refused
\* (api_compat.go:2519-2539).
THEOREM NoRuleTwice == Spec => []NoDuplicateRules
<1>1. IInv => NoDuplicateRules
  BY DEF IInv, World
<1> QED BY <1>1, Invariance, PTL

\* No request removes the interface on which hostapd runs: it removes ap0 for safety
\* only when there is none (api_compat.go:1327-1366, 1491-1537, 2145-2157).
THEOREM RunningIsSpared == Spec => []Ap0Spared
<1>1. ASSUME IInv, NEW h \in Handlers, pc[h] = "delete"
      PROVE  Without(running) = running
  BY <1>1 DEF IInv, AtStep, Ap0At, World, RunsOnAp0, Without
<1>2. IInv => Ap0Spared
  BY <1>1 DEF Ap0Spared
<1> QED BY <1>2, Invariance, PTL
-----------------------------------------------------------------------------
(***************************************************************************)
(* What the answers say.                                                   *)
(***************************************************************************)
ActionsDone(h) ==
  \/ ReadStatus(h) /\ pc'[h] \in {"on", "failed"}
  \/ Stop(h) /\ pc[h] = "stop" /\ pc'[h] \in {"off", "failed"}
  \/ StartAfter(h) /\ pc'[h] \in {"restarted", "failed"}
  \/ RestartDnsmasqStep(h) /\ pc[h] = "restartAgain" /\ pc'[h] = "configured"
  \/ LookAgain(h)

\* Each answer is given by one step, and the looks at a new ap0 end by one of them.
LEMMA Answering ==
  ASSUME IInv, NEW h \in Handlers, Handler(h)
  PROVE  /\ \/ ActionsDone(h)
            \/ pc[h] # "lookAgain" /\ pc'[h] \notin {"on", "off", "configured", "restarted"}
         /\ \A g \in Handlers \ {h} : pc'[g] = pc[g]
<1>0. pc \in [Handlers -> Labels] /\ LocalsAt(pc[h], local[h])
  BY Own DEF Typed
<1>1. CASE \/ hostapdCreateAp0(h) \/ hostapdToggle(h) \/ hostapdRestart(h)
           \/ \E net \in Settings : hostapdConfig(h, net)
  <2>1. PICK label \in {"look", "stopDnsmasq", "stopFirst", "udev"} : Goto(h, label)
    BY <1>1 DEF hostapdCreateAp0, hostapdToggle, hostapdRestart, hostapdConfig, Begins
  <2>2. pc[h] = "idle"
    BY <1>1 DEF hostapdCreateAp0, hostapdToggle, hostapdRestart, hostapdConfig, Begins
  <2> QED BY <1>0, <2>1, <2>2 DEF Goto
<1>2. CASE LookFor(h) \/ DeleteAp0(h) \/ CreateAp0(h) \/ Verify(h)
  <2>1. pc[h] \in Finding => local[h].kind \in {"create", "toggle", "configure"}
    BY <1>0 DEF LocalsAt
  <2>2. PICK label \in Labels :
          /\ Goto(h, label) /\ pc[h] # "lookAgain"
          /\ label \notin {"on", "off", "configured", "restarted"}
    <3>1. CASE LookFor(h)
      BY <2>1, <3>1, WithAp0Label DEF LookFor, Finding, Labels
    <3>2. CASE CreateAp0(h)
      BY <2>1, <3>2, WithAp0Label DEF CreateAp0, Finding, Labels
    <3>3. CASE DeleteAp0(h) \/ Verify(h)
      BY <3>3 DEF DeleteAp0, Verify, Labels
    <3> QED BY <1>2, <3>1, <3>2, <3>3
  <2> QED BY <1>0, <2>2 DEF Goto
<1>3. CASE LookAgain(h)
  BY <1>0, <1>3 DEF LookAgain, Goto, ActionsDone
<1>4. CASE EnableDnsmasq(h) \/ StartDnsmasqFirst(h) \/ EnableHostapd(h) \/ Start(h)
  BY <1>0, <1>4 DEF EnableDnsmasq, StartDnsmasqFirst, EnableHostapd, Start, Goto
<1>5. CASE ReadStatus(h) \/ Stop(h) \/ RestartDnsmasqStep(h)
  <2>1. CASE ReadStatus(h)
    <3>1. pc'[h] \in {"on", "failed"} /\ pc' = [pc EXCEPT ![h] = pc'[h]]
      BY <1>0, <2>1 DEF ReadStatus, Goto
    <3> QED BY <1>0, <2>1, <3>1 DEF ActionsDone
  <2>2. CASE Stop(h)
    BY <1>0, <2>2 DEF Stop, Goto, ActionsDone
  <2>3. CASE RestartDnsmasqStep(h)
    BY <1>0, <2>3 DEF RestartDnsmasqStep, Goto, ActionsDone
  <2> QED BY <1>5, <2>1, <2>2, <2>3
<1>6. CASE StopDnsmasq(h) \/ DisableHostapd(h) \/ StartAfter(h) \/ WriteUdev(h)
  <2>1. CASE StartAfter(h)
    BY <1>0, <2>1 DEF StartAfter, Goto, ActionsDone
  <2>2. CASE StopDnsmasq(h) \/ DisableHostapd(h) \/ WriteUdev(h)
    BY <1>0, <2>2 DEF StopDnsmasq, DisableHostapd, WriteUdev, Goto
  <2> QED BY <1>6, <2>1, <2>2
<1>7. CASE WriteConf(h) \/ WriteDnsConf(h) \/ DeleteRules(h) \/ AddRules(h)
  BY <1>0, <1>7 DEF WriteConf, WriteDnsConf, DeleteRules, AddRules, Goto
<1>8. CASE WriteOverride(h) \/ WritePrestart(h) \/ EnableBoth(h) \/ LookBefore(h)
  BY <1>0, <1>8 DEF WriteOverride, WritePrestart, EnableBoth, LookBefore, Goto
<1>9. CASE CreateLate(h) \/ LookLate(h) \/ Restart(h) \/ Respond(h)
  BY <1>0, <1>9 DEF CreateLate, LookLate, Restart, Respond, Goto
<1> QED BY <1>1, <1>2, <1>3, <1>4, <1>5, <1>6, <1>7, <1>8, <1>9 DEF Handler

\* No step but a handler's own brings it to an answer.
LEMMA OwnAnswer ==
  ASSUME IInv, [Next]_vars, NEW h \in Handlers, pc'[h] # pc[h], pc'[h] # "idle"
  PROVE  Handler(h)
<1>1. pc \in [Handlers -> Labels]
  BY DEF IInv, Typed
<1>2. CASE \E g \in Handlers : Handler(g)
  BY <1>2, Answering
<1>3. CASE UNCHANGED pc
  BY <1>3
<1>4. CASE RestartPanel \/ Reboot
  BY <1>4 DEF RestartPanel, Reboot, Cut
<1> QED BY <1>2, <1>3, <1>4 DEF Next, Crash, LoseAp0, LoseDnsmasq, Tick, vars

\* When the panel says that the access point is configured, no service runs with an
\* older configuration than the one asked for, and the files and the next boot have
\* it, whatever failed and whatever an earlier request left
\* (api_compat.go:2438-2512, 2641-2695).
THEOREM ConfigurationIsApplied == Spec => ConfigApplied
<1>1. ASSUME IInv, IInv', [Next]_vars, NEW h \in Handlers, Becomes(h, "configured")
      PROVE  /\ conf' = Asked(h) /\ dnsConf' = Asked(h)
             /\ running' \in {None, Asked(h)} /\ dnsmasq' \in {None, Asked(h)}
             /\ boot' = Services
  <2>1. Handler(h) /\ pc'[h] = "configured"
    BY <1>1, OwnAnswer DEF Becomes
  <2>2. RestartDnsmasqStep(h)
    BY <1>1, <2>1, Answering DEF IInv, Typed, ActionsDone, LookAgain, Goto, Becomes
  <2>3. Asked(h)' = Asked(h)
    BY <2>2 DEF RestartDnsmasqStep, Asked
  <2>4. ConfigAt(h)'
    BY <1>1 DEF IInv, AtStep
  <2> QED BY <2>1, <2>3, <2>4 DEF ConfigAt, Written, Ending
<1>2. IInv /\ IInv' /\ [Next]_vars =>
        [\A h \in Handlers : Becomes(h, "configured") =>
           /\ conf' = Asked(h) /\ dnsConf' = Asked(h)
           /\ running' \in {None, Asked(h)} /\ dnsmasq' \in {None, Asked(h)}
           /\ boot' = Services]_vars
  BY <1>1
<1> QED BY <1>2, Invariance, PTL DEF Spec, ConfigApplied

LEMMA SwitchTold ==
  ASSUME IInv, [Next]_vars, NEW h \in Handlers
  PROVE  /\ Becomes(h, "on") => running' = conf /\ running' # None /\ "hostapd" \in boot'
         /\ Becomes(h, "off") => running' = None /\ "hostapd" \notin boot'
         /\ Becomes(h, "restarted") => running' = conf /\ running' # None
<1>1. pc \in [Handlers -> Labels] /\ ToggleAt(h)
  BY DEF IInv, Typed, AtStep
<1>2. ASSUME Becomes(h, "on")
      PROVE  running' = conf /\ running' # None /\ "hostapd" \in boot'
  <2>1. Handler(h) /\ pc'[h] = "on"
    BY <1>2, OwnAnswer DEF Becomes
  <2>2. ReadStatus(h)
    BY <1>1, <1>2, <2>1, Answering DEF ActionsDone, LookAgain, StartAfter, Goto, Becomes
  <2>3. isActive
    BY <1>1, <2>1, <2>2 DEF ReadStatus, Goto
  <2>4. UNCHANGED <<running, conf, boot>>
    BY <2>2 DEF ReadStatus, world, files, services
  <2>5. pc[h] = "status"
    BY <2>2 DEF ReadStatus
  <2>6. running # None /\ ~bus
    BY <2>3, ActiveSeen
  <2> QED BY <1>1, <2>4, <2>5, <2>6 DEF ToggleAt
<1>3. ASSUME Becomes(h, "off")
      PROVE  running' = None /\ "hostapd" \notin boot'
  <2>1. Handler(h) /\ pc'[h] = "off"
    BY <1>3, OwnAnswer DEF Becomes
  <2>2. Stop(h) /\ pc[h] = "stop"
    BY <1>1, <1>3, <2>1, Answering DEF ActionsDone, LookAgain, StartAfter, Goto, Becomes
  <2> QED BY <1>1, <2>1, <2>2 DEF Stop, StopHostapd, ToggleAt, Goto
<1>4. ASSUME Becomes(h, "restarted")
      PROVE  running' = conf /\ running' # None
  <2>1. Handler(h) /\ pc'[h] = "restarted"
    BY <1>4, OwnAnswer DEF Becomes
  <2>2. StartAfter(h)
    BY <1>1, <1>4, <2>1, Answering DEF ActionsDone, LookAgain, Goto, Becomes
  <2>3. pc[h] = "startAfter" /\ StartHostapd("ok")
    BY <1>1, <2>1, <2>2 DEF StartAfter, Goto
  <2> QED BY <1>1, <2>3 DEF StartHostapd, CanRun, ToggleAt
<1> QED BY <1>2, <1>3, <1>4

\* The memo of the look that missed ap0 has run out before the last look at the new one.
LEMMA LooksReachAp0 ==
  ASSUME TTL < Waits + Attempts, IInv, [Next]_vars, NEW h \in Handlers,
         pc[h] = "lookAgain", pc'[h] = "failed"
  PROVE  ~ap0
<1>1. /\ pc \in [Handlers -> Labels] /\ Ap0At(h) /\ memo \in Tables(Commands, Results)
      /\ local[h] \in Locals
  BY DEF IInv, Typed, WorldTyped, AtStep
<1>2. LookAgain(h)
  <2>1. Handler(h)
    BY OwnAnswer
  <2> QED BY <1>1, <2>1, Answering
    DEF ActionsDone, ReadStatus, Stop, StartAfter, RestartDnsmasqStep
<1>3. Look("missing") /\ ~(local[h].tries + 1 < Attempts) /\ local[h].wait = 0
  BY <1>1, <1>2 DEF LookAgain, Goto
<1>4. ~Known(memo, "look") => ~ap0
  BY <1>1, <1>3, LookEffect
<1>5. ASSUME Known(memo, "look"), ap0
      PROVE  FALSE
  <2>1. memo["look"].result = "missing"
    BY <1>1, <1>3, <1>5, LookEffect
  <2>2. memo["look"].left + Waits + local[h].tries - local[h].wait <= TTL
    BY <1>1, <1>5, <2>1 DEF Ap0At
  <2>3. memo["look"].left \in 1..TTL
    BY <1>1, <1>5, MemoAssumption DEF Tables, Commands, Known, Forgotten
  <2>4. local[h].tries \in Nat
    BY <1>1, HostApdAssumption DEF Locals
  <2> QED BY <1>3, <2>2, <2>3, <2>4, HostApdAssumption, MemoAssumption
<1> QED BY <1>4, <1>5

\* Where the toggle says that the access point is on or off, and the restart that it is
\* restarted, it is so, with the saved configuration, though a stop may fail and leave
\* an older one; and a request that gives up looking for the ap0 that it created is
\* right: it waits and looks for longer than the memo keeps the look that missed it.
\* On systemd the toggle never says so: it sees nothing running (api_compat.go:1327,
\* 1405-1438, 1450-1464, 1624-1643, 1690-1694, 1774-1795).
THEOREM AnswersAreTrue ==
  ASSUME TTL < Waits + Attempts
  PROVE  Spec => AnswersHold
<1>1. IInv /\ [Next]_vars =>
        [\A h \in Handlers :
           /\ Becomes(h, "on") => running' = conf /\ running' # None /\ "hostapd" \in boot'
           /\ Becomes(h, "off") => running' = None /\ "hostapd" \notin boot'
           /\ Becomes(h, "restarted") => running' = conf /\ running' # None]_vars
  BY SwitchTold
<1>2. IInv /\ [Next]_vars =>
        [\A h \in Handlers : (pc[h] = "lookAgain" /\ pc'[h] = "failed") => ~ap0]_vars
  BY LooksReachAp0
<1> QED BY <1>1, <1>2, Invariance, PTL DEF Spec, AnswersHold, SwitchIsTruthful,
                                           GivesUpRightly
=============================================================================
