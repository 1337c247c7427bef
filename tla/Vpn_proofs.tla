----------------------------- MODULE Vpn_proofs -----------------------------
(***************************************************************************)
(* Theorems of Vpn: its types, and that what the panel answers about a     *)
(* tunnel is so, for any number of handlers and configurations, however    *)
(* long the executor remembers and wherever the panel is cut off.          *)
(***************************************************************************)
EXTENDS Vpn, TLAPS

-----------------------------------------------------------------------------
(***************************************************************************)
(* The inductive invariant.                                                *)
(***************************************************************************)
\* A request that met no other is the only one.
Alone(h) ==
  pc[h] # "idle" /\ local[h].alone => \A g \in Handlers \ {h} : pc[g] = "idle"

\* The steps that a request of each kind goes through.
Path(label, kind) ==
  CASE label = "idle" -> kind = "toggle"
    [] label = "write" -> kind \in {"connect", "connectOpenVPN", "configure", "saveOpenVPN"}
    [] label = "start" -> kind = "connectOpenVPN"
    [] label = "show" -> kind \in {"toggle", "configure"}
    [] label = "down" -> kind \in {"toggle", "configure", "restart"}
    [] label = "up" -> kind \in {"connect", "toggle", "configure", "restart"}
    [] label = "answer" -> TRUE

\* What a request that met no other knows of its files and tunnels at each of its steps:
\* wgTunnel and ovTunnel are the tunnels, wgConfig and ovConfig the files, saves whether
\* the file of WireGuard says SaveConfig.
KnowsConnect(label, me, wgConfig, wgTunnel) ==
  /\ label # "answer" => me.ok /\ wgTunnel = me.before
  /\ label = "up" => wgConfig = me.config
  /\ label = "answer" /\ me.ok /\ me.worked => wgTunnel = me.config
  /\ label = "answer" /\ ~me.ok /\ me.before # Nothing => wgTunnel = me.before

KnowsConnectOpenVPN(label, me, ovConfig, ovTunnel) ==
  /\ label # "answer" => me.ok /\ ovTunnel = me.before
  /\ label = "start" => ovConfig = me.config
  /\ label = "answer" /\ me.ok /\ me.worked =>
       /\ ovTunnel # Nothing
       /\ me.before = Nothing => ovTunnel = me.config
  /\ label = "answer" /\ ~me.ok /\ me.before # Nothing => ovTunnel = me.before

Loaded(me) ==
  IF ~me.active THEN Nothing ELSE IF me.saving THEN me.before ELSE me.config

KnowsConfigure(label, me, wgConfig, wgTunnel, saves) ==
  /\ label \in {"write", "show", "down"} => wgTunnel = me.before
  /\ label \in {"show", "down"} => wgConfig = me.config /\ saves = me.saving
  /\ label \in {"down", "up"} => me.active
  /\ label = "up" /\ me.worked => wgTunnel = Nothing /\ wgConfig = Loaded(me)
  /\ label = "answer" /\ me.ok /\ me.worked => wgTunnel = Loaded(me)

KnowsToggle(label, me, wgTunnel) ==
  /\ label \in {"show", "down", "up"} => wgTunnel = me.before
  /\ label = "up" => me.before = Nothing
  /\ label = "answer" /\ me.ok => (wgTunnel = Nothing) = (me.before # Nothing)

KnowsRestart(label, me, wgConfig, wgTunnel) ==
  label = "answer" /\ me.ok => wgTunnel = wgConfig /\ wgTunnel # Nothing

Knows(label, me, wgConfig, wgTunnel, saves, ovConfig, ovTunnel) ==
  /\ label = "idle" => me = NoLocals
  /\ Path(label, me.kind)
  /\ me.kind \in {"connect", "configure"} => me.config \in Configs
  /\ me.kind \in {"connectOpenVPN", "saveOpenVPN"} => me.config \in Profiles
  /\ label # "idle" /\ me.alone =>
       /\ me.kind = "connect" => KnowsConnect(label, me, wgConfig, wgTunnel)
       /\ me.kind = "connectOpenVPN" => KnowsConnectOpenVPN(label, me, ovConfig, ovTunnel)
       /\ me.kind = "configure" => KnowsConfigure(label, me, wgConfig, wgTunnel, saves)
       /\ me.kind = "toggle" => KnowsToggle(label, me, wgTunnel)
       /\ me.kind = "restart" => KnowsRestart(label, me, wgConfig, wgTunnel)

WorldOK ==
  /\ {wgFile, wg0} \subseteq Configs \cup {Nothing}
  /\ {ovFile, openvpn} \subseteq Profiles \cup {Nothing}
  /\ {saving, other} \subseteq BOOLEAN
  /\ memo \in Tables(Commands, BOOLEAN)

IInv ==
  /\ WorldOK
  /\ pc \in [Handlers -> Labels]
  /\ local \in [Handlers -> Locals]
  /\ \A h \in Handlers :
       Alone(h) /\ Knows(pc[h], local[h], wgFile, wg0, saving, ovFile, openvpn)

-----------------------------------------------------------------------------
(***************************************************************************)
(* Lemmas about the locals and the memo.                                   *)
(***************************************************************************)
LEMMA NoLocalsTyped == NoLocals \in Locals
BY DEF NoLocals, Locals, Kinds, Tunnels

LEMMA ResultFields ==
  ASSUME NEW me \in Locals, NEW ok \in BOOLEAN
  PROVE  /\ Result(me, ok) \in Locals
         /\ Result(me, ok).kind = me.kind /\ Result(me, ok).config = me.config
         /\ Result(me, ok).before = me.before /\ Result(me, ok).alone = me.alone
         /\ Result(me, ok).active = me.active /\ Result(me, ok).saving = me.saving
         /\ Result(me, ok).worked = (me.worked /\ ok)
         /\ me.kind = "configure" => Result(me, ok).ok
         /\ me.kind # "configure" => Result(me, ok).ok = (me.ok /\ ok)
<1> USE DEF Locals
<1>1. (me.kind = "configure" \/ (me.ok /\ ok)) \in BOOLEAN
  OBVIOUS
<1> QED BY <1>1 DEF Result

\* A command either has its result in the memo, or its result is new there.
LEMMA RememberedFields ==
  ASSUME NEW me \in Locals
  PROVE  LET new == [me EXCEPT !.worked = FALSE] IN
         /\ new \in Locals /\ ~new.worked
         /\ new.kind = me.kind /\ new.config = me.config /\ new.before = me.before
         /\ new.active = me.active /\ new.saving = me.saving
         /\ new.alone = me.alone /\ new.ok = me.ok
BY DEF Locals

LEMMA MetFields ==
  ASSUME NEW me \in Locals
  PROVE  /\ Met(me) \in Locals /\ ~Met(me).alone
         /\ Met(me).kind = me.kind /\ Met(me).config = me.config
BY DEF Locals, Met, Tunnels

LEMMA FailedFields ==
  ASSUME NEW me \in Locals
  PROVE  LET new == [me EXCEPT !.ok = FALSE] IN
         /\ new \in Locals /\ ~new.ok
         /\ new.kind = me.kind /\ new.config = me.config /\ new.before = me.before
         /\ new.alone = me.alone
BY DEF Locals

LEMMA ActiveFields ==
  ASSUME NEW me \in Locals, NEW active \in BOOLEAN
  PROVE  LET new == [me EXCEPT !.active = active] IN
         /\ new \in Locals
         /\ new.kind = me.kind /\ new.config = me.config /\ new.before = me.before
         /\ new.alone = me.alone /\ new.ok = me.ok /\ new.worked = me.worked
         /\ new.saving = me.saving /\ new.active = active
BY DEF Locals

LEMMA MemoTyped ==
  ASSUME memo \in Tables(Commands, BOOLEAN), NEW c \in Commands \cup {Direct},
         NEW ok \in BOOLEAN, Remembers(c, ok) \/ Runs(c, ok)
  PROVE  memo' \in Tables(Commands, BOOLEAN)
<1>1. Remembered(ok) \in [result : BOOLEAN, left : 1..TTL]
  BY MemoAssumption DEF Remembered
<1>2. CASE Remembers(c, ok) \/ c = Direct
  BY <1>2 DEF Remembers, Runs
<1>3. CASE Runs(c, ok) /\ c # Direct
  BY <1>1, <1>3 DEF Runs, Tables
<1> QED BY <1>2, <1>3

LEMMA AgedTyped ==
  ASSUME memo \in Tables(Commands, BOOLEAN)
  PROVE  Aged(memo) \in Tables(Commands, BOOLEAN)
<1> SUFFICES ASSUME NEW c \in Commands
             PROVE  Older(memo[c]) \in {Forgotten} \cup [result : BOOLEAN, left : 1..TTL]
  BY DEF Aged, Tables
<1>1. CASE memo[c] = Forgotten
  BY <1>1 DEF Older, Forgotten
<1>2. CASE memo[c] \in [result : BOOLEAN, left : 1..TTL]
  BY <1>2, MemoAssumption DEF Older
<1> QED BY <1>1, <1>2 DEF Tables

LEMMA NothingTyped == NothingRemembered(Commands) \in Tables(Commands, BOOLEAN)
BY DEF NothingRemembered, Tables

-----------------------------------------------------------------------------
(***************************************************************************)
(* A step of a handler keeps the invariant if what it knows after it is so *)
(* of the files and tunnels; the others know nothing, or are idle.         *)
(***************************************************************************)
LEMMA IdleKnows ==
  ASSUME NEW wgConfig, NEW wgTunnel, NEW saves, NEW ovConfig, NEW ovTunnel
  PROVE  Knows("idle", NoLocals, wgConfig, wgTunnel, saves, ovConfig, ovTunnel)
BY DEF Knows, Path, NoLocals

LEMMA HandlerStep ==
  ASSUME IInv, NEW h \in Handlers, pc[h] # "idle",
         NEW label \in Labels, NEW me \in Locals, Goto(h, label, me),
         label # "idle" => me.alone = local[h].alone,
         WorldOK',
         Knows(label, me, wgFile', wg0', saving', ovFile', openvpn')
  PROVE  IInv'
<1>1. pc' \in [Handlers -> Labels] /\ local' \in [Handlers -> Locals]
  BY DEF IInv, Goto
<1>2. /\ pc'[h] = label /\ local'[h] = me
      /\ \A g \in Handlers \ {h} : pc'[g] = pc[g] /\ local'[g] = local[g]
  BY DEF IInv, Goto
<1>3. ASSUME NEW g \in Handlers
      PROVE  Alone(g)'
  <2>1. CASE g = h
    BY <1>2, <2>1 DEF IInv, Alone
  <2>2. CASE g # h
    BY <1>2, <2>2 DEF IInv, Alone
  <2> QED BY <2>1, <2>2
<1>4. ASSUME NEW g \in Handlers, g # h
      PROVE  Knows(pc[g], local[g], wgFile', wg0', saving', ovFile', openvpn')
  <2>1. CASE pc[g] = "idle"
    <3>1. local[g] = NoLocals
      BY <2>1 DEF IInv, Knows
    <3> QED BY <2>1, <3>1, IdleKnows
  <2>2. CASE pc[g] # "idle"
    <3>1. ~local[g].alone
      BY <1>4, <2>2 DEF IInv, Alone
    <3> QED BY <3>1 DEF IInv, Knows
  <2> QED BY <2>1, <2>2
<1>5. ASSUME NEW g \in Handlers
      PROVE  Knows(pc[g], local[g], wgFile, wg0, saving, ovFile, openvpn)'
  BY <1>2, <1>4
<1> QED BY <1>1, <1>3, <1>5 DEF IInv

\* What a handler may rely on.
LEMMA Own ==
  ASSUME IInv, NEW h \in Handlers
  PROVE  local[h] \in Locals /\ Knows(pc[h], local[h], wgFile, wg0, saving, ovFile, openvpn)
BY DEF IInv

-----------------------------------------------------------------------------
(***************************************************************************)
(* One lemma per action.                                                   *)
(***************************************************************************)
\* A request that begins is alone if no other is under way, and those it meets are not.
LEMMA BeginStep ==
  ASSUME IInv, NEW h \in Handlers, NEW label \in {"write", "show", "down"},
         NEW kind \in Kinds, NEW config \in Tunnels, NEW saves \in BOOLEAN,
         NEW before \in {wg0, openvpn}, Begin(h, label, kind, config, saves, before),
         Path(label, kind),
         kind \in {"connect", "configure"} => config \in Configs,
         kind \in {"connectOpenVPN", "saveOpenVPN"} => config \in Profiles,
         kind = "connectOpenVPN" => before = openvpn,
         kind \in {"connect", "configure", "toggle"} => before = wg0,
         kind = "toggle" => label = "show", kind = "configure" => label = "write"
  PROVE  IInv'
<1> DEFINE first == [NoLocals EXCEPT !.kind = kind, !.config = config, !.saving = saves,
                                     !.before = before]
           new == IF Busy = {} THEN first ELSE Met(first)
<1>1. /\ pc[h] = "idle" /\ pc' = [pc EXCEPT ![h] = label]
      /\ local' = [o \in Handlers |->
           CASE o = h -> new [] o \in Busy -> Met(local[o]) [] OTHER -> local[o]]
      /\ UNCHANGED <<wgFile, saving, wg0, other, ovFile, openvpn, memo>>
  BY DEF Begin, wireguard, openVPN
<1>2. /\ first \in Locals /\ first.kind = kind /\ first.config = config
      /\ first.before = before /\ first.alone /\ first.ok
  BY NoLocalsTyped DEF IInv, WorldOK, Locals, NoLocals, Tunnels
<1> HIDE DEF first
<1>3. /\ new \in Locals /\ new.kind = kind /\ new.config = config
      /\ new.alone => new = first /\ Busy = {}
  BY <1>2, MetFields
<1>4. WorldOK'
  BY <1>1 DEF IInv, WorldOK
<1>5. /\ pc'[h] = label
      /\ \A g \in Handlers \ {h} : pc'[g] = pc[g]
  BY <1>1 DEF IInv
<1> HIDE DEF new
<1>10. local'[h] = new
  BY <1>1 DEF Busy
<1>6. ASSUME NEW g \in Handlers, g # h, pc[g] # "idle"
      PROVE  /\ local'[g] \in Locals /\ local'[g].kind = local[g].kind
             /\ local'[g].config = local[g].config /\ ~local'[g].alone /\ ~new.alone
  <2>1. g \in Busy /\ local[g] \in Locals
    BY <1>6 DEF Busy, IInv
  <2>2. local'[g] = Met(local[g])
    BY <1>1, <1>6, <2>1
  <2> QED BY <1>3, <2>1, <2>2, MetFields
<1>7. ASSUME NEW g \in Handlers, g # h, pc[g] = "idle"
      PROVE  local'[g] = NoLocals
  BY <1>1, <1>7 DEF Busy, IInv, Knows
<1>8. pc' \in [Handlers -> Labels] /\ local' \in [Handlers -> Locals]
  <2>1. pc' \in [Handlers -> Labels]
    BY <1>1 DEF IInv, Labels
  <2>2. \A g \in Handlers : local'[g] \in Locals
    BY <1>3, <1>10, <1>6, <1>7, NoLocalsTyped
  <2> QED BY <1>1, <2>1, <2>2
<1>9. ASSUME NEW g \in Handlers
      PROVE  /\ Alone(g)'
             /\ Knows(pc'[g], local'[g], wgFile', wg0', saving', ovFile', openvpn')
  <2>1. CASE g = h
    <3>1. Knows(label, new, wgFile', wg0', saving', ovFile', openvpn')
      BY <1>1, <1>2, <1>3 DEF Knows, KnowsConnect, KnowsConnectOpenVPN, KnowsConfigure,
                              KnowsToggle, KnowsRestart
    <3>2. new.alone => \A o \in Handlers \ {h} : pc'[o] = "idle"
      BY <1>3, <1>5 DEF Busy
    <3> QED BY <1>5, <1>10, <2>1, <3>1, <3>2 DEF Alone
  <2>2. CASE g # h /\ pc[g] = "idle"
    BY <1>5, <1>7, <2>2, IdleKnows DEF Alone
  <2>3. CASE g # h /\ pc[g] # "idle"
    BY <1>5, <1>6, <2>3 DEF Alone, IInv, Knows
  <2> QED BY <2>1, <2>2, <2>3
<1> QED BY <1>4, <1>8, <1>9 DEF IInv

LEMMA RequestStep ==
  ASSUME IInv, NEW h \in Handlers,
         \/ connectVPN(h)
         \/ \E profile \in Profiles : saveOpenVPNConfig(h, profile)
         \/ \E config \in Configs, saves \in BOOLEAN : configureWireGuard(h, config, saves)
         \/ wireguardToggle(h) \/ wireguardRestart(h)
  PROVE  IInv'
<1>1. CASE \/ connectVPN(h)
           \/ \E config \in Configs, saves \in BOOLEAN : configureWireGuard(h, config, saves)
  <2>1. CASE \E config \in Configs, saves \in BOOLEAN, kind \in {"connect", "configure"} :
               Begin(h, "write", kind, config, saves, wg0)
    <3>1. PICK config \in Configs, saves \in BOOLEAN, kind \in {"connect", "configure"} :
            Begin(h, "write", kind, config, saves, wg0)
      BY <2>1
    <3> QED BY <3>1, BeginStep DEF Path, Kinds, Tunnels
  <2>2. CASE \E profile \in Profiles :
               Begin(h, "write", "connectOpenVPN", profile, FALSE, openvpn)
    BY <2>2, BeginStep DEF Path, Kinds, Tunnels
  <2> QED BY <1>1, <2>1, <2>2 DEF connectVPN, configureWireGuard
<1>2. CASE \E profile \in Profiles : saveOpenVPNConfig(h, profile)
  BY <1>2, BeginStep DEF saveOpenVPNConfig, Path, Kinds, Tunnels
<1>3. CASE wireguardToggle(h)
  BY <1>3, BeginStep DEF wireguardToggle, Path, Kinds, Tunnels
<1>4. CASE wireguardRestart(h)
  BY <1>4, BeginStep DEF wireguardRestart, Path, Kinds, Tunnels
<1> QED BY <1>1, <1>2, <1>3, <1>4

LEMMA WriteStep ==
  ASSUME IInv, NEW h \in Handlers, Write(h)
  PROVE  IInv'
<1> DEFINE me == local[h]
<1>1. /\ me \in Locals /\ Knows("write", me, wgFile, wg0, saving, ovFile, openvpn)
      /\ pc[h] = "write" /\ UNCHANGED <<wg0, other, openvpn, memo>>
      /\ me.kind \in {"connect", "connectOpenVPN", "configure", "saveOpenVPN"}
  BY Own DEF Write, Knows, Path
<1>2. CASE /\ IF me.kind \in {"connect", "configure"}
                THEN wgFile' = me.config /\ saving' = me.saving /\ UNCHANGED ovFile
                ELSE ovFile' = me.config /\ UNCHANGED <<wgFile, saving>>
           /\ Goto(h, AfterWrite[me.kind], me)
  <2>1. WorldOK'
    BY <1>1, <1>2 DEF IInv, WorldOK, Locals, Knows
  <2>2. PICK label \in {"up", "start", "show", "answer"} :
          /\ label = AfterWrite[me.kind]
          /\ me.kind = "connect" => label = "up"
          /\ me.kind = "connectOpenVPN" => label = "start"
          /\ me.kind = "configure" => label = "show"
          /\ me.kind = "saveOpenVPN" => label = "answer"
    BY <1>1 DEF AfterWrite
  <2>3. Knows(label, me, wgFile', wg0', saving', ovFile', openvpn')
    BY <1>1, <1>2, <2>2 DEF Knows, Path, KnowsConnect, KnowsConnectOpenVPN, KnowsConfigure
  <2> QED BY <1>1, <1>2, <2>1, <2>2, <2>3, HandlerStep DEF Labels
<1>3. CASE Goto(h, "answer", [me EXCEPT !.ok = FALSE]) /\ UNCHANGED <<wgFile, saving, ovFile>>
  <2> DEFINE new == [me EXCEPT !.ok = FALSE]
  <2>1. /\ new \in Locals /\ ~new.ok /\ new.kind = me.kind
        /\ new.alone = me.alone /\ new.before = me.before /\ new.config = me.config
    BY <1>1, FailedFields
  <2> HIDE DEF new
  <2>2. Knows("answer", new, wgFile', wg0', saving', ovFile', openvpn')
    BY <1>1, <1>3, <2>1 DEF Knows, Path, KnowsConnect, KnowsConnectOpenVPN, KnowsConfigure
  <2>3. WorldOK'
    BY <1>1, <1>3 DEF IInv, WorldOK
  <2>4. Goto(h, "answer", new)
    BY <1>3 DEF new
  <2> QED BY <1>1, <2>1, <2>2, <2>3, <2>4, HandlerStep DEF Labels
<1> QED BY <1>2, <1>3 DEF Write

LEMMA ShowStep ==
  ASSUME IInv, NEW h \in Handlers, Show(h)
  PROVE  IInv'
<1> DEFINE me == local[h]
           toggle == me.kind = "toggle"
           active == wg0 # Nothing \/ (toggle /\ other)
           new == [me EXCEPT !.active = active]
           label == IF active THEN "down" ELSE IF toggle THEN "up" ELSE "answer"
<1>1. /\ me \in Locals /\ Knows("show", me, wgFile, wg0, saving, ovFile, openvpn)
      /\ pc[h] = "show" /\ UNCHANGED <<wgFile, saving, wg0, other, ovFile, openvpn, memo>>
      /\ me.kind \in {"toggle", "configure"} /\ Goto(h, label, new)
  BY Own DEF Show, Knows, Path, wireguard, openVPN
<1>5. active \in BOOLEAN
  BY <1>1 DEF IInv, WorldOK
<1>2. /\ new \in Locals /\ new.kind = me.kind /\ new.before = me.before
      /\ new.config = me.config /\ new.alone = me.alone /\ new.ok = me.ok
      /\ new.active = active /\ new.saving = me.saving /\ new.worked = me.worked
  BY <1>1, <1>5, ActiveFields
<1> HIDE DEF new
<1>3. Knows(label, new, wgFile', wg0', saving', ovFile', openvpn')
  BY <1>1, <1>2 DEF Knows, Path, KnowsConfigure, KnowsToggle, Loaded
<1>4. WorldOK' /\ label \in Labels \ {"idle"}
  BY <1>1 DEF IInv, WorldOK, Labels
<1> HIDE DEF label
<1> QED BY <1>1, <1>2, <1>3, <1>4, HandlerStep

\* A command of a handler: its result is remembered, or it runs.
Outcome(h, new, c, okay) ==
  LET result == Result(local[h], okay) IN
  \/ Remembers(c, okay) /\ new = [result EXCEPT !.worked = FALSE]
  \/ Runs(c, okay) /\ new = result

LEMMA OutcomeFields ==
  ASSUME IInv, NEW h \in Handlers, NEW c \in Commands \cup {Direct}, NEW okay \in BOOLEAN,
         NEW new, Outcome(h, new, c, okay)
  PROVE  /\ new \in Locals /\ memo' \in Tables(Commands, BOOLEAN)
         /\ new.kind = local[h].kind /\ new.config = local[h].config
         /\ new.before = local[h].before /\ new.alone = local[h].alone
         /\ new.active = local[h].active /\ new.saving = local[h].saving
         /\ new.worked => local[h].worked /\ okay /\ Runs(c, okay)
         /\ c = Direct => Runs(c, okay)
         /\ local[h].kind = "configure" => new.ok
         /\ local[h].kind # "configure" => new.ok = (local[h].ok /\ okay)
<1>1. local[h] \in Locals
  BY Own
<1>2. memo' \in Tables(Commands, BOOLEAN)
  BY MemoTyped DEF IInv, WorldOK, Outcome
<1>3. CASE Remembers(c, okay) /\ new = [Result(local[h], okay) EXCEPT !.worked = FALSE]
  <2> DEFINE result == Result(local[h], okay)
             last == [result EXCEPT !.worked = FALSE]
  <2>1. /\ result \in Locals
        /\ result.kind = local[h].kind /\ result.config = local[h].config
        /\ result.before = local[h].before /\ result.alone = local[h].alone
        /\ result.active = local[h].active /\ result.saving = local[h].saving
        /\ local[h].kind = "configure" => result.ok
        /\ local[h].kind # "configure" => result.ok = (local[h].ok /\ okay)
    BY <1>1, ResultFields
  <2> HIDE DEF result
  <2>2. /\ last \in Locals
        /\ last.kind = result.kind /\ last.config = result.config
        /\ last.before = result.before /\ last.alone = result.alone
        /\ last.active = result.active /\ last.saving = result.saving
        /\ last.ok = result.ok /\ ~last.worked
    BY <2>1, RememberedFields
  <2>3. new = last /\ c # Direct
    BY <1>3 DEF Remembers, result
  <2> HIDE DEF last
  <2> QED BY <1>2, <2>1, <2>2, <2>3
<1>4. CASE Runs(c, okay) /\ new = Result(local[h], okay)
  BY <1>1, <1>2, <1>4, ResultFields
<1> QED BY <1>3, <1>4 DEF Outcome

LEMMA TakeDownStep ==
  ASSUME IInv, NEW h \in Handlers, TakeDown(h)
  PROVE  IInv'
<1> DEFINE me == local[h]
           c == DownCommand(me.kind)
           next == IF me.kind = "toggle" THEN "answer" ELSE "up"
<1>1. /\ me \in Locals /\ Knows("down", me, wgFile, wg0, saving, ovFile, openvpn)
      /\ pc[h] = "down" /\ UNCHANGED <<saving, other, ovFile, openvpn>>
      /\ me.kind \in {"toggle", "configure", "restart"}
  BY Own DEF TakeDown, TakeDownAnd, Knows, Path, openVPN
<1>2. c \in Commands \cup {Direct} /\ (me.kind # "configure" => c = Direct)
  BY DEF DownCommand, Commands
<1>3. PICK okay \in BOOLEAN :
        \/ /\ Remembers(c, okay)
           /\ Goto(h, next, [Result(me, okay) EXCEPT !.worked = FALSE])
           /\ UNCHANGED <<wgFile, wg0>>
        \/ /\ Runs(c, okay)
           /\ Down(okay)
           /\ Goto(h, next, Result(me, okay))
  BY DEF TakeDown, TakeDownAnd
<1>4. PICK new : Outcome(h, new, c, okay) /\ Goto(h, next, new)
  BY <1>3 DEF Outcome
<1>5. Remembers(c, okay) => ~Runs(c, okay)
  BY DEF Remembers, Runs
<1>6. (Runs(c, okay) /\ Down(okay)) \/ (~Runs(c, okay) /\ UNCHANGED <<wgFile, wg0>>)
  BY <1>3, <1>5
<1>7. /\ new \in Locals /\ memo' \in Tables(Commands, BOOLEAN)
      /\ new.kind = me.kind /\ new.config = me.config
      /\ new.before = me.before /\ new.alone = me.alone
      /\ new.active = me.active /\ new.saving = me.saving
      /\ new.worked => Runs(c, okay) /\ okay
      /\ c = Direct => Runs(c, okay)
      /\ me.kind # "configure" => new.ok = (me.ok /\ okay)
  BY <1>2, <1>4, OutcomeFields
<1>8. WorldOK'
  BY <1>1, <1>6, <1>7 DEF IInv, WorldOK, Down, Saved
<1>9. Knows(next, new, wgFile', wg0', saving', ovFile', openvpn')
  BY <1>1, <1>2, <1>6, <1>7
  DEF Knows, Path, KnowsConfigure, KnowsToggle, KnowsRestart, Down, Saved, Loaded
<1>10. next \in Labels \ {"idle"}
  BY DEF Labels
<1> HIDE DEF next, c
<1> QED BY <1>1, <1>4, <1>7, <1>8, <1>9, <1>10, HandlerStep

LEMMA BringUpStep ==
  ASSUME IInv, NEW h \in Handlers, BringUp(h)
  PROVE  IInv'
<1> DEFINE me == local[h]
           c == UpCommand(me.kind)
<1>1. /\ me \in Locals /\ Knows("up", me, wgFile, wg0, saving, ovFile, openvpn)
      /\ pc[h] = "up" /\ UNCHANGED <<wgFile, saving, other, ovFile, openvpn>>
      /\ me.kind \in {"connect", "toggle", "configure", "restart"}
  BY Own DEF BringUp, Knows, Path, openVPN
<1>2. c \in Commands \cup {Direct} /\ (me.kind \in {"toggle", "restart"} => c = Direct)
  BY DEF UpCommand, Commands
<1>3. PICK okay \in BOOLEAN :
        \/ /\ Remembers(c, okay)
           /\ Goto(h, "answer", [Result(me, okay) EXCEPT !.worked = FALSE])
           /\ UNCHANGED wg0
        \/ /\ Runs(c, okay)
           /\ Up(okay)
           /\ Goto(h, "answer", Result(me, okay))
  BY DEF BringUp
<1>4. PICK new : Outcome(h, new, c, okay) /\ Goto(h, "answer", new)
  BY <1>3 DEF Outcome
<1>5. Remembers(c, okay) => ~Runs(c, okay)
  BY DEF Remembers, Runs
<1>6. (Runs(c, okay) /\ Up(okay)) \/ (~Runs(c, okay) /\ UNCHANGED wg0)
  BY <1>3, <1>5
<1>7. /\ new \in Locals /\ memo' \in Tables(Commands, BOOLEAN)
      /\ new.kind = me.kind /\ new.config = me.config
      /\ new.before = me.before /\ new.alone = me.alone
      /\ new.active = me.active /\ new.saving = me.saving
      /\ new.worked => me.worked /\ okay /\ Runs(c, okay)
      /\ c = Direct => Runs(c, okay)
      /\ me.kind # "configure" => new.ok = (me.ok /\ okay)
  BY <1>2, <1>4, OutcomeFields
<1>8. WorldOK'
  BY <1>1, <1>6, <1>7 DEF IInv, WorldOK, Up
<1>9. Knows("answer", new, wgFile', wg0', saving', ovFile', openvpn')
  BY <1>1, <1>2, <1>6, <1>7
  DEF Knows, Path, KnowsConnect, KnowsConfigure, KnowsToggle, KnowsRestart, Up, Loaded
<1> HIDE DEF c
<1> QED BY <1>1, <1>4, <1>7, <1>8, <1>9, HandlerStep DEF Labels

LEMMA StartStep ==
  ASSUME IInv, NEW h \in Handlers, Start(h)
  PROVE  IInv'
<1> DEFINE me == local[h]
<1>1. /\ me \in Locals /\ Knows("start", me, wgFile, wg0, saving, ovFile, openvpn)
      /\ pc[h] = "start" /\ UNCHANGED <<wgFile, saving, wg0, other, ovFile>>
      /\ me.kind = "connectOpenVPN" /\ me.config \in Profiles /\ me.config # Nothing
  BY Own, VpnAssumption DEF Start, Knows, Path, wireguard
<1>2. PICK okay \in BOOLEAN :
        \/ /\ Remembers("start", okay)
           /\ Goto(h, "answer", [Result(me, okay) EXCEPT !.worked = FALSE])
           /\ UNCHANGED openvpn
        \/ /\ Runs("start", okay)
           /\ StartService(okay)
           /\ Goto(h, "answer", Result(me, okay))
  BY DEF Start
<1>3. PICK new : Outcome(h, new, "start", okay) /\ Goto(h, "answer", new)
  BY <1>2 DEF Outcome
<1>4. Remembers("start", okay) => ~Runs("start", okay)
  BY DEF Remembers, Runs, Direct
<1>5. \/ Runs("start", okay) /\ StartService(okay)
      \/ ~Runs("start", okay) /\ UNCHANGED openvpn
  BY <1>2, <1>4
<1>6. /\ new \in Locals /\ memo' \in Tables(Commands, BOOLEAN)
      /\ new.kind = me.kind /\ new.config = me.config
      /\ new.before = me.before /\ new.alone = me.alone
      /\ new.worked => Runs("start", okay)
      /\ new.ok = (me.ok /\ okay)
  <2>1. "start" \in Commands
    BY DEF Commands
  <2> QED BY <1>1, <1>3, <2>1, OutcomeFields
<1>7. WorldOK'
  BY <1>1, <1>5, <1>6 DEF IInv, WorldOK, StartService
<1>8. Knows("answer", new, wgFile', wg0', saving', ovFile', openvpn')
  BY <1>1, <1>5, <1>6 DEF Knows, Path, KnowsConnectOpenVPN, StartService
<1> QED BY <1>1, <1>3, <1>6, <1>7, <1>8, HandlerStep DEF Labels

LEMMA AnswerStep ==
  ASSUME IInv, NEW h \in Handlers, Answer(h)
  PROVE  IInv'
<1>1. /\ pc[h] = "answer" /\ Goto(h, "idle", NoLocals)
      /\ UNCHANGED <<wgFile, saving, wg0, other, ovFile, openvpn, memo>>
  BY DEF Answer, wireguard, openVPN
<1>2. WorldOK'
  BY <1>1 DEF IInv, WorldOK
<1>3. Knows("idle", NoLocals, wgFile', wg0', saving', ovFile', openvpn')
  BY IdleKnows
<1> QED BY <1>1, <1>2, <1>3, NoLocalsTyped, HandlerStep DEF Labels

\* Time changes what is remembered, and no request knows of other interfaces; a restart
\* leaves every handler idle.
LEMMA TickStep ==
  ASSUME IInv, Tick \/ SwitchOther
  PROVE  IInv'
BY AgedTyped DEF IInv, WorldOK, Tick, SwitchOther, Alone, wireguard, openVPN

LEMMA CutStep ==
  ASSUME IInv, Restart \/ Reboot
  PROVE  IInv'
<1>1. /\ memo' = NothingRemembered(Commands)
      /\ pc' = [h \in Handlers |-> "idle"]
      /\ local' = [h \in Handlers |-> NoLocals]
      /\ {wgFile', wg0'} \subseteq Configs \cup {Nothing}
      /\ {ovFile', openvpn'} \subseteq Profiles \cup {Nothing}
      /\ {saving', other'} \subseteq BOOLEAN
  BY DEF IInv, WorldOK, Restart, Reboot, Cut, wireguard, openVPN
<1>2. WorldOK'
  BY <1>1, NothingTyped DEF WorldOK
<1>3. pc' \in [Handlers -> Labels] /\ local' \in [Handlers -> Locals]
  BY <1>1, NoLocalsTyped DEF Labels
<1>4. ASSUME NEW h \in Handlers
      PROVE  Alone(h)' /\ Knows(pc[h], local[h], wgFile, wg0, saving, ovFile, openvpn)'
  BY <1>1, IdleKnows DEF Alone
<1> QED BY <1>2, <1>3, <1>4 DEF IInv

-----------------------------------------------------------------------------
(***************************************************************************)
(* The theorems.                                                           *)
(***************************************************************************)
\* The invariant is inductive: it holds when the panel starts and every step of a
\* request, of the clock, of the panel and of the machine keeps it.
THEOREM Inductive ==
  /\ Init => IInv
  /\ IInv /\ [Next]_vars => IInv'
<1>1. ASSUME Init
      PROVE  IInv
  <2>1. /\ pc = [h \in Handlers |-> "idle"] /\ local = [h \in Handlers |-> NoLocals]
        /\ memo = NothingRemembered(Commands)
        /\ {wgFile, wg0} \subseteq Configs \cup {Nothing}
        /\ {ovFile, openvpn} \subseteq Profiles \cup {Nothing}
        /\ {saving, other} \subseteq BOOLEAN
    BY <1>1 DEF Init
  <2>2. WorldOK
    BY <2>1, NothingTyped DEF WorldOK
  <2>3. pc \in [Handlers -> Labels] /\ local \in [Handlers -> Locals]
    BY <2>1, NoLocalsTyped DEF Labels
  <2>4. ASSUME NEW h \in Handlers
        PROVE  Alone(h) /\ Knows(pc[h], local[h], wgFile, wg0, saving, ovFile, openvpn)
    BY <2>1, IdleKnows DEF Alone
  <2> QED BY <2>2, <2>3, <2>4 DEF IInv
<1>2. ASSUME IInv, [Next]_vars
      PROVE  IInv'
  <2>1. CASE UNCHANGED vars
    BY <1>2, <2>1 DEF IInv, WorldOK, Alone, vars, wireguard, openVPN
  <2>2. ASSUME NEW h \in Handlers,
               \/ connectVPN(h)
               \/ \E profile \in Profiles : saveOpenVPNConfig(h, profile)
               \/ \E config \in Configs, saves \in BOOLEAN :
                    configureWireGuard(h, config, saves)
               \/ wireguardToggle(h) \/ wireguardRestart(h)
        PROVE  IInv'
    BY <1>2, <2>2, RequestStep
  <2>3. ASSUME NEW h \in Handlers,
               Write(h) \/ Show(h) \/ TakeDown(h) \/ BringUp(h) \/ Start(h) \/ Answer(h)
        PROVE  IInv'
    BY <1>2, <2>3, WriteStep, ShowStep, TakeDownStep, BringUpStep, StartStep, AnswerStep
  <2>4. CASE Tick \/ SwitchOther \/ Restart \/ Reboot
    BY <1>2, <2>4, TickStep, CutStep
  <2> QED BY <1>2, <2>1, <2>2, <2>3, <2>4 DEF Next
<1> QED BY <1>1, <1>2

LEMMA Invariance == Spec => []IInv
BY Inductive, PTL DEF Spec

\* The files, the tunnels, what the executor remembers and the locals of the requests
\* keep their types (vpn_handlers.go, handlers.go).
THEOREM TypeCorrect == Spec => []TypeOK
<1>1. IInv => TypeOK
  BY DEF IInv, WorldOK, TypeOK, Knows
<1> QED BY <1>1, Invariance, PTL

\* Whatever requests overlap, are cut off by a restart or find their commands
\* remembered, and however their commands fail, an answer that the panel gives to a
\* request that met no other is so: for connecting as far as its command was run, for
\* configuring as far as its commands were run and succeeded, for the switch and the
\* restart of WireGuard always (connectVPN, configureWireGuard,
\* wireguardToggleHandler, wireguardRestartHandler).
THEOREM AnswersAreTrue == Spec => []AnswersHold
<1>1. ASSUME IInv, NEW h \in Handlers
      PROVE  ConfigureLoads(h) /\ ConnectIsUp(h) /\ SwitchIsTruthful(h) /\ ErrorKeepsTunnel(h)
  <2>1. /\ Knows(pc[h], local[h], wgFile, wg0, saving, ovFile, openvpn) /\ local[h] \in Locals
    BY <1>1, Own
  <2> QED
    BY <2>1 DEF Knows, KnowsConnect, KnowsConnectOpenVPN, KnowsConfigure, KnowsToggle,
                KnowsRestart, ConfigureLoads, ConnectIsUp, SwitchIsTruthful,
                ErrorKeepsTunnel, Answering, Trusted, Loaded
<1>2. IInv => AnswersHold
  BY <1>1 DEF AnswersHold
<1> QED BY <1>2, Invariance, PTL
=============================================================================
