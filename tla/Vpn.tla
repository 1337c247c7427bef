-------------------------------- MODULE Vpn --------------------------------
(***************************************************************************)
(* The VPN part of the panel, vpn_handlers.go and handlers.go: the files   *)
(* of WireGuard and OpenVPN, and the tunnels that were brought up from     *)
(* them.  Connecting and configuring go through the executor of utils.go,  *)
(* which may answer wg-quick and systemctl from its memo table; the        *)
(* switch and the restart of WireGuard run wg-quick themselves.            *)
(*                                                                         *)
(* A request is a step for each write and command.  Nothing keeps two      *)
(* requests, of any kind, from overlapping.                                *)
(***************************************************************************)
EXTENDS Memo

CONSTANTS
  Handlers,  (* goroutines that serve the VPN requests                     *)
  Configs,   (* configurations of WireGuard that pass the validator        *)
  Profiles,  (* those of OpenVPN                                           *)
  Nothing    (* no file, no tunnel                                         *)

ASSUME VpnAssumption == Nothing \notin Configs \cup Profiles

VARIABLES
  wgFile,  (* /etc/wireguard/wg0.conf                                      *)
  saving,  (* does that file say SaveConfig = true?                        *)
  wg0,     (* the configuration the interface wg0 has                      *)
  ovFile,  (* /etc/openvpn/client.conf                                     *)
  other,   (* is another interface of WireGuard up?                        *)
  openvpn, (* the configuration openvpn@client was started with            *)
  memo,    (* what the executor remembers                                  *)
  pc,      (* the next step of each handler                                *)
  local    (* the locals of each handler                                   *)

wireguard == <<wgFile, saving, wg0, other>>
openVPN == <<ovFile, openvpn>>
vars == <<wireguard, openVPN, memo, pc, local>>

\* The commands that go through the executor.  Configuring ends its two in
\* 2>/dev/null, so its "up" is another key than that of connecting.
Commands == {"up", "down quietly", "up quietly", "start"}
Direct == "direct"

Kinds == {"connect", "connectOpenVPN", "configure", "toggle", "restart", "saveOpenVPN"}

\* ok: what the answer will say; active: the tunnel was up when the request looked at
\* it.  History: alone, it met no other request; worked, its commands were run, not
\* remembered, and none failed; before, the tunnel when it began.  The last two are kept
\* of a request that is alone.
Tunnels == Configs \cup Profiles \cup {Nothing}
Locals == [kind : Kinds, config : Tunnels, saving : BOOLEAN, ok : BOOLEAN, active : BOOLEAN,
           alone : BOOLEAN, worked : BOOLEAN, before : Tunnels]
NoLocals == [kind |-> "toggle", config |-> Nothing, saving |-> FALSE, ok |-> TRUE,
             active |-> FALSE, alone |-> TRUE, worked |-> TRUE,
             before |-> Nothing]

Labels == {"idle", "write", "start", "show", "down", "up", "answer"}

TypeOK ==
  /\ {wgFile, wg0} \subseteq Configs \cup {Nothing}
  /\ {ovFile, openvpn} \subseteq Profiles \cup {Nothing}
  /\ {saving, other} \subseteq BOOLEAN
  /\ memo \in Tables(Commands, BOOLEAN)
  /\ pc \in [Handlers -> Labels]
  /\ local \in [Handlers -> Locals]
  /\ \A h \in Handlers : pc[h] = "idle" => local[h] = NoLocals

Init ==
  /\ wgFile \in Configs \cup {Nothing}
  /\ wg0 \in {wgFile, Nothing}
  /\ saving \in {wgFile # Nothing, FALSE}
  /\ other \in BOOLEAN
  /\ ovFile = Nothing /\ openvpn = Nothing
  /\ memo = NothingRemembered(Commands)
  /\ pc = [h \in Handlers |-> "idle"]
  /\ local = [h \in Handlers |-> NoLocals]

-----------------------------------------------------------------------------
(***************************************************************************)
(* The commands.                                                           *)
(***************************************************************************)
\* wg-quick up refuses when wg0 exists or has no file, and may fail otherwise; one that
\* the executor's deadline ends is a failure and may have brought wg0 up.
Up(ok) ==
  \/ wg0 = Nothing /\ wgFile # Nothing /\ wg0' = wgFile
  \/ ~ok /\ UNCHANGED wg0

\* wg-quick down fails when there is no wg0.  With SaveConfig in the file it first writes
\* the configuration that wg0 has over it.  A hook, sudo or the deadline may end it before
\* it saves, before wg0 is gone, or after.
Saved == IF saving THEN wg0 ELSE wgFile
Down(ok) ==
  \/ wg0 # Nothing /\ wg0' = Nothing /\ wgFile' = Saved
  \/ ~ok /\ wgFile' \in {wgFile, Saved} /\ UNCHANGED wg0

\* systemctl start of a running service does nothing; a failure may be that of the
\* deadline, with the service started.
StartService(ok) ==
  \/ openvpn' = IF openvpn = Nothing THEN ovFile ELSE openvpn
  \/ ~ok /\ UNCHANGED openvpn

\* executeCommand: the result is remembered, or the command runs and its result will be.
\* What is Direct does not go through it.
Remembers(c, ok) == c # Direct /\ Known(memo, c) /\ ok = memo[c].result /\ UNCHANGED memo
Runs(c, ok) ==
  IF c = Direct THEN UNCHANGED memo
  ELSE ~Known(memo, c) /\ memo' = [memo EXCEPT ![c] = Remembered(ok)]

-----------------------------------------------------------------------------
(***************************************************************************)
(* The handlers.                                                           *)
(***************************************************************************)
Goto(h, label, locals) ==
  /\ pc' = [pc EXCEPT ![h] = label]
  /\ local' = [local EXCEPT ![h] = locals]

Busy == {h \in Handlers : pc[h] # "idle"}

Met(me) == [me EXCEPT !.alone = FALSE, !.worked = FALSE, !.before = Nothing]

Begin(h, label, kind, config, saves, before) ==
  LET me == [NoLocals EXCEPT !.kind = kind, !.config = config, !.saving = saves,
                             !.before = before] IN
  /\ pc[h] = "idle"
  /\ pc' = [pc EXCEPT ![h] = label]
  /\ local' = [o \in Handlers |->
       CASE o = h -> IF Busy = {} THEN me ELSE Met(me)
         [] o \in Busy -> Met(local[o])
         [] OTHER -> local[o]]
  /\ UNCHANGED <<wireguard, openVPN, memo>>

connectVPN(h) ==
  \/ \E config \in Configs, saves \in BOOLEAN :
       Begin(h, "write", "connect", config, saves, wg0)
  \/ \E profile \in Profiles : Begin(h, "write", "connectOpenVPN", profile, FALSE, openvpn)
saveOpenVPNConfig(h, profile) == Begin(h, "write", "saveOpenVPN", profile, FALSE, openvpn)
configureWireGuard(h, config, saves) == Begin(h, "write", "configure", config, saves, wg0)
wireguardToggle(h) == Begin(h, "show", "toggle", Nothing, FALSE, wg0)
wireguardRestart(h) == Begin(h, "down", "restart", Nothing, FALSE, wg0)

\* The write of a file, which may fail: only the directories of installed tools exist.
AfterWrite == [connect |-> "up", connectOpenVPN |-> "start", configure |-> "show",
               saveOpenVPN |-> "answer"]
Write(h) ==
  LET me == local[h] IN
  /\ pc[h] = "write"
  /\ \/ /\ IF me.kind \in {"connect", "configure"}
             THEN wgFile' = me.config /\ saving' = me.saving /\ UNCHANGED ovFile
             ELSE ovFile' = me.config /\ UNCHANGED <<wgFile, saving>>
        /\ Goto(h, AfterWrite[me.kind], me)
     \/ /\ Goto(h, "answer", [me EXCEPT !.ok = FALSE])
        /\ UNCHANGED <<wgFile, saving, ovFile>>
  /\ UNCHANGED <<wg0, other, openvpn, memo>>

\* The look at the tunnel: configuring looks at wg0 and leaves one that is down alone; the
\* switch looks at any interface of WireGuard, and brings wg0 up when there is none.
Show(h) ==
  LET toggle == local[h].kind = "toggle"
      active == wg0 # Nothing \/ (toggle /\ other)
      inactive == IF toggle THEN "up" ELSE "answer" IN
  /\ pc[h] = "show"
  /\ Goto(h, IF active THEN "down" ELSE inactive, [local[h] EXCEPT !.active = active])
  /\ UNCHANGED <<wireguard, openVPN, memo>>

\* Configuring does not look at the results of its commands, and the restart brings the
\* tunnel up whether or not it was there to take down.
Result(me, ok) ==
  [me EXCEPT !.ok = me.kind = "configure" \/ (@ /\ ok), !.worked = @ /\ ok]

DownCommand(kind) == IF kind = "configure" THEN "down quietly" ELSE Direct

TakeDownAnd(h, next) ==
  LET me == local[h] IN
  /\ pc[h] = "down"
  /\ \E ok \in BOOLEAN :
       \/ /\ Remembers(DownCommand(me.kind), ok)
          /\ Goto(h, next, [Result(me, ok) EXCEPT !.worked = FALSE])
          /\ UNCHANGED <<wgFile, wg0>>
       \/ /\ Runs(DownCommand(me.kind), ok)
          /\ Down(ok)
          /\ Goto(h, next, Result(me, ok))
  /\ UNCHANGED <<saving, other, openVPN>>

\* Mutant of TakeDown: configuring leaves the tunnel down.
TakeDownOnly(h) == TakeDownAnd(h, IF local[h].kind = "restart" THEN "up" ELSE "answer")

TakeDown(h) == TakeDownAnd(h, IF local[h].kind = "toggle" THEN "answer" ELSE "up")

UpCommand(kind) ==
  CASE kind = "connect" -> "up" [] kind = "configure" -> "up quietly" [] OTHER -> Direct

BringUp(h) ==
  LET me == local[h] IN
  /\ pc[h] = "up"
  /\ \E ok \in BOOLEAN :
       \/ /\ Remembers(UpCommand(me.kind), ok)
          /\ Goto(h, "answer", [Result(me, ok) EXCEPT !.worked = FALSE])
          /\ UNCHANGED wg0
       \/ /\ Runs(UpCommand(me.kind), ok)
          /\ Up(ok)
          /\ Goto(h, "answer", Result(me, ok))
  /\ UNCHANGED <<wgFile, saving, other, openVPN>>

Start(h) ==
  LET me == local[h] IN
  /\ pc[h] = "start"
  /\ \E ok \in BOOLEAN :
       \/ /\ Remembers("start", ok)
          /\ Goto(h, "answer", [Result(me, ok) EXCEPT !.worked = FALSE])
          /\ UNCHANGED openvpn
       \/ /\ Runs("start", ok)
          /\ StartService(ok)
          /\ Goto(h, "answer", Result(me, ok))
  /\ UNCHANGED <<wireguard, ovFile>>

\* Mutant of Answer: the result map outlives its request.
AnswerAndKeep(h) ==
  /\ pc[h] = "answer"
  /\ Goto(h, "idle", local[h])
  /\ UNCHANGED <<wireguard, openVPN, memo>>

Answer(h) ==
  /\ pc[h] = "answer"
  /\ Goto(h, "idle", NoLocals)
  /\ UNCHANGED <<wireguard, openVPN, memo>>

-----------------------------------------------------------------------------
(***************************************************************************)
(* Time, the administrator, the panel's restart, the machine's.            *)
(***************************************************************************)
Tick ==
  /\ memo # NothingRemembered(Commands)
  /\ memo' = Aged(memo)
  /\ UNCHANGED <<wireguard, openVPN, pc, local>>

\* Another interface of WireGuard comes or goes.
SwitchOther ==
  /\ other' = ~other
  /\ UNCHANGED <<wgFile, saving, wg0, openVPN, memo, pc, local>>

Cut ==
  /\ memo' = NothingRemembered(Commands)
  /\ pc' = [h \in Handlers |-> "idle"]
  /\ local' = [h \in Handlers |-> NoLocals]

Restart == Cut /\ UNCHANGED <<wireguard, openVPN>>

\* Neither tunnel is brought up at boot.
Reboot ==
  /\ Cut
  /\ wg0' = Nothing /\ openvpn' = Nothing
  /\ UNCHANGED <<wgFile, saving, other, ovFile>>

Next ==
  \/ \E h \in Handlers :
       \/ connectVPN(h)
       \/ \E profile \in Profiles : saveOpenVPNConfig(h, profile)
       \/ \E config \in Configs, saves \in BOOLEAN : configureWireGuard(h, config, saves)
       \/ wireguardToggle(h) \/ wireguardRestart(h)
       \/ Write(h) \/ Show(h) \/ TakeDown(h) \/ BringUp(h) \/ Start(h) \/ Answer(h)
  \/ Tick \/ SwitchOther \/ Restart \/ Reboot

Spec == Init /\ [][Next]_vars

-----------------------------------------------------------------------------
(***************************************************************************)
(* Properties: what an answer is worth when it is given.                   *)
(***************************************************************************)
Answering(h, kind) == pc[h] = "answer" /\ local[h].kind = kind /\ local[h].alone
Trusted(h) == local[h].ok /\ local[h].worked

\* A configuration that met no other request, and all of whose commands were run and
\* succeeded, leaves a tunnel that was down alone and gives one that was up the new
\* configuration; but if that says SaveConfig, taking the tunnel down has written the
\* old one over it, and the tunnel comes up as it was.
ConfigureLoads(h) ==
  Answering(h, "configure") /\ Trusted(h) =>
    wg0 = IF ~local[h].active THEN Nothing
          ELSE IF local[h].saving THEN local[h].before ELSE local[h].config

\* A tunnel said to be up is; WireGuard's has the configuration of the request,
\* OpenVPN's only if none was running before.
ConnectIsUp(h) ==
  /\ Answering(h, "connect") /\ Trusted(h) => wg0 = local[h].config
  /\ Answering(h, "connectOpenVPN") /\ Trusted(h) =>
       /\ openvpn # Nothing
       /\ local[h].before = Nothing => openvpn = local[h].config

\* The switch and the restart do what they say whatever the memo holds; the restart
\* brings up what the file says, which taking the tunnel down may have changed.
SwitchIsTruthful(h) ==
  /\ Answering(h, "toggle") /\ local[h].ok =>
       (wg0 = Nothing) = (local[h].before # Nothing)
  /\ Answering(h, "restart") /\ local[h].ok => wg0 = wgFile /\ wg0 # Nothing

\* An error of a connection leaves a tunnel that was up as it was; one that was down may
\* have come up, if the deadline ended the command.
ErrorKeepsTunnel(h) ==
  local[h].before # Nothing /\ ~local[h].ok =>
    /\ Answering(h, "connect") => wg0 = local[h].before
    /\ Answering(h, "connectOpenVPN") => openvpn = local[h].before

\* What the panel answers about a tunnel, to a request that met no other, is so: for
\* connecting as far as its command was run and not remembered, for configuring, which
\* does not look, as far as its commands were run and succeeded, for the switch and the
\* restart of WireGuard always (connectVPN, configureWireGuard, wireguardToggleHandler,
\* wireguardRestartHandler).
AnswersHold ==
  \A h \in Handlers :
    ConfigureLoads(h) /\ ConnectIsUp(h) /\ SwitchIsTruthful(h) /\ ErrorKeepsTunnel(h)

\* "WireGuard reiniciado con nueva configuración", the answer to configuring a tunnel that
\* is up, is so for a request that met no other (vpn_handlers.go:246-248).
RestartedIsNew ==
  \A h \in Handlers :
    Answering(h, "configure") /\ local[h].ok /\ local[h].active => wg0 = local[h].config
=============================================================================
