------------------------------- MODULE HostApd -------------------------------
(***************************************************************************)
(* The access point of api_compat.go: creating the interface ap0, switching *)
(* hostapd and dnsmasq on and off, restarting hostapd, and configuring it   *)
(* all in one request of some forty commands.                               *)
(*                                                                         *)
(* Requests start when no other is served and the executor of utils.go     *)
(* remembers nothing of an earlier one.  So only the commands whose answer *)
(* a later step of the same request asks for again are in the memo.        *)
(* The rules that name the machine's way out are those of one way out: a   *)
(* request made while the machine has another leaves them alone.           *)
(* Left out: addresses, the up and down of interfaces, masks of services,  *)
(* and scripts nobody runs.  udevadm, ls and rm are not on the executor's  *)
(* list and never run.  systemctl enable and disable do not fail.          *)
(***************************************************************************)
EXTENDS Memo

CONSTANTS
  Handlers,   (* goroutines that serve the access point's requests         *)
  Settings,   (* network name, password, gateway, ... that are asked for   *)
  None,       (* no file, no process                                       *)
  Attempts,   (* looks at a new ap0 (5), a tick apart                      *)
  Waits,      (* ticks from the look that missed it to the first of them   *)
  MaxCopies,  (* bound: copies of a firewall rule                          *)
  Fallible    (* what may fail                                             *)

ASSUME HostApdAssumption ==
  /\ Attempts \in Nat \ {0}
  /\ Waits \in Nat
  /\ MaxCopies \in Nat \ {0}
  /\ Fallible \subseteq {"create", "hostapd", "dnsmasq", "file", "driver", "stop", "rules",
                    "route"}

VARIABLES
  ap0,        (* does the interface ap0 exist?                             *)
  udev,       (* is there a rule that creates it at boot?                  *)
  conf,       (* /etc/hostapd/hostapd.conf                                 *)
  dnsConf,    (* /etc/dnsmasq.conf                                         *)
  override,   (* hostapd.service.d/override.conf                           *)
  running,    (* the configuration hostapd runs with                       *)
  dnsmasq,    (* the configuration dnsmasq runs with                       *)
  boot,       (* the services that are enabled                             *)
  rules,      (* copies of each firewall rule                              *)
  refused,    (* the rules of which a deletion has failed: a history       *)
  bus,        (* does systemctl answer the panel, which is not root?       *)
  memo,       (* what the executor remembers                               *)
  pc,         (* the next step of each handler                             *)
  local       (* its locals                                                *)

files == <<udev, conf, dnsConf, override>>
services == <<running, dnsmasq, boot>>
firewall == <<rules, refused>>
world == <<ap0, files, services, firewall, bus>>
vars == <<world, memo, pc, local>>

\* A configuration: its interface, which is the physical one when no ap0 can be
\* had, and the settings.
Interfaces == {"ap0", "wlan"}
Configs == [iface : Interfaces, net : Settings]
Services == {"hostapd", "dnsmasq"}

\* The rule for a gateway's addresses, that for the way out, and those for an interface
\* and the way out, which stand for two that are deleted and added together.
Rules == Settings \cup {"out"} \cup Interfaces

\* The results are "present" and "missing" for a look, ok and error for the others.
Commands == {"look", "create", "copyOverride"}
Results == {"present", "missing", "ok", "error"}

Labels ==
  {"idle", "look", "delete", "create", "lookAgain", "enableDns", "startDnsmasq", "enable",
   "start", "status", "stopDnsmasq", "disable", "stop", "stopFirst", "startAfter",
   "startAnyway", "udev", "verify", "write", "writeDns", "deleteRules", "addRules",
   "override", "prestart", "enableBoth", "restartDnsmasq", "lookBefore", "createLate",
   "lookLate", "restart", "restartAgain", "on", "off", "created", "configured",
   "restarted", "failed"}

\* wait: the ticks that the handler has still to wait before it looks; own: the rules
\* that it deletes and adds.
Kinds == {"none", "create", "toggle", "configure"}
Locals == [kind : Kinds, net : Settings \cup {None}, iface : Interfaces,
           tries : 0..(Attempts - 1), wait : 0..(Waits + 1), own : SUBSET Rules]
NoLocals ==
  [kind |-> "none", net |-> None, iface |-> "ap0", tries |-> 0, wait |-> 0, own |-> {}]

TypeOK ==
  /\ ap0 \in BOOLEAN
  /\ udev \in BOOLEAN
  /\ {conf, dnsConf, running, dnsmasq} \subseteq Configs \cup {None}
  /\ override \in {None, "plain", "prestart"}
  /\ boot \subseteq Services
  /\ rules \in [Rules -> 0..MaxCopies]
  /\ refused \subseteq Rules
  /\ bus \in BOOLEAN
  /\ memo \in Tables(Commands, Results)
  /\ pc \in [Handlers -> Labels]
  /\ local \in [Handlers -> Locals]

Init ==
  /\ ap0 = FALSE
  /\ udev = FALSE
  /\ conf = None
  /\ dnsConf = None
  /\ override = None
  /\ running = None
  /\ dnsmasq = None
  /\ boot = {}
  /\ rules = [r \in Rules |-> 0]
  /\ refused = {}
  /\ bus \in BOOLEAN
  /\ memo = NothingRemembered(Commands)
  /\ pc = [h \in Handlers |-> "idle"]
  /\ local = [h \in Handlers |-> NoLocals]

-----------------------------------------------------------------------------
(***************************************************************************)
(* The executor and the services.                                          *)
(***************************************************************************)
Goto(h, label) == pc' = [pc EXCEPT ![h] = label]

Answer(c, result) == Known(memo, c) /\ memo[c].result = result /\ UNCHANGED memo
Ran(c, result) == ~Known(memo, c) /\ memo' = [memo EXCEPT ![c] = Remembered(result)]

\* What the request does not ask for again need not be remembered.
NothingAskedAgain == memo' = NothingRemembered(Commands)

\* ip link show ap0
Look(result) ==
  \/ Answer("look", result)
  \/ Ran("look", result) /\ result = IF ap0 THEN "present" ELSE "missing"

\* iw ... interface add ap0, in all the ways that are tried in turn.
Create(result) ==
  \/ Answer("create", result) /\ UNCHANGED ap0
  \/ /\ Ran("create", result)
     /\ \/ result = "ok" /\ ~ap0 /\ ap0' = TRUE
        \/ result = "error" /\ (ap0 \/ "create" \in Fallible) /\ UNCHANGED ap0

\* hostapd needs its interface.
CanRun(config) == config # None /\ (config.iface = "ap0" => ap0)

\* systemctl start and restart: a service that runs already is not started again.
StartHostapd(result) ==
  \/ /\ result = "ok"
     /\ running # None \/ CanRun(conf)
     /\ running' = IF running # None THEN running ELSE conf
  \/ /\ result = "error"
     /\ running = None
     /\ ~CanRun(conf) \/ "hostapd" \in Fallible
     /\ UNCHANGED running

RestartHostapd(result) ==
  \/ result = "ok" /\ CanRun(conf) /\ running' = conf
  \/ /\ result = "error"
     /\ ~CanRun(conf) \/ "hostapd" \in Fallible
     /\ running' = None

\* A stop that fails may have stopped it, when it is killed at the executor's deadline.
StopHostapd(result) ==
  \/ result = "ok" /\ running' = None
  \/ result = "error" /\ "stop" \in Fallible /\ running' \in {None, running}

\* systemctl is-active || pgrep && echo active || echo inactive, as the shell reads it:
\* (is-active || pgrep) && echo.  is-active prints the state itself, if systemd
\* answers it.
Status ==
  LET state == IF running # None THEN "active" ELSE "inactive"
  IN  IF bus THEN <<state, state>> ELSE <<state>>
isActive == Status = <<"active">>

RestartDnsmasq ==
  \/ dnsmasq' = dnsConf
  \/ "dnsmasq" \in Fallible /\ dnsmasq' = None

StartDnsmasq == IF dnsmasq # None THEN UNCHANGED dnsmasq ELSE RestartDnsmasq

-----------------------------------------------------------------------------
(***************************************************************************)
(* Requests begin, and end with an answer.                                 *)
(***************************************************************************)
Begins(h, kind, net, label) ==
  /\ \A o \in Handlers : pc[o] = "idle"
  /\ \A c \in Commands : ~Known(memo, c)
  /\ local' = [local EXCEPT ![h] = [NoLocals EXCEPT !.kind = kind, !.net = net]]
  /\ Goto(h, label)
  /\ UNCHANGED <<world, memo>>

hostapdCreateAp0(h) == Begins(h, "create", None, "look")
hostapdRestart(h) == Begins(h, "none", None, "stopFirst")
hostapdConfig(h, net) == Begins(h, "configure", net, "udev")

\* What is seen to run is switched off; what is not is switched on, if it is configured.
hostapdToggle(h) ==
  IF isActive
  THEN Begins(h, "toggle", None, "stopDnsmasq")
  ELSE conf # None /\ Begins(h, "toggle", None, "look")

Respond(h) ==
  /\ pc[h] \in {"on", "off", "created", "configured", "restarted", "failed"}
  /\ Goto(h, "idle")
  /\ local' = [local EXCEPT ![h] = NoLocals]
  /\ NothingAskedAgain
  /\ UNCHANGED world

-----------------------------------------------------------------------------
(***************************************************************************)
(* ap0: looked for and, if it is missing, removed for safety and created.  *)
(***************************************************************************)
\* The step that follows when ap0 is there.
WithAp0(h) ==
  CASE local[h].kind = "create" -> "created"
    [] local[h].kind = "toggle" -> "enableDns"
    [] local[h].kind = "configure" -> "write"

\* Mutant of LookFor: ap0 is made anew each time.
LookForNothing(h) ==
  /\ pc[h] = "look"
  /\ \E result \in {"present", "missing"} : Look(result)
  /\ Goto(h, "delete")
  /\ UNCHANGED <<world, local>>

LookFor(h) ==
  /\ pc[h] = "look"
  /\ \/ Look("present") /\ Goto(h, WithAp0(h))
     \/ Look("missing") /\ Goto(h, "delete")
  /\ UNCHANGED <<world, local>>

\* hostapd does not outlive its interface.
Without(config) == IF config # None /\ config.iface = "ap0" THEN None ELSE config

DeleteAp0(h) ==
  /\ pc[h] = "delete"
  /\ ap0' = FALSE
  /\ running' = Without(running)
  /\ Goto(h, "create")
  /\ UNCHANGED <<files, dnsmasq, boot, firewall, bus, memo, local>>

\* Creating it for its own sake fails; the toggle goes on without; the configuration
\* goes on with the physical interface.  The toggle's one look at the new interface
\* changes nothing and is left out.
CreateAp0(h) ==
  /\ pc[h] = "create"
  /\ \/ /\ Create("ok")
        /\ Goto(h, CASE local[h].kind = "create" -> "lookAgain"
                     [] local[h].kind = "toggle" -> "enableDns"
                     [] local[h].kind = "configure" -> "verify")
        /\ local' = [local EXCEPT ![h].wait = Waits]
     \/ /\ Create("error")
        /\ Goto(h, IF local[h].kind = "create" THEN "failed" ELSE WithAp0(h))
        /\ local' =
             [local EXCEPT ![h].iface = IF local[h].kind = "configure" THEN "wlan" ELSE @]
  /\ UNCHANGED <<files, services, firewall, bus>>

\* Mutant of LookAgain: the looks are not counted out.
LookForever(h) ==
  /\ pc[h] = "lookAgain"
  /\ local[h].wait = 0
  /\ \/ Look("present") /\ Goto(h, "created") /\ UNCHANGED local
     \/ /\ Look("missing")
        /\ local' = [local EXCEPT ![h].tries = @ + 1, ![h].wait = 1]
        /\ UNCHANGED pc
  /\ UNCHANGED world

\* The new interface is looked for with the command that found it missing, some seconds
\* after it did, and then again and again, a second apart.
LookAgain(h) ==
  /\ pc[h] = "lookAgain"
  /\ local[h].wait = 0
  /\ \/ Look("present") /\ Goto(h, "created") /\ UNCHANGED local
     \/ /\ Look("missing")
        /\ IF local[h].tries + 1 < Attempts
           THEN /\ local' = [local EXCEPT ![h].tries = @ + 1, ![h].wait = 1]
                /\ UNCHANGED pc
           ELSE Goto(h, "failed") /\ UNCHANGED local
  /\ UNCHANGED world

\* The configuration asks iw besides, and tries to create it once more if need be.
Verify(h) ==
  /\ pc[h] = "verify"
  /\ \E result \in {"present", "missing"} : Look(result)
  /\ IF ap0 THEN UNCHANGED ap0 ELSE ap0' \in BOOLEAN
  /\ Goto(h, "write")
  /\ UNCHANGED <<files, services, firewall, bus, local>>

-----------------------------------------------------------------------------
(***************************************************************************)
(* The toggle and the restart.                                             *)
(***************************************************************************)
EnableDnsmasq(h) ==
  /\ pc[h] = "enableDns"
  /\ boot' = boot \cup {"dnsmasq"}
  /\ NothingAskedAgain
  /\ Goto(h, "startDnsmasq")
  /\ UNCHANGED <<ap0, files, running, dnsmasq, firewall, bus, local>>

StartDnsmasqFirst(h) ==
  /\ pc[h] = "startDnsmasq"
  /\ StartDnsmasq
  /\ Goto(h, "enable")
  /\ UNCHANGED <<ap0, files, running, boot, firewall, bus, memo, local>>

EnableHostapd(h) ==
  /\ pc[h] = "enable"
  /\ boot' = boot \cup {"hostapd"}
  /\ Goto(h, "start")
  /\ UNCHANGED <<ap0, files, running, dnsmasq, firewall, bus, memo, local>>

Start(h) ==
  /\ pc[h] = "start"
  /\ \/ StartHostapd("ok") /\ Goto(h, "status")
     \/ StartHostapd("error") /\ Goto(h, "failed")
  /\ UNCHANGED <<ap0, files, dnsmasq, boot, firewall, bus, memo, local>>

\* hostapd must be seen to run a moment later.
ReadStatus(h) ==
  /\ pc[h] = "status"
  /\ Goto(h, IF isActive THEN "on" ELSE "failed")
  /\ UNCHANGED <<world, memo, local>>

StopDnsmasq(h) ==
  /\ pc[h] = "stopDnsmasq"
  /\ \/ dnsmasq' = None
     \/ "stop" \in Fallible /\ UNCHANGED dnsmasq
  /\ Goto(h, "disable")
  /\ UNCHANGED <<ap0, files, running, boot, firewall, bus, memo, local>>

DisableHostapd(h) ==
  /\ pc[h] = "disable"
  /\ boot' = boot \ {"hostapd"}
  /\ Goto(h, "stop")
  /\ UNCHANGED <<ap0, files, running, dnsmasq, firewall, bus, memo, local>>

\* The toggle answers that it is off or has failed.  A restart goes on in any case.
Stop(h) ==
  /\ pc[h] \in {"stop", "stopFirst"}
  /\ \/ /\ StopHostapd("ok")
        /\ Goto(h, IF pc[h] = "stop" THEN "off" ELSE "startAfter")
     \/ /\ StopHostapd("error")
        /\ Goto(h, IF pc[h] = "stop" THEN "failed" ELSE "startAnyway")
  /\ UNCHANGED <<ap0, files, dnsmasq, boot, firewall, bus, memo, local>>

\* Mutant of StartAfter: a stop that failed is not reported.
StartAfterAnyStop(h) ==
  /\ pc[h] \in {"startAfter", "startAnyway"}
  /\ \/ StartHostapd("ok") /\ Goto(h, "restarted")
     \/ StartHostapd("error") /\ Goto(h, "failed")
  /\ UNCHANGED <<ap0, files, dnsmasq, boot, firewall, bus, memo, local>>

StartAfter(h) ==
  /\ pc[h] \in {"startAfter", "startAnyway"}
  /\ \/ /\ StartHostapd("ok")
        /\ Goto(h, IF pc[h] = "startAfter" THEN "restarted" ELSE "failed")
     \/ StartHostapd("error") /\ Goto(h, "failed")
  /\ UNCHANGED <<ap0, files, dnsmasq, boot, firewall, bus, memo, local>>

-----------------------------------------------------------------------------
(***************************************************************************)
(* The configuration.                                                      *)
(***************************************************************************)
Asked(h) == [iface |-> local[h].iface, net |-> local[h].net]

\* A rule for udev that creates ap0 at boot, unless there is one.
WriteUdev(h) ==
  /\ pc[h] = "udev"
  /\ \/ udev' = TRUE
     \/ "file" \in Fallible /\ UNCHANGED udev
  /\ Goto(h, "look")
  /\ UNCHANGED <<ap0, conf, dnsConf, override, services, firewall, bus, memo, local>>

\* A request without the password its security needs ends here, and so does one whose
\* file cannot be written.
WriteConf(h) ==
  /\ pc[h] = "write"
  /\ \/ conf' = Asked(h) /\ Goto(h, "writeDns")
     \/ Goto(h, "failed") /\ UNCHANGED conf
  /\ UNCHANGED <<ap0, udev, dnsConf, override, services, firewall, bus, memo, local>>

WriteDnsConf(h) ==
  /\ pc[h] = "writeDns"
  /\ \/ dnsConf' = Asked(h) /\ Goto(h, "deleteRules")
     \/ "file" \in Fallible /\ Goto(h, "failed") /\ UNCHANGED dnsConf
  /\ UNCHANGED <<ap0, udev, conf, override, services, firewall, bus, memo, local>>

\* The rules that a request deletes and adds.  When the machine has another way out than
\* that of the model, those that name it are not among them; when that is the access
\* point's own interface there are none.
OwnRules(h) ==
  {{local[h].net, "out", local[h].iface}} \cup
    (IF "route" \in Fallible THEN {{local[h].net}} ELSE {}) \cup
    (IF "route" \in Fallible /\ local[h].iface = "wlan" THEN {{}} ELSE {})

\* Mutant of DeleteRules: those of the interface are forgotten.
DeleteNetRules(h) ==
  /\ pc[h] = "deleteRules"
  /\ \E own \in OwnRules(h) :
       /\ local' = [local EXCEPT ![h].own = own]
       /\ rules' = [r \in Rules |-> IF r \in own \ Interfaces /\ rules[r] > 0
                                    THEN rules[r] - 1 ELSE rules[r]]
  /\ Goto(h, "addRules")
  /\ UNCHANGED <<ap0, files, services, refused, bus, memo>>

\* iptables -D removes one copy of a rule, unless it is refused for some other reason than
\* that there is none.
DeleteRules(h) ==
  /\ pc[h] = "deleteRules"
  /\ \E own \in OwnRules(h), denied \in SUBSET Rules :
       /\ denied \subseteq {r \in own : rules[r] > 0 /\ "rules" \in Fallible}
       /\ local' = [local EXCEPT ![h].own = own]
       /\ rules' = [r \in Rules |-> IF r \in own \ denied /\ rules[r] > 0
                                    THEN rules[r] - 1 ELSE rules[r]]
       /\ refused' = refused \cup denied
  /\ Goto(h, "addRules")
  /\ UNCHANGED <<ap0, files, services, bus, memo>>

\* iptables -A adds one, unless it is refused.
AddRules(h) ==
  /\ pc[h] = "addRules"
  /\ \E added \in SUBSET local[h].own :
       /\ "rules" \in Fallible \/ added = local[h].own
       /\ \A r \in added : rules[r] < MaxCopies
       /\ rules' = [r \in Rules |-> IF r \in added THEN rules[r] + 1 ELSE rules[r]]
  /\ Goto(h, "override")
  /\ local' = [local EXCEPT ![h].own = {}]
  /\ UNCHANGED <<ap0, files, services, refused, bus, memo>>

\* The same copy command twice, with other contents of the temporary file.
CopyOverride(content) ==
  \/ Known(memo, "copyOverride") /\ UNCHANGED <<memo, override>>
  \/ Ran("copyOverride", "ok") /\ override' = content

WriteOverride(h) ==
  /\ pc[h] = "override"
  /\ CopyOverride("plain")
  /\ Goto(h, "prestart")
  /\ UNCHANGED <<ap0, udev, conf, dnsConf, services, firewall, bus, local>>

WritePrestart(h) ==
  /\ pc[h] = "prestart"
  /\ CopyOverride("prestart")
  /\ Goto(h, "enableBoth")
  /\ UNCHANGED <<ap0, udev, conf, dnsConf, services, firewall, bus, local>>

EnableBoth(h) ==
  /\ pc[h] = "enableBoth"
  /\ boot' = Services
  /\ memo' = [memo EXCEPT !["copyOverride"] = Forgotten]
  /\ Goto(h, "restartDnsmasq")
  /\ UNCHANGED <<ap0, files, running, dnsmasq, firewall, bus, local>>

\* dnsmasq is restarted before hostapd and again after it, by commands that differ.
RestartDnsmasqStep(h) ==
  /\ pc[h] \in {"restartDnsmasq", "restartAgain"}
  /\ RestartDnsmasq
  /\ Goto(h, IF pc[h] = "restartAgain" THEN "configured"
             ELSE IF local[h].iface = "ap0" THEN "lookBefore" ELSE "restart")
  /\ UNCHANGED <<ap0, files, running, boot, firewall, bus, memo, local>>

\* Once more ap0 is looked for, created and looked for.
LookBefore(h) ==
  /\ pc[h] = "lookBefore"
  /\ \/ Look("present") /\ Goto(h, "restart")
     \/ Look("missing") /\ Goto(h, "createLate")
  /\ UNCHANGED <<world, local>>

CreateLate(h) ==
  /\ pc[h] = "createLate"
  /\ \E result \in {"ok", "error"} : Create(result)
  /\ Goto(h, "lookLate")
  /\ UNCHANGED <<files, services, firewall, bus, local>>

LookLate(h) ==
  /\ pc[h] = "lookLate"
  /\ \/ Look("present") /\ Goto(h, "restart")
     \/ Look("missing") /\ Goto(h, "failed")
  /\ UNCHANGED <<world, local>>

\* Mutant of Restart: hostapd is started, if it does not run.
RestartByStart(h) ==
  /\ pc[h] = "restart"
  /\ \/ StartHostapd("ok") /\ Goto(h, "restartAgain")
     \/ StartHostapd("error") /\ Goto(h, "failed")
  /\ UNCHANGED <<ap0, files, dnsmasq, boot, firewall, bus, memo, local>>

Restart(h) ==
  /\ pc[h] = "restart"
  /\ \/ RestartHostapd("ok") /\ Goto(h, "restartAgain")
     \/ RestartHostapd("error") /\ Goto(h, "failed")
  /\ NothingAskedAgain
  /\ UNCHANGED <<ap0, files, dnsmasq, boot, firewall, bus, local>>

-----------------------------------------------------------------------------
(***************************************************************************)
(* The environment.                                                        *)
(***************************************************************************)
Crash ==
  /\ "hostapd" \in Fallible
  /\ running # None
  /\ running' = None
  /\ UNCHANGED <<ap0, files, dnsmasq, boot, firewall, bus, memo, pc, local>>

LoseAp0 ==
  /\ "driver" \in Fallible
  /\ ap0
  /\ ap0' = FALSE
  /\ running' = Without(running)
  /\ UNCHANGED <<files, dnsmasq, boot, firewall, bus, memo, pc, local>>

\* Blocky and AdBlock stop dnsmasq.
LoseDnsmasq ==
  /\ dnsmasq # None
  /\ dnsmasq' = None
  /\ UNCHANGED <<ap0, files, running, boot, firewall, bus, memo, pc, local>>

Tick ==
  /\ \/ \E c \in Commands : Known(memo, c)
     \/ \E h \in Handlers : pc[h] = "lookAgain" /\ local[h].wait > 0
  /\ memo' = Aged(memo)
  /\ local' = [h \in Handlers |->
                 IF pc[h] = "lookAgain" /\ local[h].wait > 0
                 THEN [local[h] EXCEPT !.wait = @ - 1] ELSE local[h]]
  /\ UNCHANGED <<world, pc>>

Cut ==
  /\ memo' = NothingRemembered(Commands)
  /\ pc' = [h \in Handlers |-> "idle"]
  /\ local' = [h \in Handlers |-> NoLocals]

\* The panel is restarted anywhere in a request; the machine reboots, and the rules
\* of the firewall are not saved.
RestartPanel ==
  /\ \E h \in Handlers : pc[h] # "idle"
  /\ Cut
  /\ UNCHANGED world

Reboot ==
  /\ ap0' \in {FALSE, udev}
  /\ running' =
       IF "hostapd" \in boot /\ conf # None /\ (conf.iface = "ap0" => ap0')
       THEN conf ELSE None
  /\ dnsmasq' = IF "dnsmasq" \in boot THEN dnsConf ELSE None
  /\ rules' = [r \in Rules |-> 0]
  /\ refused' = {}
  /\ Cut
  /\ UNCHANGED <<files, boot, bus>>

Handler(h) ==
  \/ hostapdCreateAp0(h)
  \/ hostapdToggle(h)
  \/ hostapdRestart(h)
  \/ \E net \in Settings : hostapdConfig(h, net)
  \/ LookFor(h)
  \/ DeleteAp0(h)
  \/ CreateAp0(h)
  \/ LookAgain(h)
  \/ Verify(h)
  \/ EnableDnsmasq(h)
  \/ StartDnsmasqFirst(h)
  \/ EnableHostapd(h)
  \/ Start(h)
  \/ ReadStatus(h)
  \/ StopDnsmasq(h)
  \/ DisableHostapd(h)
  \/ Stop(h)
  \/ StartAfter(h)
  \/ WriteUdev(h)
  \/ WriteConf(h)
  \/ WriteDnsConf(h)
  \/ DeleteRules(h)
  \/ AddRules(h)
  \/ WriteOverride(h)
  \/ WritePrestart(h)
  \/ EnableBoth(h)
  \/ RestartDnsmasqStep(h)
  \/ LookBefore(h)
  \/ CreateLate(h)
  \/ LookLate(h)
  \/ Restart(h)
  \/ Respond(h)

Next ==
  \/ \E h \in Handlers : Handler(h)
  \/ Crash
  \/ LoseAp0
  \/ LoseDnsmasq
  \/ Tick
  \/ RestartPanel
  \/ Reboot

Spec == Init /\ [][Next]_vars

-----------------------------------------------------------------------------
Becomes(h, label) == pc[h] # label /\ pc'[h] = label

\* When the panel says that the access point is configured, hostapd and dnsmasq do not
\* run with an older configuration than the one asked for, in the files and at the
\* next boot, whatever failed or was cut off before: a new setting over a running
\* access point, another interface, or a file of an unfinished request
\* (api_compat.go:2438-2512, 2641-2695).
ConfigApplied ==
  [][\A h \in Handlers : Becomes(h, "configured") =>
       /\ conf' = Asked(h) /\ dnsConf' = Asked(h)
       /\ running' \in {None, Asked(h)} /\ dnsmasq' \in {None, Asked(h)}
       /\ boot' = Services]_vars

\* What the toggle and the restart say holds now and at the next boot: on or restarted,
\* hostapd runs with the saved configuration and not with an older one that a stop left,
\* though its interface may have had to be created; off, it does not run
\* (api_compat.go:1460-1464, 1624-1643, 1690-1694, 1774-1795).
SwitchIsTruthful ==
  [][\A h \in Handlers :
       /\ Becomes(h, "on") => running' = conf /\ running' # None /\ "hostapd" \in boot'
       /\ Becomes(h, "off") => running' = None /\ "hostapd" \notin boot'
       /\ Becomes(h, "restarted") => running' = conf /\ running' # None]_vars

\* "HostAPD failed to start", says the log (api_compat.go:1695), "Failed to enable
\* HostAPD", the answer: that hostapd does not run, then.  It does where systemctl
\* prints the state that the echo prints again (:1690).
FailsRightly ==
  [][\A h \in Handlers : (pc[h] = "status" /\ pc'[h] = "failed") => running = None]_vars

\* The looks at a new ap0 are answered from the memo of the look that missed it, and
\* still do not end before it is seen: a request that gives up looking is right
\* (api_compat.go:1327, 1405-1438).
GivesUpRightly ==
  [][\A h \in Handlers : (pc[h] = "lookAgain" /\ pc'[h] = "failed") => ~ap0]_vars

\* What the panel answers about the access point is so: each success, and that no ap0
\* could be had.  Of the toggle's failures it is not, see FailsRightly.
AnswersHold == SwitchIsTruthful /\ GivesUpRightly

\* No rule of the firewall is there twice, at any step of a request and however often
\* the access point is configured, cut off or not, by way of which interface whatever,
\* unless a deletion of that rule was refused (api_compat.go:2519-2539).
NoDuplicateRules == \A r \in Rules \ refused : rules[r] <= 1

\* No request is about to remove the interface on which hostapd runs
\* (api_compat.go:1327-1366, 1491-1537, 2145-2157).
Ap0Spared == \A h \in Handlers : pc[h] = "delete" => Without(running) = running
=============================================================================
