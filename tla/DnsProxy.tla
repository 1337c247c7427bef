------------------------------ MODULE DnsProxy ------------------------------
(***************************************************************************)
(* Who resolves names: DNSCrypt, Blocky and the AdBlock switch of          *)
(* adblock_handlers.go, the update of extra_api_handlers.go, and the DNS   *)
(* setting of networkConfigHandler.                                        *)
(* DNSCrypt, Blocky and the setting share /etc/resolv.conf and one backup  *)
(* of it.  Commands go through the executor of utils.go, which does not    *)
(* run one it remembers; DNSCrypt and the setting write resolv.conf        *)
(* directly, Blocky copies a temporary file over it with a command.        *)
(*                                                                         *)
(* A proxy serves when it has port 53, which one service has at a time: a  *)
(* start reports success before that, and what starts at boot competes.    *)
(*                                                                         *)
(* A handler is one step per command or file operation.  A content of      *)
(* resolv.conf is the name servers in it.  inUse and original are history: *)
(* the proxy whose enabling was answered last, and the resolv.conf it      *)
(* found.                                                                  *)
(***************************************************************************)
EXTENDS Memo

CONSTANTS
  Handlers,    (* goroutines that serve the DNS requests                   *)
  Networks,    (* name servers the administrator or the network sets       *)
  Local,       (* "nameserver 127.0.0.1"                                   *)
  Public,      (* "nameserver 8.8.8.8", when there is no backup            *)
  None,        (* no file, no proxy                                        *)
  Fallible,    (* services that may fail to start, or fail later           *)
  Spaced,      (* requests start only when the executor remembers nothing  *)
  Alternating  (* no proxy is enabled, and no DNS set, while one is in use,
                  and no request is cut off                                *)

Proxies == {"blocky", "dnscrypt"}
Services == Proxies \cup {"dnsmasq", "pihole"}

ASSUME DnsAssumption ==
  /\ Local \notin Networks
  /\ Public \notin Networks \cup {Local}
  /\ None \notin Networks \cup {Local, Public} \cup Services
  /\ Fallible \subseteq Services
  /\ Spaced \in BOOLEAN
  /\ Alternating \in BOOLEAN

VARIABLES
  resolv,     (* /etc/resolv.conf                                          *)
  backup,     (* /etc/resolv.conf.backup                                   *)
  tmp,        (* /tmp/hostberry_resolv.conf                                *)
  blocky,     (* what there is of Blocky: its binary, its unit             *)
  configured, (* the proxies that have a configuration                     *)
  resolved,   (* the name server systemd-resolved writes, where it runs    *)
  active,     (* the services that are started, and kept up by systemd     *)
  server,     (* the one that has port 53                                  *)
  boot,       (* the services that are enabled                             *)
  memo,       (* what the executor remembers                               *)
  pc,         (* the next step of each handler                             *)
  proxy,      (* the proxy of each handler                                 *)
  inUse,
  original

files == <<resolv, backup, tmp>>
services == <<active, server, boot>>
installation == <<blocky, configured, resolved>>
world == <<files, installation, services>>
history == <<inUse, original>>
vars == <<world, memo, pc, proxy, history>>

Contents == Networks \cup {Local, Public}

Commands ==
  [op : {"start", "stop", "enable", "disable"}, on : Services]
    \cup [op : {"backup", "restore", "copy", "reload dnsmasq", "restart resolved"},
          on : {None}]
Command(op) == [op |-> op, on |-> None]
ServiceCommand(op, service) == [op |-> op, on |-> service]

Whole == {"binary", "unit"}

ok == "ok"
error == "error"

Labels ==
  {"idle", "extract", "writeUnit", "bootBlocky", "configure",
   "freePort", "start", "enable", "backup", "write", "copy", "redirected",
   "stop", "disable", "restore", "copyPublic", "restored", "startDnsmasq", "startPihole",
   "stopDnsmasq", "stopBlocky", "backupSetting", "writeSetting",
   "enabled", "disabled", "failed"}

TypeOK ==
  /\ resolv \in Contents
  /\ backup \in Contents \cup {None}
  /\ tmp \in Contents \cup {None}
  /\ blocky \subseteq Whole
  /\ configured \subseteq Proxies
  /\ resolved \in Networks \cup {None}
  /\ active \subseteq Services
  /\ server \in active \cup {None}
  /\ boot \subseteq Services
  /\ memo \in Tables(Commands, {ok, error})
  /\ pc \in [Handlers -> Labels]
  /\ proxy \in [Handlers -> Proxies \cup {None}]
  /\ inUse \in Proxies \cup {None}
  /\ original \in Contents \cup {None}

Init ==
  /\ resolved \in Networks \cup {None}
  /\ resolv \in IF resolved = None THEN Networks ELSE {resolved}
  /\ backup = None
  /\ tmp = None
  /\ blocky = {}
  /\ configured = {}
  /\ active \in {{}, {"dnsmasq"}}
  /\ boot = active
  /\ server = None
  /\ memo = NothingRemembered(Commands)
  /\ pc = [h \in Handlers |-> "idle"]
  /\ proxy = [h \in Handlers |-> None]
  /\ inUse = None
  /\ original = None

-----------------------------------------------------------------------------
(***************************************************************************)
(* The executor and its commands.                                          *)
(***************************************************************************)
Answer(c, result) ==
  /\ Known(memo, c)
  /\ memo[c].result = result
  /\ UNCHANGED <<memo, world>>

Ran(c, result) ==
  /\ ~Known(memo, c)
  /\ memo' = [memo EXCEPT ![c] = Remembered(result)]

\* Blocky needs all of it and its configuration.
CanStart(s) == s = "blocky" => blocky = Whole /\ s \in configured

\* Without port 53 a service may not start.  Blocky's is of Type=simple: its start is
\* over before Blocky looks for the port.
NeedsThePort(s) == s # "blocky"

\* A service that is already started starts again with success.
Start(s, result) ==
  LET c == ServiceCommand("start", s) IN
  \/ Answer(c, result)
  \/ /\ Ran(c, result)
     /\ \/ result = ok /\ (s \in active \/ CanStart(s)) /\ active' = active \cup {s}
        \/ /\ result = error
           /\ s \notin active
           /\ s \in Fallible \/ ~CanStart(s) \/ (NeedsThePort(s) /\ server # None)
           /\ UNCHANGED active
     /\ UNCHANGED <<server, boot, files, installation>>

Released(s) == IF server = s THEN None ELSE server

Stop(s) ==
  LET c == ServiceCommand("stop", s) IN
  \/ Answer(c, ok)
  \/ /\ Ran(c, ok)
     /\ active' = active \ {s}
     /\ server' = Released(s)
     /\ UNCHANGED <<boot, files, installation>>

SetBoot(op, s, value) ==
  LET c == ServiceCommand(op, s) IN
  \/ Answer(c, ok)
  \/ /\ Ran(c, ok)
     /\ boot' = value
     /\ UNCHANGED <<active, server, files, installation>>

\* Mutant of BackUp: an existing backup is kept.
BackUpOnce ==
  \/ Answer(Command("backup"), ok)
  \/ /\ Ran(Command("backup"), ok)
     /\ backup' = IF backup = None THEN resolv ELSE backup
     /\ UNCHANGED <<resolv, tmp, installation, services>>

\* cp /etc/resolv.conf /etc/resolv.conf.backup
BackUp ==
  \/ Answer(Command("backup"), ok)
  \/ /\ Ran(Command("backup"), ok)
     /\ backup' = resolv
     /\ UNCHANGED <<resolv, tmp, installation, services>>

\* cp /etc/resolv.conf.backup /etc/resolv.conf
Restore ==
  \/ Answer(Command("restore"), ok)
  \/ /\ Ran(Command("restore"), ok)
     /\ resolv' = backup
     /\ UNCHANGED <<backup, tmp, installation, services>>

\* cp of the temporary file over resolv.conf; it is removed whether the copy was
\* made, failed, or was answered from the table.
CopyTmp ==
  LET c == Command("copy") IN
  /\ tmp' = None
  /\ \/ Known(memo, c) /\ UNCHANGED <<memo, resolv>>
     \/ tmp # None /\ Ran(c, ok) /\ resolv' = tmp
     \/ Ran(c, error) /\ UNCHANGED resolv
  /\ UNCHANGED <<backup, installation, services>>

\* What resolv.conf may be once systemd-resolved has started: its own, if it is a link to it.
Settled == {resolv, resolved} \ {None}

RestartResolved ==
  \/ Answer(Command("restart resolved"), ok)
  \/ /\ Ran(Command("restart resolved"), ok)
     /\ resolv' \in Settled
     /\ UNCHANGED <<backup, tmp, installation, services>>

-----------------------------------------------------------------------------
(***************************************************************************)
(* The handlers.                                                           *)
(***************************************************************************)
\* No request is served and the executor remembers nothing.
Quiet ==
  /\ \A h \in Handlers : pc[h] = "idle"
  /\ \A c \in Commands : ~Known(memo, c)

Begins(h) ==
  /\ pc[h] = "idle"
  /\ Spaced => Quiet

Goto(h, label) == pc' = [pc EXCEPT ![h] = label]

\* installBlocky returns at once when it finds the binary or the unit.  The download, and
\* its copy to a directory of its own, may fail and leave nothing.
installBlocky(h) ==
  /\ Begins(h)
  /\ blocky = {}
  /\ Goto(h, "extract")
  /\ UNCHANGED <<world, memo, proxy, history>>

\* tar, cp and chmod in one command, which may fail after the cp.
ExtractBlocky(h) ==
  /\ pc[h] = "extract"
  /\ \/ blocky' = blocky \cup {"binary"} /\ (Goto(h, "writeUnit") \/ Goto(h, "idle"))
     \/ UNCHANGED blocky /\ Goto(h, "idle")
  /\ UNCHANGED <<files, configured, resolved, services, memo, proxy, history>>

WriteUnit(h) ==
  /\ pc[h] = "writeUnit"
  /\ \/ blocky' = blocky \cup {"unit"} /\ Goto(h, "bootBlocky")
     \/ UNCHANGED blocky /\ Goto(h, "idle")
  /\ UNCHANGED <<files, configured, resolved, services, memo, proxy, history>>

\* "Que Blocky arranque con el sistema"
BootBlocky(h) ==
  /\ pc[h] = "bootBlocky"
  /\ SetBoot("enable", "blocky", boot \cup {"blocky"})
  /\ Goto(h, "idle")
  /\ UNCHANGED <<proxy, history>>

Installed(p) == p = "blocky" => blocky # {}

\* configureDNSCrypt, configureBlocky: the file is written, the proxy not restarted.
configureProxy(h, p) ==
  /\ Begins(h)
  /\ Installed(p)
  /\ configured' = configured \cup {p}
  /\ UNCHANGED <<files, blocky, resolved, services, memo, pc, proxy, history>>

\* Mutant of FirstStep: port 53 is not freed.
FirstStepOfBoth == [dnscrypt |-> "start", blocky |-> "start"]

FirstStep == [dnscrypt |-> "start", blocky |-> "freePort"]

\* enableDNSCrypt, enableBlocky
enableProxy(h, p) ==
  /\ Begins(h)
  /\ Alternating => inUse = None
  /\ Installed(p)
  /\ proxy' = [proxy EXCEPT ![h] = p]
  /\ original' = resolv
  /\ Goto(h, IF p \in configured THEN FirstStep[p] ELSE "configure")
  /\ UNCHANGED <<world, memo, inUse>>

\* A proxy without one gets a default configuration, or is not enabled.
ConfigureByDefault(h) ==
  /\ pc[h] = "configure"
  /\ \/ configured' = configured \cup {proxy[h]} /\ Goto(h, FirstStep[proxy[h]])
     \/ UNCHANGED configured /\ Goto(h, "failed")
  /\ UNCHANGED <<files, blocky, resolved, services, memo, proxy, history>>

\* "Liberar puerto 53: detener dnsmasq si está"
FreePort(h) ==
  /\ pc[h] = "freePort"
  /\ Stop("dnsmasq")
  /\ Goto(h, "start")
  /\ UNCHANGED <<proxy, history>>

StartProxy(h) ==
  /\ pc[h] = "start"
  /\ \/ Start(proxy[h], ok) /\ Goto(h, "enable")
     \/ Start(proxy[h], error) /\ Goto(h, "failed")
  /\ UNCHANGED <<proxy, history>>

\* Mutant of EnableProxyAtBoot: resolv.conf is not backed up.
EnableWithoutBackup(h) ==
  /\ pc[h] = "enable"
  /\ SetBoot("enable", proxy[h], boot \cup {proxy[h]})
  /\ Goto(h, "write")
  /\ UNCHANGED <<proxy, history>>

EnableProxyAtBoot(h) ==
  /\ pc[h] = "enable"
  /\ SetBoot("enable", proxy[h], boot \cup {proxy[h]})
  /\ Goto(h, "backup")
  /\ UNCHANGED <<proxy, history>>

BackUpResolv(h) ==
  /\ pc[h] = "backup"
  /\ BackUp
  /\ Goto(h, "write")
  /\ UNCHANGED <<proxy, history>>

\* DNSCrypt writes resolv.conf, Blocky a temporary file it then copies.  A write that
\* fails is logged or not, and changes no answer.
Write(h, content, copy, done) ==
  \/ /\ proxy[h] = "dnscrypt"
     /\ resolv' = content
     /\ Goto(h, done)
     /\ UNCHANGED tmp
  \/ /\ proxy[h] = "blocky"
     /\ tmp' = content
     /\ Goto(h, copy)
     /\ UNCHANGED resolv
  \/ /\ Goto(h, done)
     /\ UNCHANGED <<resolv, tmp>>

WriteLocal(h) ==
  /\ pc[h] = "write"
  /\ Write(h, Local, "copy", "redirected")
  /\ UNCHANGED <<backup, installation, services, memo, proxy, history>>

CopyLocal(h) ==
  /\ pc[h] = "copy"
  /\ CopyTmp
  /\ Goto(h, "redirected")
  /\ UNCHANGED <<proxy, history>>

disableProxy(h, p) ==
  /\ Begins(h)
  /\ Alternating => inUse \in {p, None}
  /\ proxy' = [proxy EXCEPT ![h] = p]
  /\ Goto(h, "stop")
  /\ UNCHANGED <<world, memo, history>>

StopProxy(h) ==
  /\ pc[h] = "stop"
  /\ Stop(proxy[h])
  /\ Goto(h, "disable")
  /\ UNCHANGED <<proxy, history>>

DisableProxyAtBoot(h) ==
  /\ pc[h] = "disable"
  /\ SetBoot("disable", proxy[h], boot \ {proxy[h]})
  /\ Goto(h, "restore")
  /\ UNCHANGED <<proxy, history>>

\* Mutant of RestoreResolv: the backup is not looked for.
RestoreAlways(h) ==
  /\ pc[h] = "restore"
  /\ Restore
  /\ Goto(h, "restored")
  /\ UNCHANGED <<proxy, history>>

\* With a backup, copy it back (and keep it); without one, use public servers.
RestoreResolv(h) ==
  /\ pc[h] = "restore"
  /\ \/ /\ backup # None
        /\ Restore
        /\ Goto(h, "restored")
     \/ /\ backup = None
        /\ Write(h, Public, "copyPublic", "restored")
        /\ UNCHANGED <<backup, installation, services, memo>>
  /\ UNCHANGED <<proxy, history>>

CopyPublic(h) ==
  /\ pc[h] = "copyPublic"
  /\ CopyTmp
  /\ Goto(h, "restored")
  /\ UNCHANGED <<proxy, history>>

\* "Reiniciar systemd-resolved si existe", the last step of all four.
Settle(h) ==
  /\ \/ pc[h] = "redirected" /\ Goto(h, "enabled")
     \/ pc[h] = "restored" /\ Goto(h, "disabled")
  /\ RestartResolved
  /\ UNCHANGED <<proxy, history>>

\* enableAdBlock starts dnsmasq, or Pi-hole if it cannot.
enableAdBlock(h) ==
  /\ Begins(h)
  /\ Goto(h, "startDnsmasq")
  /\ UNCHANGED <<world, memo, proxy, history>>

StartDnsmasq(h) ==
  /\ pc[h] = "startDnsmasq"
  /\ \/ Start("dnsmasq", ok) /\ Goto(h, "idle")
     \/ Start("dnsmasq", error) /\ Goto(h, "startPihole")
  /\ UNCHANGED <<proxy, history>>

StartPihole(h) ==
  /\ pc[h] = "startPihole"
  /\ \E result \in {ok, error} : Start("pihole", result)
  /\ Goto(h, "idle")
  /\ UNCHANGED <<proxy, history>>

\* disableAdBlock stops dnsmasq and Blocky, and leaves resolv.conf as it is.
disableAdBlock(h) ==
  /\ Begins(h)
  /\ Goto(h, "stopDnsmasq")
  /\ UNCHANGED <<world, memo, proxy, history>>

StopDnsmasq(h) ==
  /\ pc[h] = "stopDnsmasq"
  /\ Stop("dnsmasq")
  /\ Goto(h, "stopBlocky")
  /\ UNCHANGED <<proxy, history>>

StopBlocky(h) ==
  /\ pc[h] = "stopBlocky"
  /\ Stop("blocky")
  /\ Goto(h, "idle")
  /\ UNCHANGED <<proxy, history>>

\* systemctl reload dnsmasq, or restart it, or nothing: one that was stopped may be
\* started, one that had the port may let go of it.
adblockUpdate(h) ==
  LET c == Command("reload dnsmasq") IN
  /\ Begins(h)
  /\ \/ Answer(c, ok)
     \/ /\ Ran(c, ok)
        /\ \/ /\ active' = active \cup {"dnsmasq"}
              /\ server' \in {server, Released("dnsmasq")}
           \/ /\ "dnsmasq" \notin active
              /\ "dnsmasq" \in Fallible \/ server # None
              /\ UNCHANGED <<active, server>>
        /\ UNCHANGED <<boot, files, installation>>
  /\ UNCHANGED <<pc, proxy, history>>

\* networkConfigHandler, where neither NetworkManager nor systemd-resolved takes
\* the DNS setting: back up, then write.
networkConfig(h) ==
  /\ Begins(h)
  /\ Alternating => inUse = None
  /\ Goto(h, "backupSetting")
  /\ UNCHANGED <<world, memo, proxy, history>>

BackUpSetting(h) ==
  /\ pc[h] = "backupSetting"
  /\ BackUp
  /\ Goto(h, "writeSetting")
  /\ UNCHANGED <<proxy, history>>

\* Where systemd-resolved runs, this way is taken only if a write like this one failed.
WriteSetting(h) ==
  /\ pc[h] = "writeSetting"
  /\ \/ resolved = None /\ resolv' \in Networks
     \/ UNCHANGED resolv
  /\ Goto(h, "idle")
  /\ UNCHANGED <<backup, tmp, installation, services, memo, proxy, history>>

\* The handler returns what it says to the panel.
Respond(h) ==
  /\ pc[h] \in {"enabled", "disabled", "failed"}
  /\ inUse' = CASE pc[h] = "enabled" -> proxy[h]
                [] pc[h] = "disabled" -> None
                [] OTHER -> inUse
  /\ Goto(h, "idle")
  /\ proxy' = [proxy EXCEPT ![h] = None]
  /\ UNCHANGED <<world, memo, original>>

Tick ==
  /\ \E c \in Commands : Known(memo, c)
  /\ memo' = Aged(memo)
  /\ UNCHANGED <<world, pc, proxy, history>>

\* A started service gets port 53, if no other has it.
Bind(s) ==
  /\ s \in active
  /\ server = None
  /\ server' = s
  /\ UNCHANGED <<files, installation, active, boot, memo, pc, proxy, history>>

\* A started service ends, for want of the port or by itself; systemd starts Blocky again
\* ("Restart=on-failure").
Fails(s) ==
  /\ s \in active
  /\ s \in Fallible \/ server \notin {s, None}
  /\ active' = IF s = "blocky" THEN active ELSE active \ {s}
  /\ server' = Released(s)
  /\ UNCHANGED <<files, installation, boot, memo, pc, proxy, history>>

\* The machine restarts, anywhere in a request unless requests alternate: the
\* enabled services are started, in no order.
Reboot ==
  /\ Alternating => \A h \in Handlers : pc[h] = "idle"
  /\ active' = {s \in boot : CanStart(s)}
  /\ server' = None
  /\ resolv' \in Settled
  /\ tmp' = None
  /\ memo' = NothingRemembered(Commands)
  /\ pc' = [h \in Handlers |-> "idle"]
  /\ proxy' = [h \in Handlers |-> None]
  /\ UNCHANGED <<backup, installation, boot, history>>

Handler(h) ==
  \/ installBlocky(h)
  \/ ExtractBlocky(h)
  \/ WriteUnit(h)
  \/ BootBlocky(h)
  \/ \E p \in Proxies : configureProxy(h, p) \/ enableProxy(h, p)
  \/ ConfigureByDefault(h)
  \/ FreePort(h)
  \/ StartProxy(h)
  \/ EnableProxyAtBoot(h)
  \/ BackUpResolv(h)
  \/ WriteLocal(h)
  \/ CopyLocal(h)
  \/ \E p \in Proxies : disableProxy(h, p)
  \/ StopProxy(h)
  \/ DisableProxyAtBoot(h)
  \/ RestoreResolv(h)
  \/ CopyPublic(h)
  \/ Settle(h)
  \/ enableAdBlock(h)
  \/ StartDnsmasq(h)
  \/ StartPihole(h)
  \/ disableAdBlock(h)
  \/ StopDnsmasq(h)
  \/ StopBlocky(h)
  \/ adblockUpdate(h)
  \/ networkConfig(h)
  \/ BackUpSetting(h)
  \/ WriteSetting(h)
  \/ Respond(h)

Next ==
  \/ \E h \in Handlers : Handler(h)
  \/ \E s \in Services : Bind(s) \/ Fails(s)
  \/ Tick
  \/ Reboot

Spec == Init /\ [][Next]_vars

-----------------------------------------------------------------------------
Becomes(h, label) == pc[h] # label /\ pc'[h] = label

\* When the panel says that a proxy is enabled, it has a configuration and starts with the
\* machine; Blocky is there in full, systemd keeps it up, and dnsmasq neither has port 53
\* nor is there to take it, whatever earlier requests left started or half installed.
\* resolv.conf is the proxy's or, if it could not be written or is systemd-resolved's, as
\* before (adblock_handlers.go:387-439, 942-984).
EnabledServes ==
  [][\A h \in Handlers : Becomes(h, "enabled") =>
       /\ proxy[h] \in boot' \cap configured'
       /\ proxy[h] = "blocky" =>
            /\ blocky' = Whole
            /\ "blocky" \in active'
            /\ "dnsmasq" \notin active' \cup {server'}
       /\ resolv' \in {Local, original, resolved}]_vars

\* Disabling the proxy in use gives back the resolv.conf its enabling found, or leaves
\* that of systemd-resolved, though the one backup has served the other proxy, the DNS
\* setting and earlier rounds in between, and is never deleted (adblock_handlers.go:403-406,
\* 455-470, 960-962, 998-1009).  Needs requests that alternate.
RestoresOriginal ==
  [][\A h \in Handlers : (Becomes(h, "disabled") /\ inUse = proxy[h]) =>
       resolv' \in {original, resolved}]_vars

\* While the machine resolves names through itself there is a backup, and it is not
\* of the proxy's own 127.0.0.1: the way back is never lost, at any step of a
\* request.  Needs requests that alternate.
WayBack == resolv = Local => backup \notin {None, Local}

\* "Liberar puerto 53: detener dnsmasq si está (Blocky es el único DNS que usamos)"
\* (adblock_handlers.go:942): while Blocky is in use and no request is served, dnsmasq does
\* not have port 53.  The code stops dnsmasq and does not disable it.
BlockyAlone ==
  (inUse = "blocky" /\ \A h \in Handlers : pc[h] = "idle") => server # "dnsmasq"
=============================================================================
