----------------------------- MODULE TorRouting -----------------------------
(***************************************************************************)
(* The Tor part of the panel, tor_handlers.go: the tor service, its torrc, *)
(* the NAT rules that redirect the clients of the access point to it, and  *)
(* the saved rules the machine boots with.  Every systemctl and iptables   *)
(* command goes through the executor of utils.go, which answers from its   *)
(* memo table while it remembers the command, and does not run it then.    *)
(*                                                                         *)
(* A handler is one step per command.  The clock ticks, the access point's *)
(* interface changes and the machine reboots between any two of them.      *)
(***************************************************************************)
EXTENDS Memo, FiniteSets

CONSTANTS
  Handlers,     (* goroutines that serve the Tor requests                  *)
  Ifaces,       (* interfaces hostapd.conf may name                        *)
  Ports,        (* values of TransPort and DNSPort, which go together      *)
  DefaultPort,  (* the ports of a torrc that does not set them             *)
  Off,          (* the port of a tor that is not running, or of no torrc   *)
  Fallible,     (* commands that may fail for a reason of their own        *)
  Spaced,       (* operations start only when the executor remembers none  *)
  MaxCopies     (* bound on the copies of a rule                           *)

ASSUME TorAssumption ==
  /\ DefaultPort \in Ports
  /\ Off \notin Ports
  /\ Fallible \subseteq {"write", "start", "add"}
  /\ Spaced \in BOOLEAN
  /\ MaxCopies \in Nat \ {0}

VARIABLES
  iface,    (* the interface of /etc/hostapd/hostapd.conf                  *)
  torrc,    (* the ports of /etc/tor/torrc                                 *)
  tor,      (* the ports the running tor listens on                        *)
  boot,     (* is tor started at boot?                                     *)
  rules,    (* PREROUTING: the copies of each rule                         *)
  saved,    (* /etc/iptables/rules.v4                                      *)
  memo,     (* what the executor remembers                                 *)
  pc,       (* the next step of each handler                               *)
  local     (* the locals of each handler                                  *)

service == <<torrc, tor, boot>>
world == <<iface, service, rules, saved>>
vars == <<world, memo, pc, local>>

\* What a rule matches and where it redirects to.
Targets == [iface : Ifaces, port : Ports]
Rules == [proto : {"udp", "tcp"}, to : Targets]
Rule(proto, target) == [proto |-> proto, to |-> target]

\* The shell commands.  The rollback's deletion ends in 2>/dev/null, the others
\* in 2>&1, so it is another key of the memo table.
Systemctl == {"start", "stop", "enable", "disable"}
Commands ==
  [op : {"add", "delete", "rollback"}, rule : Rules]
    \cup [op : Systemctl \cup {"save"}, rule : {Off}]
Command(op) == [op |-> op, rule |-> Off]
RuleCommand(op, proto, target) == [op |-> op, rule |-> Rule(proto, target)]

ok == "ok"
error == "error"

Locals == [add : Targets \cup {Off}, drop : Targets \cup {Off}, tries : 0..5]
NoLocals == [add |-> Off, drop |-> Off, tries |-> 0]

Labels ==
  {"idle", "start", "enable", "stop", "disable", "drop", "deleteDNS", "deleteTCP",
   "saveDropped", "addDNS", "addTCP", "rollback", "saveAdded",
   "enabled", "disabled", "failed"}

TypeOK ==
  /\ iface \in Ifaces
  /\ torrc \in Ports \cup {Off}
  /\ tor \in Ports \cup {Off}
  /\ boot \in BOOLEAN
  /\ rules \in [Rules -> 0..MaxCopies]
  /\ saved \in [Rules -> 0..MaxCopies]
  /\ memo \in Tables(Commands, {ok, error})
  /\ pc \in [Handlers -> Labels]
  /\ local \in [Handlers -> Locals]

Init ==
  /\ iface \in Ifaces
  /\ torrc = Off
  /\ tor = Off
  /\ boot = FALSE
  /\ rules = [r \in Rules |-> 0]
  /\ saved = [r \in Rules |-> 0]
  /\ memo = NothingRemembered(Commands)
  /\ pc = [h \in Handlers |-> "idle"]
  /\ local = [h \in Handlers |-> NoLocals]

-----------------------------------------------------------------------------
(***************************************************************************)
(* The executor: a command it remembers is answered from the table and the *)
(* world stays as it is; any other is run.                                 *)
(***************************************************************************)
Answer(c, result) ==
  /\ Known(memo, c)
  /\ memo[c].result = result
  /\ UNCHANGED <<memo, world>>

Ran(c, result) ==
  /\ ~Known(memo, c)
  /\ memo' = [memo EXCEPT ![c] = Remembered(result)]

Delete(c, result) ==
  \/ Answer(c, result)
  \/ /\ Ran(c, result)
     /\ result = IF rules[c.rule] > 0 THEN ok ELSE error
     /\ rules' = [rules EXCEPT ![c.rule] = IF @ > 0 THEN @ - 1 ELSE 0]
     /\ UNCHANGED <<iface, service, saved>>

Add(c, result) ==
  \/ Answer(c, result)
  \/ /\ Ran(c, result)
     /\ \/ /\ result = ok
           /\ rules[c.rule] < MaxCopies
           /\ rules' = [rules EXCEPT ![c.rule] = @ + 1]
        \/ /\ result = error
           /\ "add" \in Fallible
           /\ UNCHANGED rules
     /\ UNCHANGED <<iface, service, saved>>

Save ==
  \/ Answer(Command("save"), ok)
  \/ /\ Ran(Command("save"), ok)
     /\ saved' = rules
     /\ UNCHANGED <<iface, service, rules>>

\* systemctl start of a running service succeeds and does nothing.
StartTor(result) ==
  \/ Answer(Command("start"), result)
  \/ /\ Ran(Command("start"), result)
     /\ \/ /\ result = ok
           /\ tor' = IF tor = Off THEN torrc ELSE tor
        \/ /\ result = error
           /\ "start" \in Fallible
           /\ tor = Off
           /\ UNCHANGED tor
     /\ UNCHANGED <<iface, torrc, boot, rules, saved>>

StopTor ==
  \/ Answer(Command("stop"), ok)
  \/ /\ Ran(Command("stop"), ok)
     /\ tor' = Off
     /\ UNCHANGED <<iface, torrc, boot, rules, saved>>

SetBoot(op, value) ==
  \/ Answer(Command(op), ok)
  \/ /\ Ran(Command(op), ok)
     /\ boot' = value
     /\ UNCHANGED <<iface, torrc, tor, rules, saved>>

-----------------------------------------------------------------------------
(***************************************************************************)
(* The handlers.                                                           *)
(***************************************************************************)
\* No request is served and the executor remembers nothing.
Quiet ==
  /\ \A h \in Handlers : pc[h] = "idle"
  /\ \A c \in Commands : ~Known(memo, c)

Begins(h) ==
  /\ pc[h] = "idle"
  /\ Spaced => Quiet

Goto(h, label) == pc' = [pc EXCEPT ![h] = label]

\* The write of torrc, which may fail.
WriteTorrc(port) ==
  \/ torrc' = port
  \/ "write" \in Fallible /\ UNCHANGED torrc

\* configureTor writes torrc and leaves a running tor alone.
configureTor(h, port) ==
  /\ Begins(h)
  /\ WriteTorrc(port)
  /\ UNCHANGED <<iface, tor, boot, rules, saved, memo, pc, local>>

\* enableTor configures with the defaults if there is no torrc, and gives up if it
\* cannot; then it starts tor and enables it.
enableTor(h) ==
  /\ Begins(h)
  /\ IF torrc = Off THEN WriteTorrc(DefaultPort) ELSE UNCHANGED torrc
  /\ Goto(h, IF torrc' = Off THEN "failed" ELSE "start")
  /\ UNCHANGED <<iface, tor, boot, rules, saved, memo, local>>

StartStep(h) ==
  /\ pc[h] = "start"
  /\ \/ StartTor(ok) /\ Goto(h, "enable")
     \/ StartTor(error) /\ Goto(h, "failed")
  /\ UNCHANGED local

EnableStep(h) ==
  /\ pc[h] = "enable"
  /\ SetBoot("enable", TRUE)
  /\ Goto(h, "idle")
  /\ UNCHANGED local

\* disableTor: stop and disable; the NAT rules stay.
disableTor(h) ==
  /\ Begins(h)
  /\ Goto(h, "stop")
  /\ UNCHANGED <<world, memo, local>>

StopStep(h) ==
  /\ pc[h] = "stop"
  /\ StopTor
  /\ Goto(h, "disable")
  /\ UNCHANGED local

DisableStep(h) ==
  /\ pc[h] = "disable"
  /\ SetBoot("disable", FALSE)
  /\ Goto(h, "idle")
  /\ UNCHANGED local

\* The interface and ports a handler reads now.
CurrentTarget == [iface |-> iface, port |-> IF torrc = Off THEN DefaultPort ELSE torrc]

\* Mutant of enableTorIptables: the previous rules are not removed.
enableTorIptablesAgain(h) ==
  /\ Begins(h)
  /\ tor # Off
  /\ local' = [local EXCEPT ![h].add = CurrentTarget]
  /\ Goto(h, "addDNS")
  /\ UNCHANGED <<world, memo>>

\* enableTorIptables refuses unless tor is active; it removes the previous rules
\* with disableTorIptables before it adds its own.
enableTorIptables(h) ==
  /\ Begins(h)
  /\ tor # Off
  /\ local' = [local EXCEPT ![h].add = CurrentTarget]
  /\ Goto(h, "drop")
  /\ UNCHANGED <<world, memo>>

disableTorIptables(h) ==
  /\ Begins(h)
  /\ Goto(h, "drop")
  /\ UNCHANGED <<world, memo, local>>

\* disableTorIptables reads the interface and the ports of its own accord ...
ReadDropped(h) ==
  /\ pc[h] = "drop"
  /\ local' = [local EXCEPT ![h].drop = CurrentTarget]
  /\ Goto(h, "deleteDNS")
  /\ UNCHANGED <<world, memo>>

\* Mutant of DeleteStep: the deletions are not limited to five.
DeleteForever(h, label, proto, next) ==
  /\ pc[h] = label
  /\ \E result \in {ok, error} :
       /\ Delete(RuleCommand("delete", proto, local[h].drop), result)
       /\ local' = [local EXCEPT ![h].tries = IF result = ok THEN @ + 1 ELSE 0]
       /\ Goto(h, IF result = ok THEN label ELSE next)

\* ... and deletes each of the two rules up to five times, until it fails.
DeleteStep(h, label, proto, next) ==
  /\ pc[h] = label
  /\ \E result \in {ok, error} :
       LET again == result = ok /\ local[h].tries < 4 IN
       /\ Delete(RuleCommand("delete", proto, local[h].drop), result)
       /\ local' = [local EXCEPT ![h].tries = IF again THEN @ + 1 ELSE 0]
       /\ Goto(h, IF again THEN label ELSE next)

DeleteDNS(h) == DeleteStep(h, "deleteDNS", "udp", "deleteTCP")
\* Mutant of DeleteTCP: the second loop deletes the first rule again.
DeleteDNSAgain(h) == DeleteStep(h, "deleteTCP", "udp", "saveDropped")

DeleteTCP(h) == DeleteStep(h, "deleteTCP", "tcp", "saveDropped")

SaveDropped(h) ==
  /\ pc[h] = "saveDropped"
  /\ Save
  /\ Goto(h, IF local[h].add = Off THEN "disabled" ELSE "addDNS")
  /\ UNCHANGED local

AddDNS(h) ==
  /\ pc[h] = "addDNS"
  /\ \/ Add(RuleCommand("add", "udp", local[h].add), ok) /\ Goto(h, "addTCP")
     \/ Add(RuleCommand("add", "udp", local[h].add), error) /\ Goto(h, "failed")
  /\ UNCHANGED local

\* Mutant of AddTCP: a failure to add the TCP rule is ignored.
AddTCPRegardless(h) ==
  /\ pc[h] = "addTCP"
  /\ \E result \in {ok, error} : Add(RuleCommand("add", "tcp", local[h].add), result)
  /\ Goto(h, "saveAdded")
  /\ UNCHANGED local

\* Mutant of AddTCP: a failure leaves the DNS rule behind.
AddTCPWithoutRollback(h) ==
  /\ pc[h] = "addTCP"
  /\ \/ Add(RuleCommand("add", "tcp", local[h].add), ok) /\ Goto(h, "saveAdded")
     \/ Add(RuleCommand("add", "tcp", local[h].add), error) /\ Goto(h, "failed")
  /\ UNCHANGED local

AddTCP(h) ==
  /\ pc[h] = "addTCP"
  /\ \/ Add(RuleCommand("add", "tcp", local[h].add), ok) /\ Goto(h, "saveAdded")
     \/ Add(RuleCommand("add", "tcp", local[h].add), error) /\ Goto(h, "rollback")
  /\ UNCHANGED local

Rollback(h) ==
  /\ pc[h] = "rollback"
  /\ \E result \in {ok, error} : Delete(RuleCommand("rollback", "udp", local[h].add), result)
  /\ Goto(h, "failed")
  /\ UNCHANGED local

SaveAdded(h) ==
  /\ pc[h] = "saveAdded"
  /\ Save
  /\ Goto(h, "enabled")
  /\ UNCHANGED local

\* The handler returns what it says to the panel.
Respond(h) ==
  /\ pc[h] \in {"enabled", "disabled", "failed"}
  /\ Goto(h, "idle")
  /\ local' = [local EXCEPT ![h] = NoLocals]
  /\ UNCHANGED <<world, memo>>

-----------------------------------------------------------------------------
(***************************************************************************)
(* The environment.                                                        *)
(***************************************************************************)
Tick ==
  /\ \E c \in Commands : Known(memo, c)
  /\ memo' = Aged(memo)
  /\ UNCHANGED <<world, pc, local>>

\* The access point is configured on another interface: another request of the
\* panel, apart from those modelled here when requests are apart.
SetInterface(i) ==
  /\ Spaced => Quiet
  /\ iface' = i
  /\ UNCHANGED <<service, rules, saved, memo, pc, local>>

\* The panel starts with an empty memo table and no request.
PanelStarts ==
  /\ memo' = NothingRemembered(Commands)
  /\ pc' = [h \in Handlers |-> "idle"]
  /\ local' = [h \in Handlers |-> NoLocals]

\* The panel stops anywhere in a request and is started again by systemd.
Restart ==
  /\ PanelStarts
  /\ UNCHANGED world

\* The kernel's rules are those saved, and tor runs if it is enabled.
Reboot ==
  /\ PanelStarts
  /\ rules' = saved
  /\ tor' = IF boot THEN torrc ELSE Off
  /\ UNCHANGED <<iface, torrc, boot, saved>>

Handler(h) ==
  \/ \E port \in Ports : configureTor(h, port)
  \/ enableTor(h)
  \/ StartStep(h)
  \/ EnableStep(h)
  \/ disableTor(h)
  \/ StopStep(h)
  \/ DisableStep(h)
  \/ enableTorIptables(h)
  \/ disableTorIptables(h)
  \/ ReadDropped(h)
  \/ DeleteDNS(h)
  \/ DeleteTCP(h)
  \/ SaveDropped(h)
  \/ AddDNS(h)
  \/ AddTCP(h)
  \/ Rollback(h)
  \/ SaveAdded(h)
  \/ Respond(h)

Next ==
  \/ \E h \in Handlers : Handler(h)
  \/ \E i \in Ifaces : SetInterface(i)
  \/ Tick
  \/ Restart
  \/ Reboot

Spec == Init /\ [][Next]_vars

-----------------------------------------------------------------------------
Becomes(h, label) == pc[h] # label /\ pc'[h] = label

\* When the panel says that the clients' traffic goes to Tor, their DNS and their
\* TCP connections are each redirected, exactly once (tor_handlers.go:494-519).
\* Needs operations further apart than the executor's memory.
EnableRedirects ==
  [][\A h \in Handlers : Becomes(h, "enabled") =>
       \A proto \in {"udp", "tcp"} : rules'[Rule(proto, local[h].add)] = 1]_vars

\* When the panel says that the redirection is off, no rule for the interface and
\* ports it read is left (tor_handlers.go:545-563).
DisableClears ==
  [][\A h \in Handlers : Becomes(h, "disabled") =>
       \A proto \in {"udp", "tcp"} : rules'[Rule(proto, local[h].drop)] = 0]_vars

\* Whatever an operation on the rules answers, it leaves DNS and TCP of its target
\* redirected together or not at all, so clients do not resolve through Tor and
\* connect around it: a failed addition is rolled back, and an operation that a
\* restart cut between its two rules is made good by the next (tor_handlers.go:
\* 491-510).
OutcomesPaired ==
  [][\A h \in Handlers : \A label \in {"enabled", "disabled", "failed"} :
       (Becomes(h, label) /\ local[h].drop # Off) =>
         rules'[Rule("udp", local[h].drop)] = rules'[Rule("tcp", local[h].drop)]]_vars

\* "Quitar reglas previas para evitar duplicados" (tor_handlers.go:491): however
\* often the redirection is enabled, a rule is in the table at most once.
NoDuplicates == \A r \in Rules : rules[r] <= 1

\* "Persistir reglas si netfilter-persistent está disponible"
\* (tor_handlers.go:512): an enabled redirection is saved with the rules that were
\* just added.
EnabledIsSaved ==
  [][\A h \in Handlers : Becomes(h, "enabled") =>
       \A proto \in {"udp", "tcp"} : saved'[Rule(proto, local[h].add)] >= 1]_vars
=============================================================================
