---------------------------- MODULE WifiConnect ----------------------------
(***************************************************************************)
(* The Wi-Fi client of the panel, wifi_handlers.go: users' requests to     *)
(* connect and to switch the radio, and the goroutine that reconnects when *)
(* the panel starts.  All of them work on one wpa_supplicant, the          *)
(* configurations it is started with, and the radio, with no lock; the     *)
(* commands that kill the supplicant and switch the radio go through the   *)
(* executor of utils.go, which does not run one it remembers, and never    *)
(* runs rm.                                                                *)
(*                                                                         *)
(* Left out: the socket directory, which is the same for everyone as the   *)
(* panel is root; systemd's and NetworkManager's own supplicants, which    *)
(* are stopped; DHCP, which changes nothing that is modelled.              *)
(***************************************************************************)
EXTENDS Memo

CONSTANTS
  Users,         (* goroutines that serve requests                         *)
  System,        (* the goroutine that reconnects                          *)
  Networks,      (* networks in range                                      *)
  None,          (* no supplicant, no file, no network                     *)
  PingAttempts,  (* tries to reach the supplicant (10, and 5 to reconnect) *)
  PollAttempts,  (* tries to find it connected (20; 5 and 8 to reconnect)  *)
  AuthLimit,     (* refusals of the key after which a request gives up (3) *)
  Fallible       (* what may fail                                          *)

ASSUME WifiAssumption ==
  /\ System \notin Users
  /\ {PingAttempts, PollAttempts, AuthLimit} \subseteq Nat \ {0}
  /\ Fallible \subseteq {"interface", "file", "start", "crash"}

VARIABLES
  files,      (* the key in wpa_supplicant-<network>.conf                  *)
  newest,     (* the network whose file was written last                   *)
  supplicant, (* the wpa_supplicant that runs                              *)
  radio,      (* is the radio on?                                          *)
  memo,       (* what the executor remembers                               *)
  pc,         (* the next step of each goroutine                           *)
  local,      (* its locals                                                *)
  disturbed,  (* history: since the panel started, goroutines overlapped   *)
  fresh       (* history: a reconnect that nothing has interfered with     *)

saved == <<files, newest>>
world == <<saved, supplicant, radio>>
history == <<disturbed, fresh>>
vars == <<world, memo, pc, local, history>>

Handlers == Users \cup {System}

\* A key is the one the network wants, another, or none, for an open network.
Keys == {"right", "wrong", "none"}
Configs == [net : Networks, key : Keys]

\* own: the network of the file it was started with; current: the network it was
\* told to select; completed: wpa_state=COMPLETED.
Supplicants == [own : Configs, current : Configs, completed : BOOLEAN]
Supplicant(config) == [own |-> config, current |-> config, completed |-> FALSE]

ASSUME NoneAssumption == None \notin Networks \cup Keys \cup Supplicants

Commands == {"on", "off", "kill", "kill9"}
Done == "done"

\* byFile: the goroutine uses the file that is there.
Counts == 0..(PingAttempts + PollAttempts + AuthLimit)
Locals == [net : Networks \cup {None}, key : Keys, byFile : BOOLEAN,
           tries : Counts, refusals : Counts]
NoLocals == [net |-> None, key |-> "none", byFile |-> FALSE, tries |-> 0, refusals |-> 0]

Labels ==
  {"idle", "prepare", "kill", "await", "kill9", "write", "start", "started", "ping",
   "list", "add", "poll", "address", "connected", "failed",
   "off", "boot", "probe", "quick", "choose",
   "toggleOn", "toggleOff", "switchOn", "switchOff"}

TypeOK ==
  /\ files \in [Networks -> Keys \cup {None}]
  /\ newest \in Networks \cup {None}
  /\ supplicant \in Supplicants \cup {None}
  /\ radio \in BOOLEAN
  /\ memo \in Tables(Commands, {Done})
  /\ pc \in [Handlers -> Labels]
  /\ local \in [Handlers -> Locals]
  /\ disturbed \in BOOLEAN
  /\ fresh \in BOOLEAN

\* The first start of the panel, perhaps with a supplicant of the system's own.
Init ==
  /\ files = [n \in Networks |-> None]
  /\ newest = None
  /\ supplicant \in {None} \cup {Supplicant([net |-> n, key |-> "right"]) : n \in Networks}
  /\ radio \in BOOLEAN
  /\ memo = NothingRemembered(Commands)
  /\ pc = [h \in Handlers |-> IF h = System THEN "boot" ELSE "idle"]
  /\ local = [h \in Handlers |-> NoLocals]
  /\ disturbed = FALSE
  /\ fresh = FALSE

-----------------------------------------------------------------------------
Runs == supplicant # None
Connected == Runs /\ supplicant.completed

Goto(h, label) == pc' = [pc EXCEPT ![h] = label]
Ends(h) == Goto(h, "idle") /\ local' = [local EXCEPT ![h] = NoLocals]

Quiet(h) == pc[h] \in {"idle", "off", "boot"}

\* Goroutine h begins to act: if another one does too, they disturb each other.
Begins(h) == disturbed' = (disturbed \/ \E o \in Handlers \ {h} : ~Quiet(o))

\* A request of a user interferes with a reconnect.
UserBegins(u) ==
  /\ pc[System] # "off"
  /\ pc[u] = "idle"
  /\ Begins(u)
  /\ fresh' = FALSE

\* The executor: a command it remembers is answered, any other is run.
Executes(c, effect, nothing) ==
  \/ Known(memo, c) /\ nothing /\ UNCHANGED memo
  \/ ~Known(memo, c) /\ effect /\ memo' = [memo EXCEPT ![c] = Remembered(Done)]

Offline(s) == IF s = None THEN None ELSE [s EXCEPT !.completed = FALSE]

\* rfkill.  A supplicant that starts brings the interface itself up.
SwitchedOn == radio' = TRUE /\ UNCHANGED supplicant
SwitchedOff == radio' = FALSE /\ supplicant' = Offline(supplicant)
NotSwitched == UNCHANGED <<radio, supplicant>>

-----------------------------------------------------------------------------
(***************************************************************************)
(* connectWiFi, and the steps the reconnect shares with it.                *)
(***************************************************************************)
\* The locals of a call of connectWiFi.
Connect(net, key) == [NoLocals EXCEPT !.net = net, !.key = key]

connectWiFi(u, net, key) ==
  /\ UserBegins(u)
  /\ Goto(u, "prepare")
  /\ local' = [local EXCEPT ![u] = Connect(net, key)]
  /\ UNCHANGED <<world, memo>>

\* The radio is switched on, and the interface taken down and up: a supplicant that
\* runs loses its network, unless the executor remembers the command.
Prepare(h) ==
  /\ pc[h] = "prepare"
  /\ Executes("on", radio' = TRUE, UNCHANGED radio)
  /\ supplicant' \in {supplicant, Offline(supplicant)}
  /\ Goto(h, "kill")
  /\ UNCHANGED <<saved, local, history>>

\* stopWpaSupplicant sends SIGTERM, which the supplicant may be slow to obey, ...
stopWpaSupplicant(h) ==
  /\ pc[h] = "kill"
  /\ Executes("kill", supplicant' \in {None, supplicant}, UNCHANGED supplicant)
  /\ Goto(h, "await")
  /\ UNCHANGED <<saved, radio, local, history>>

AfterStop(h) == IF local[h].byFile THEN "start" ELSE "write"

\* ... waits for it to end ...
AwaitStop(h) ==
  /\ pc[h] = "await"
  /\ Goto(h, IF Runs THEN "kill9" ELSE AfterStop(h))
  /\ UNCHANGED <<world, memo, local, history>>

\* ... or sends SIGKILL, and does not look again.
ForceKill(h) ==
  /\ pc[h] = "kill9"
  /\ Executes("kill9", supplicant' = None, UNCHANGED supplicant)
  /\ Goto(h, AfterStop(h))
  /\ UNCHANGED <<saved, radio, local, history>>

\* The file is replaced, or the request ends: no PSK could be made, or no place be
\* found to write to.
WriteConfig(h) ==
  /\ pc[h] = "write"
  /\ \/ /\ files' = [files EXCEPT ![local[h].net] = local[h].key]
        /\ newest' = local[h].net
        /\ Goto(h, "start")
     \/ /\ "file" \in Fallible
        /\ Goto(h, "failed")
        /\ UNCHANGED saved
  /\ UNCHANGED <<supplicant, radio, memo, local, history>>

\* A request whose supplicant does not start fails.  A reconnect falls back on
\* connectWiFi, with the network's name and no password.
StartFailed(h) ==
  /\ IF local[h].byFile
     THEN /\ Goto(h, "prepare")
          /\ local' = [local EXCEPT ![h] = Connect(local[h].net, "none")]
     ELSE Goto(h, "failed") /\ UNCHANGED local
  /\ fresh' = FALSE
  /\ UNCHANGED <<supplicant, disturbed>>

\* Mutant of startWpaSupplicant: a supplicant that runs already is as good.
startWpaSupplicantAnyway(h) ==
  /\ pc[h] = "start"
  /\ supplicant' =
       IF Runs THEN supplicant
       ELSE Supplicant([net |-> local[h].net, key |-> files[local[h].net]])
  /\ Goto(h, "started")
  /\ UNCHANGED <<saved, radio, memo, local, history>>

\* A second supplicant of the interface refuses to start while one runs: its socket
\* is in use, and stays in use, as the executor does not run rm.
startWpaSupplicant(h) ==
  /\ pc[h] = "start"
  /\ \/ /\ ~Runs
        /\ supplicant' =
             Supplicant([net |-> local[h].net, key |-> files[local[h].net]])
        /\ Goto(h, "started")
        /\ UNCHANGED <<local, history>>
     \/ (Runs \/ "start" \in Fallible) /\ StartFailed(h)
  /\ UNCHANGED <<saved, radio, memo>>

\* Two seconds later it must still run.
Started(h) ==
  /\ pc[h] = "started"
  /\ \/ /\ Runs
        /\ Goto(h, "ping")
        /\ UNCHANGED <<supplicant, local, history>>
     \/ ~Runs /\ StartFailed(h)
  /\ UNCHANGED <<saved, radio, memo>>

\* The end of a loop, and one more try at it or its end.
Leaves(h, label) ==
  /\ Goto(h, label)
  /\ local' = [local EXCEPT ![h].tries = 0, ![h].refusals = 0]
\* Mutant of Retry: the attempts are not bounded.
RetryForever(h, attempts, ended) == local' = [local EXCEPT ![h].tries = @ + 1] /\ UNCHANGED pc

Retry(h, attempts, ended) ==
  IF local[h].tries + 1 < attempts
  THEN local' = [local EXCEPT ![h].tries = @ + 1] /\ UNCHANGED pc
  ELSE ended

waitForWpaCliConnection(h) ==
  /\ pc[h] = "ping"
  /\ \/ /\ Runs
        /\ Goto(h, "list")
        /\ local' = [local EXCEPT ![h].tries = 0]
     \/ /\ ~Runs
        /\ Retry(h, PingAttempts,
                 IF local[h].byFile THEN Ends(h) ELSE Leaves(h, "failed"))
  /\ UNCHANGED <<world, memo, history>>

\* select_network: a supplicant that changes its network starts over.
Selected(s, config) ==
  IF s.current = config THEN s
  ELSE [s EXCEPT !.current = config, !.completed = FALSE]

\* The first network of the supplicant is selected; connectWiFi adds one if the
\* supplicant lists none, which it does only when it cannot be reached.
SelectFirst(h) ==
  /\ pc[h] = "list"
  /\ \/ /\ Runs
        /\ supplicant' = Selected(supplicant, supplicant.own)
        /\ Goto(h, "poll")
     \/ /\ ~Runs
        /\ Goto(h, IF local[h].byFile THEN "poll" ELSE "add")
        /\ UNCHANGED supplicant
  /\ UNCHANGED <<saved, radio, memo, local, history>>

AddNetwork(h) ==
  /\ pc[h] = "add"
  /\ \/ /\ Runs
        /\ supplicant' =
             Selected(supplicant, [net |-> local[h].net, key |-> local[h].key])
        /\ Goto(h, "poll")
     \/ ~Runs /\ Goto(h, "failed") /\ UNCHANGED supplicant
  /\ UNCHANGED <<saved, radio, memo, local, history>>

\* A status that speaks of a wrong key counts against connectWiFi.
Refuses(s) == s # None /\ s.current.key # "right"

\* Mutant of PollStatus: an authentication failure is not an attempt.
PollUntilRefused(h) ==
  /\ pc[h] = "poll"
  /\ \/ Connected /\ Leaves(h, "address")
     \/ /\ ~Connected
        /\ IF Refuses(supplicant)
           THEN UNCHANGED <<pc, local>>
           ELSE Retry(h, PollAttempts, Leaves(h, "failed"))
  /\ UNCHANGED <<world, memo, history>>

\* The loop that waits for the connection.  It may disconnect and reconnect the
\* supplicant meanwhile, which is as if the network went and came.
PollStatus(h) ==
  /\ pc[h] = "poll"
  /\ \/ Connected /\ Leaves(h, "address")
     \/ /\ ~Connected
        /\ Retry(h, PollAttempts,
                 Leaves(h, IF local[h].byFile THEN "address" ELSE "failed"))
     \/ /\ Refuses(supplicant)
        /\ ~local[h].byFile
        /\ IF local[h].refusals + 1 < AuthLimit
           THEN /\ local[h].tries + 1 < PollAttempts
                /\ local' = [local EXCEPT ![h].tries = @ + 1, ![h].refusals = @ + 1]
                /\ UNCHANGED pc
           ELSE Leaves(h, "failed")
  /\ UNCHANGED <<world, memo, history>>

\* DHCP: connectWiFi answers success with or without an address.
AwaitAddress(h) ==
  /\ pc[h] = "address"
  /\ IF local[h].byFile THEN Ends(h) ELSE Goto(h, "connected") /\ UNCHANGED local
  /\ UNCHANGED <<world, memo, history>>

Respond(h) ==
  /\ pc[h] \in {"connected", "failed"}
  /\ Ends(h)
  /\ UNCHANGED <<world, memo, history>>

-----------------------------------------------------------------------------
(***************************************************************************)
(* autoConnectToLastNetwork, the goroutine of the panel's start.           *)
(***************************************************************************)
\* Five seconds after the start, the interface is looked for and switched on.
autoConnect ==
  /\ pc[System] = "boot"
  /\ \/ /\ Executes("on", SwitchedOn, NotSwitched)
        /\ Begins(System)
        /\ Goto(System, "probe")
        /\ UNCHANGED fresh
     \/ /\ "interface" \in Fallible
        /\ Goto(System, "idle")
        /\ fresh' = FALSE
        /\ UNCHANGED <<radio, supplicant, memo, disturbed>>
  /\ UNCHANGED <<saved, local>>

\* A supplicant that runs is reconnected, unless it is connected.
Probe ==
  /\ pc[System] = "probe"
  /\ \/ Connected /\ Goto(System, "idle") /\ UNCHANGED supplicant
     \/ /\ Runs /\ ~Connected
        /\ \E config \in {supplicant.own, supplicant.current} :
             supplicant' = Selected(supplicant, config)
        /\ Goto(System, "quick")
     \/ ~Runs /\ Goto(System, "choose") /\ UNCHANGED supplicant
  /\ UNCHANGED <<saved, radio, memo, local, history>>

QuickPoll ==
  /\ pc[System] = "quick"
  /\ \/ Connected /\ Ends(System)
     \/ /\ ~Connected
        /\ Retry(System, PollAttempts, Leaves(System, "choose"))
  /\ UNCHANGED <<world, memo, history>>

\* getLastConnectedNetwork: one the supplicant lists, or that of the newest file.
getLastConnectedNetwork ==
  IF Runs THEN {supplicant.own.net, supplicant.current.net} ELSE {newest} \ {None}

\* Mutant of Choose: the file that is there is not used.
ChooseToConnect ==
  /\ pc[System] = "choose"
  /\ \/ \E net \in getLastConnectedNetwork :
          /\ local' = [local EXCEPT ![System] = Connect(net, "none")]
          /\ Goto(System, "prepare")
     \/ getLastConnectedNetwork = {} /\ Ends(System)
  /\ UNCHANGED <<world, memo, history>>

\* With a file of that network the supplicant is started anew; without one,
\* connectWiFi is called with no password.
Choose ==
  /\ pc[System] = "choose"
  /\ \/ \E net \in getLastConnectedNetwork :
          IF files[net] # None
          THEN /\ local' = [local EXCEPT ![System] =
                              [NoLocals EXCEPT !.net = net, !.byFile = TRUE]]
               /\ Goto(System, "kill")
          ELSE /\ local' = [local EXCEPT ![System] = Connect(net, "none")]
               /\ Goto(System, "prepare")
     \/ getLastConnectedNetwork = {} /\ Ends(System)
  /\ UNCHANGED <<world, memo, history>>

-----------------------------------------------------------------------------
(***************************************************************************)
(* The radio's switches: read, then act on what was read.                  *)
(***************************************************************************)
Switch(u, on, off) ==
  /\ UserBegins(u)
  /\ Goto(u, IF radio THEN off ELSE on)
  /\ UNCHANGED <<world, memo, local>>

wifiToggle(u) == Switch(u, "toggleOn", "toggleOff")
wifiSoftwareSwitch(u) == Switch(u, "switchOn", "switchOff")

\* toggleWiFi, through the executor.
toggleWiFi(u) ==
  /\ \/ pc[u] = "toggleOn" /\ Executes("on", SwitchedOn, NotSwitched)
     \/ pc[u] = "toggleOff" /\ Executes("off", SwitchedOff, NotSwitched)
  /\ Goto(u, "idle")
  /\ UNCHANGED <<saved, local, history>>

\* rfkill, directly.
SoftwareSwitch(u) ==
  /\ \/ pc[u] = "switchOn" /\ SwitchedOn
     \/ pc[u] = "switchOff" /\ SwitchedOff
  /\ Goto(u, "idle")
  /\ UNCHANGED <<saved, memo, local, history>>

wifiUnblock(u) ==
  /\ UserBegins(u)
  /\ SwitchedOn
  /\ UNCHANGED <<saved, memo, pc, local>>

-----------------------------------------------------------------------------
(***************************************************************************)
(* The environment.                                                        *)
(***************************************************************************)
\* The supplicant connects if its key is right ...
Associate ==
  /\ Runs /\ ~Connected
  /\ radio
  /\ supplicant.current.key = "right"
  /\ supplicant' = [supplicant EXCEPT !.completed = TRUE]
  /\ UNCHANGED <<saved, radio, memo, pc, local, history>>

\* ... and may lose the network, or end.
Drop ==
  /\ Connected
  /\ supplicant' = Offline(supplicant)
  /\ UNCHANGED <<saved, radio, memo, pc, local, history>>

Crash ==
  /\ "crash" \in Fallible
  /\ Runs
  /\ supplicant' = None
  /\ fresh' = FALSE
  /\ UNCHANGED <<saved, radio, memo, pc, local, disturbed>>

Tick ==
  /\ \E c \in Commands : Known(memo, c)
  /\ memo' = Aged(memo)
  /\ UNCHANGED <<world, pc, local, history>>

\* The panel stops, anywhere in a request ...
Stop ==
  /\ pc[System] # "off"
  /\ pc' = [h \in Handlers |-> IF h = System THEN "off" ELSE "idle"]
  /\ local' = [h \in Handlers |-> NoLocals]
  /\ memo' = NothingRemembered(Commands)
  /\ disturbed' = FALSE
  /\ fresh' = FALSE
  /\ UNCHANGED world

\* ... and is started; the supplicant ends if the machine was, and may otherwise.
Start ==
  /\ pc[System] = "off"
  /\ Goto(System, "boot")
  /\ supplicant' \in {None, supplicant}
  /\ fresh' = (supplicant' = None /\ newest # None /\ files[newest] = "right")
  /\ UNCHANGED <<saved, radio, memo, local, disturbed>>

Shared(h) ==
  \/ Prepare(h)
  \/ stopWpaSupplicant(h)
  \/ AwaitStop(h)
  \/ ForceKill(h)
  \/ WriteConfig(h)
  \/ startWpaSupplicant(h)
  \/ Started(h)
  \/ waitForWpaCliConnection(h)
  \/ SelectFirst(h)
  \/ AddNetwork(h)
  \/ PollStatus(h)
  \/ AwaitAddress(h)
  \/ Respond(h)

Reconnect == autoConnect \/ Probe \/ QuickPoll \/ Choose

Request(u) ==
  \/ \E net \in Networks, key \in Keys : connectWiFi(u, net, key)
  \/ wifiToggle(u)
  \/ wifiSoftwareSwitch(u)
  \/ wifiUnblock(u)

\* The steps of a goroutine that has begun.
Step(h) ==
  \/ Shared(h)
  \/ h = System /\ Reconnect
  \/ h \in Users /\ (toggleWiFi(h) \/ SoftwareSwitch(h))

Next ==
  \/ \E u \in Users : Request(u)
  \/ \E h \in Handlers : Step(h)
  \/ Associate
  \/ Drop
  \/ Crash
  \/ Tick
  \/ Stop
  \/ Start

\* A goroutine that can take a step takes it; a network in range is found.
Fairness ==
  /\ \A h \in Handlers : WF_vars(Step(h))
  /\ WF_vars(Associate)

Spec == Init /\ [][Next]_vars /\ Fairness

-----------------------------------------------------------------------------
Becomes(h, label) == pc[h] # label /\ pc'[h] = label

\* While nothing overlaps, a request that finds the supplicant connected has found
\* its own network and key, and not the supplicant of an earlier request that the
\* memo kept from being killed (wifi_handlers.go:103-127, 860-906).
ReportsItsNetwork ==
  [][\A h \in Users : (Becomes(h, "address") /\ ~disturbed) =>
       supplicant.current = [net |-> local[h].net, key |-> local[h].key]]_vars

\* Every request is answered and every reconnect ends, whatever others do to the
\* supplicant meanwhile, refuse to start, or never connect: each loop counts its
\* attempts (wifi_handlers.go:284, 874, 1310, 1496).
RequestsEnd ==
  \A h \in Handlers : pc[h] \notin {"idle", "off"} ~> pc[h] \in {"idle", "off"}

\* After a start of the panel with no supplicant, the network of the newest file is
\* connected again, if its key is right and nothing interferes or fails: the file is
\* used as it is, and the supplicant goes on when the goroutine has given up waiting
\* (wifi_handlers.go:1450-1515).
Reconnects == fresh ~> (Connected \/ ~fresh)

\* "La contraseña ya está en el archivo de configuración, solo necesitamos el SSID"
\* (wifi_handlers.go:1193): reconnecting takes the password from the file, so it
\* leaves a saved one where it is.
ReconnectKeepsKey ==
  [][(pc[System] = "write" /\ pc'[System] = "start") =>
       files[local[System].net] \in {None, files'[local[System].net]}]_vars
=============================================================================
