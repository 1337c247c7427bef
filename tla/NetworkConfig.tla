--------------------------- MODULE NetworkConfig ---------------------------
(***************************************************************************)
(* networkConfigHandler of api_compat.go: one request may set the name of  *)
(* the machine, its name servers and its default gateway, in this order.   *)
(* Each part has several ways to its end and goes from one that fails to   *)
(* the next; the answer lists the parts that were applied and those that   *)
(* were not.  Commands go through the executor of utils.go, which may      *)
(* answer from its memo, but for those that are Direct.                    *)
(*                                                                         *)
(* A request is a step for each write, command and verification.  What the *)
(* machine has decides which ways there are: NetworkManager with an active *)
(* connection, systemd-resolved, and always the files and ip.              *)
(***************************************************************************)
EXTENDS Memo, FiniteSets

CONSTANTS
  Handlers,      (* goroutines that serve the requests                     *)
  Names,         (* host names that pass the check                         *)
  Installed,     (* the name the machine has at first                      *)
  Servers,       (* name servers                                           *)
  Gateways,      (* gateways                                               *)
  Nothing,       (* a field left empty, no route                           *)
  Topics,        (* the groups of fields that share state, see topics      *)
  Overlapping,   (* bound: the topics whose requests overlap               *)
  MaxRemembered  (* bound: a request begins when the executor remembers at
                    most so many commands                                  *)

ASSUME NetworkAssumption ==
  /\ Installed \in Names
  /\ Nothing \notin Names \cup Servers \cup Gateways
  /\ Overlapping \subseteq Topics
  /\ MaxRemembered \in Nat

VARIABLES
  topics,  (* what the requests of a behaviour are about                   *)
  layers,  (* who can take the name servers on this machine                *)
  static,  (* /etc/hostname                                                *)
  kernel,  (* the name the kernel has                                      *)
  hosts,   (* the names on the lines of 127.0.0.1 and 0.0.0.0 in /etc/hosts *)
  saved,   (* the name servers that are written down, by layer             *)
  live,    (* the name servers in use, by layer                            *)
  profile, (* the gateway of the connection of NetworkManager              *)
  route,   (* the default route                                            *)
  memo,    (* what the executor remembers                                  *)
  pc,      (* the next step of each handler                                *)
  local    (* the locals of each handler                                   *)

machine == <<topics, layers>>
names == <<static, kernel, hosts>>
resolver == <<saved, live>>
routing == <<profile, route>>
vars == <<machine, names, resolver, routing, memo, pc, local>>

Parts == {"name", "dns", "gateway"}
Layers == {"nm", "resolved", "file"}
Machines == {{"file"}, {"nm", "file"}, {"resolved", "file"}, Layers}

\* nmcli connection up is one command for the name servers and for the gateway, and the
\* route is added by another one when there was none to take the interface from.
Command(op, value) == [op |-> op, value |-> value]
Commands ==
  [op : {"hostnamectl", "hostname"}, value : Names]
    \cup [op : {"modify dns"}, value : Servers]
    \cup [op : {"modify gateway", "add", "add dev"}, value : Gateways]
    \cup [op : {"up", "restart", "delete"}, value : {Nothing}]
Direct == Command("direct", Nothing)

\* left: the layers to try; dev: the interface of the old route is known; applied: the
\* parts that are; alone: history, the request met no other; sure: history, the parts no
\* command of which was answered from the memo, or failed and was not looked at.
Locals ==
  [name : Names \cup {Nothing}, dns : Servers \cup {Nothing},
   gateway : Gateways \cup {Nothing},
   left : SUBSET Layers, dev : BOOLEAN, applied : SUBSET Parts,
   alone : BOOLEAN, sure : SUBSET Parts]
NoLocals ==
  [name |-> Nothing, dns |-> Nothing, gateway |-> Nothing, left |-> {}, dev |-> FALSE,
   applied |-> {}, alone |-> TRUE, sure |-> Parts]

Labels ==
  {"idle", "hostnamectl", "verifyStatic", "copy", "hostname", "verifyCopy", "hostnameOnly",
   "verifyOnly", "hosts", "dns", "activate", "modify", "up", "delete", "add", "answer"}

TypeOK ==
  /\ topics \in Topics
  /\ layers \in Machines
  /\ {static, kernel} \subseteq Names /\ hosts \subseteq Names
  /\ saved \in [Layers -> Servers] /\ live \in [Layers -> Servers]
  /\ profile \in Gateways
  /\ route \in Gateways \cup {Nothing}
  /\ memo \in Tables(Commands, BOOLEAN)
  /\ pc \in [Handlers -> Labels]
  /\ local \in [Handlers -> Locals]
  /\ \A h \in Handlers :
       /\ pc[h] = "idle" => local[h] = NoLocals
       /\ pc[h] \in {"dns", "activate"} => local[h].left # {}

Init ==
  /\ topics \in Topics
  /\ layers \in IF topics \cap {"dns", "gateway"} = {} THEN {{"file"}} ELSE Machines
  /\ static = Installed /\ kernel = Installed
  /\ \E listed \in IF "domains" \in topics THEN SUBSET Names ELSE {{}} :
       hosts = {Installed} \cup listed
  /\ \E server \in Servers :
       saved = [l \in Layers |-> server] /\ live = saved
  /\ profile \in Gateways /\ route = profile
  /\ memo = NothingRemembered(Commands)
  /\ pc = [h \in Handlers |-> "idle"]
  /\ local = [h \in Handlers |-> NoLocals]

-----------------------------------------------------------------------------
(***************************************************************************)
(* The executor, and what the steps of a request have in common.           *)
(***************************************************************************)
Remembers(c, ok) == c # Direct /\ Known(memo, c) /\ ok = memo[c].result /\ UNCHANGED memo
Runs(c, ok) ==
  IF c = Direct THEN UNCHANGED memo
  ELSE ~Known(memo, c) /\ memo' = [memo EXCEPT ![c] = Remembered(ok)]

Goto(h, label, locals) ==
  /\ pc' = [pc EXCEPT ![h] = label]
  /\ local' = [local EXCEPT ![h] = locals]

Busy == {h \in Handlers : pc[h] # "idle"}

\* The parts follow one another, the empty ones left out.
ToGateway(me) ==
  IF me.gateway = Nothing THEN "answer" ELSE IF "nm" \in layers THEN "modify" ELSE "delete"
ToDns(me) == IF me.dns = Nothing THEN ToGateway(me) ELSE "dns"
ToName(me) == IF me.name = Nothing THEN ToDns(me) ELSE "hostnamectl"

Applied(me, part) == [me EXCEPT !.applied = @ \cup {part}]
Unsure(me, part) == [me EXCEPT !.sure = @ \ {part}]
Without(me, layer) == [me EXCEPT !.left = @ \ {layer}]
Through(me, dev) == [me EXCEPT !.dev = dev]
\* An error that nobody looks at makes the part unsure.
Regardless(me, part, ok) == IF ok THEN me ELSE Unsure(me, part)

-----------------------------------------------------------------------------
(***************************************************************************)
(* The name.                                                               *)
(***************************************************************************)
networkConfig(h, name, dns, gateway) ==
  LET me == [NoLocals EXCEPT !.name = name, !.dns = dns, !.gateway = gateway,
                             !.left = layers, !.alone = Busy = {}] IN
  /\ pc[h] = "idle"
  /\ topics \in Overlapping \/ Busy = {}
  /\ Cardinality({c \in Commands : Known(memo, c)}) <= MaxRemembered
  /\ <<name, dns, gateway>> # <<Nothing, Nothing, Nothing>>
  /\ name # Nothing => "name" \in topics
  /\ dns # Nothing => "dns" \in topics
  /\ gateway # Nothing => "gateway" \in topics
  /\ pc' = [pc EXCEPT ![h] = ToName(me)]
  /\ local' = [o \in Handlers |->
       IF o = h THEN me
       ELSE IF o \in Busy THEN [local[o] EXCEPT !.alone = FALSE] ELSE local[o]]
  /\ UNCHANGED <<machine, names, resolver, routing, memo>>

\* A command that names the machine by an effect, and goes one way when it succeeds and
\* another when it fails.
NameBy(h, op, effect, right, wrong) ==
  LET me == local[h]
      c == Command(op, me.name) IN
  /\ \E ok \in BOOLEAN :
       /\ Goto(h, IF ok THEN right ELSE wrong, me)
       /\ \/ Remembers(c, ok) /\ UNCHANGED <<static, kernel>>
          \/ Runs(c, ok) /\ IF ok THEN effect ELSE UNCHANGED <<static, kernel>>
  /\ UNCHANGED <<machine, hosts, resolver, routing>>

SetHostname(h) ==
  /\ pc[h] = "hostnamectl"
  /\ NameBy(h, "hostnamectl",
            static' = local[h].name /\ kernel' = local[h].name, "verifyStatic", "copy")

\* The second way: copy a file over /etc/hostname, then hostname.  A copy that was made
\* counts for nothing when the file cannot be read back.
CopyHostname(h) ==
  LET me == local[h] IN
  /\ pc[h] = "copy"
  /\ \/ static' = me.name /\ Goto(h, "hostname", me)
     \/ static' \in {static, me.name} /\ Goto(h, "hostnameOnly", me)
  /\ UNCHANGED <<machine, kernel, hosts, resolver, routing, memo>>

Hostname(h) ==
  /\ pc[h] = "hostname"
  /\ NameBy(h, "hostname", kernel' = local[h].name /\ UNCHANGED static,
            "verifyCopy", "hostnameOnly")

\* The third: hostname alone.
HostnameOnly(h) ==
  /\ pc[h] = "hostnameOnly"
  /\ NameBy(h, "hostname", kernel' = local[h].name /\ UNCHANGED static,
            "verifyOnly", ToDns(local[h]))

\* Mutant of Verified: a command that succeeded is believed.
VerifiedByResult(h) == pc[h] \in {"verifyStatic", "verifyCopy", "verifyOnly"}

\* The name read back is the one asked for: that of the file or, if hostnamectl does not
\* tell it, that of the kernel; after the second and third way that of the kernel.
Verified(h) ==
  \/ pc[h] = "verifyStatic" /\ local[h].name \in {static, kernel}
  \/ pc[h] \in {"verifyCopy", "verifyOnly"} /\ local[h].name = kernel

\* Reading it back may fail too.
Verify(h) ==
  LET me == local[h]
      next == CASE pc[h] = "verifyStatic" -> "copy"
                [] pc[h] = "verifyCopy" -> "hostnameOnly"
                [] OTHER -> ToDns(me) IN
  /\ pc[h] \in {"verifyStatic", "verifyCopy", "verifyOnly"}
  /\ \/ Verified(h) /\ Goto(h, "hosts", me)
     \/ Goto(h, next, me)
  /\ UNCHANGED <<machine, names, resolver, routing, memo>>

\* A named machine gets a new /etc/hosts with no name but its own; when none of the ways
\* to write it works the old one stays, and the name counts as applied all the same.
WriteHosts(h) ==
  LET me == local[h] IN
  /\ pc[h] = "hosts"
  /\ hosts' \in {hosts, {me.name}}
  /\ Goto(h, ToDns(me), Applied(me, "name"))
  /\ UNCHANGED <<machine, static, kernel, resolver, routing, memo>>

-----------------------------------------------------------------------------
(***************************************************************************)
(* The name servers.                                                       *)
(***************************************************************************)
Preferred(left) ==
  IF "nm" \in left THEN "nm" ELSE IF "resolved" \in left THEN "resolved" ELSE "file"

\* Written by a memoised command into the connection, directly into the other layers.
\* The file is in use as soon as it is written; the other two have to be told.
SaveDns(h) ==
  LET me == local[h]
      layer == Preferred(me.left)
      c == IF layer = "nm" THEN Command("modify dns", me.dns) ELSE Direct
      rest == Without(me, layer)
      then(ok, by) ==
        CASE ok /\ layer = "file" -> Goto(h, ToGateway(me), Applied(by, "dns"))
          [] ok /\ layer # "file" -> Goto(h, "activate", by)
          [] OTHER -> Goto(h, IF rest.left = {} THEN ToGateway(me) ELSE "dns", rest)
      written(servers) == [servers EXCEPT ![layer] = me.dns] IN
  /\ pc[h] = "dns"
  /\ \E ok \in BOOLEAN :
       \/ Remembers(c, ok) /\ then(ok, Unsure(me, "dns")) /\ UNCHANGED resolver
       \/ /\ Runs(c, ok) /\ then(ok, me)
          /\ saved' = IF ok THEN written(saved) ELSE saved
          /\ live' = IF ok /\ layer = "file" THEN written(live) ELSE live
  /\ UNCHANGED <<machine, names, routing>>

\* nmcli connection up puts the whole connection in force; the route may be gone when it
\* fails.
Up(ok) ==
  \/ ok /\ live' = [live EXCEPT !["nm"] = saved["nm"]] /\ route' = profile
  \/ ~ok /\ route' \in {route, Nothing} /\ UNCHANGED live

RestartResolved(ok) ==
  /\ live' = IF ok THEN [live EXCEPT !["resolved"] = saved["resolved"]] ELSE live
  /\ UNCHANGED route

\* The result is not looked at: written name servers count as applied.
ActivateDns(h) ==
  LET me == local[h]
      byNM == Preferred(me.left) = "nm"
      c == Command(IF byNM THEN "up" ELSE "restart", Nothing)
      done(by) == Goto(h, ToGateway(me), Applied(by, "dns")) IN
  /\ pc[h] = "activate"
  /\ \E ok \in BOOLEAN :
       \/ Remembers(c, ok) /\ done(Unsure(me, "dns")) /\ UNCHANGED <<live, route>>
       \/ /\ Runs(c, ok) /\ done(Regardless(me, "dns", ok))
          /\ IF byNM THEN Up(ok) ELSE RestartResolved(ok)
  /\ UNCHANGED <<machine, names, saved, profile>>

-----------------------------------------------------------------------------
(***************************************************************************)
(* The gateway.                                                            *)
(***************************************************************************)
Set(h, by) == Goto(h, "answer", Applied(by, "gateway"))

\* A command of the gateway, which goes on at right when it succeeds and at wrong when it
\* fails; done and failed are its effects when it is run.
GatewayBy(h, c, right, wrong, done, failed) ==
  LET me == local[h]
      succeed(by) == IF right = "answer" THEN Set(h, by) ELSE Goto(h, right, by) IN
  \E ok \in BOOLEAN :
    \/ /\ Remembers(c, ok)
       /\ IF ok THEN succeed(Unsure(me, "gateway")) ELSE Goto(h, wrong, me)
       /\ UNCHANGED <<live, routing>>
    \/ /\ Runs(c, ok)
       /\ IF ok THEN succeed(me) /\ done ELSE Goto(h, wrong, me) /\ failed

ModifyGateway(h) ==
  LET gateway == local[h].gateway IN
  /\ pc[h] = "modify"
  /\ GatewayBy(h, Command("modify gateway", gateway), "up", "delete",
               profile' = gateway /\ UNCHANGED <<live, route>>, UNCHANGED <<live, routing>>)
  /\ UNCHANGED <<machine, names, saved>>

\* Here the result of up counts.
UpGateway(h) ==
  /\ pc[h] = "up"
  /\ GatewayBy(h, Command("up", Nothing), "answer", "delete",
               Up(TRUE) /\ UNCHANGED profile, Up(FALSE) /\ UNCHANGED profile)
  /\ UNCHANGED <<machine, names, saved>>

\* The second way: delete the default route, whose interface is read before, and add the
\* new one.  The deletion always succeeds.
DeleteDefault(h) ==
  LET c == Command("delete", Nothing)
      me == Through(local[h], route # Nothing) IN
  /\ pc[h] = "delete"
  /\ \/ Remembers(c, TRUE) /\ Goto(h, "add", Unsure(me, "gateway")) /\ UNCHANGED route
     \/ Runs(c, TRUE) /\ Goto(h, "add", me) /\ route' = Nothing
  /\ UNCHANGED <<machine, names, resolver, profile>>

\* ip refuses a second default route, and one through a gateway it cannot reach.  The
\* third way, route, is not on the executor's list and is always refused.
AddDefault(h) ==
  LET me == local[h]
      added == route = Nothing /\ route' = me.gateway /\ UNCHANGED <<live, profile>> IN
  /\ pc[h] = "add"
  /\ GatewayBy(h, Command(IF me.dev THEN "add dev" ELSE "add", me.gateway),
               "answer", "answer", added, UNCHANGED <<live, routing>>)
  /\ UNCHANGED <<machine, names, saved>>

\* Mutant of Answer: what was applied stays for the next request.
AnswerAndKeep(h) ==
  /\ pc[h] = "answer"
  /\ Goto(h, "idle", [NoLocals EXCEPT !.applied = local[h].applied])
  /\ UNCHANGED <<machine, names, resolver, routing, memo>>

Answer(h) ==
  /\ pc[h] = "answer"
  /\ Goto(h, "idle", NoLocals)
  /\ UNCHANGED <<machine, names, resolver, routing, memo>>

-----------------------------------------------------------------------------
(***************************************************************************)
(* Time, the panel's restart, the machine's.                               *)
(***************************************************************************)
Tick ==
  /\ memo # NothingRemembered(Commands)
  /\ memo' = Aged(memo)
  /\ UNCHANGED <<machine, names, resolver, routing, pc, local>>

Cut ==
  /\ memo' = NothingRemembered(Commands)
  /\ pc' = [h \in Handlers |-> "idle"]
  /\ local' = [h \in Handlers |-> NoLocals]

RestartPanel == Cut /\ UNCHANGED <<machine, names, resolver, routing>>

\* The route is NetworkManager's, or one that the network gives.
Reboot ==
  /\ Cut
  /\ kernel' = static
  /\ live' = saved
  /\ IF "nm" \in layers THEN route' = profile ELSE route' \in Gateways
  /\ UNCHANGED <<machine, static, hosts, saved, profile>>

Request(h) ==
  \E name \in Names \cup {Nothing}, dns \in Servers \cup {Nothing},
     gateway \in Gateways \cup {Nothing} : networkConfig(h, name, dns, gateway)

Handler(h) ==
  \/ Request(h)
  \/ SetHostname(h) \/ CopyHostname(h) \/ Hostname(h) \/ HostnameOnly(h)
  \/ Verify(h) \/ WriteHosts(h)
  \/ SaveDns(h) \/ ActivateDns(h)
  \/ ModifyGateway(h) \/ UpGateway(h) \/ DeleteDefault(h) \/ AddDefault(h)
  \/ Answer(h)

Next ==
  \/ \E h \in Handlers : Handler(h)
  \/ Tick \/ RestartPanel \/ Reboot

Spec == Init /\ [][Next]_vars

-----------------------------------------------------------------------------
(***************************************************************************)
(* Properties: what an answer is worth when it is given, to a request that *)
(* met no other.                                                           *)
(***************************************************************************)
Answers(h, part) ==
  pc[h] = "answer" /\ local[h].alone /\ part \in local[h].applied

\* A machine said to be named is, in its file or in its kernel: whatever the memo answered,
\* whichever ways failed and whatever names were asked for before, since the name is read
\* back (networkConfigHandler, api_compat.go:275-385).
NameHolds ==
  \A h \in Handlers : Answers(h, "name") => local[h].name \in {static, kernel}

\* Name servers said to be set are written down in the layer that took them, and in use;
\* a gateway said to be set is the default route.  Each holds when the commands of its part
\* were run and those nobody looks at succeeded, whatever the other parts did, whether
\* they were applied or not, and however often a way failed before (api_compat.go:568-735).
SettingsHold ==
  \A h \in Handlers :
    /\ Answers(h, "dns") /\ "dns" \in local[h].sure =>
         LET layer == Preferred(local[h].left) IN
         saved[layer] = local[h].dns /\ live[layer] = local[h].dns
    /\ Answers(h, "gateway") /\ "gateway" \in local[h].sure => route = local[h].gateway

\* What the panel answers about the network is so: of the name always, of the other parts
\* as far as their commands were run.
AnswersHold == NameHolds /\ SettingsHold
=============================================================================
