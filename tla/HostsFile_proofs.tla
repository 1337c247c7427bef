-------------------------- MODULE HostsFile_proofs --------------------------
(***************************************************************************)
(* Theorems of NetworkConfig and HostsFile.  The network page: its types,  *)
(* and that what it answers is so, for any number of requests, any names,  *)
(* servers, gateways and machines, and however much is remembered of       *)
(* earlier requests.  Both pages: the AdBlock pages do not disturb what    *)
(* the network page answers, and what a toggle of theirs answered sticks,  *)
(* for any number of toggles, any lists and domains.                       *)
(***************************************************************************)
EXTENDS HostsFile, TLAPS

-----------------------------------------------------------------------------
(***************************************************************************)
(* The inductive invariant.                                                *)
(***************************************************************************)
NameLabels ==
  {"hostnamectl", "verifyStatic", "copy", "hostname", "verifyCopy", "hostnameOnly",
   "verifyOnly", "hosts"}

\* A request that met no other is the only one.
Alone(h) ==
  pc[h] # "idle" /\ local[h].alone => \A g \in Handlers \ {h} : pc[g] = "idle"

\* What a handler at this step, with these locals, knows of the machine: named are the
\* names it has, written and used its name servers, given its connection's gateway and
\* default its route.
Knows(label, me, named, written, used, given, default) ==
  /\ label = "idle" => me = NoLocals
  /\ label \in NameLabels => me.name # Nothing /\ me.left # {} /\ me.applied = {}
  /\ label \in {"dns", "activate"} =>
       me.dns # Nothing /\ me.left # {} /\ "dns" \notin me.applied
  /\ label \in {"modify", "up", "delete", "add"} => me.gateway # Nothing
  /\ label = "activate" => Preferred(me.left) # "file"
  /\ "gateway" \in me.applied => label = "answer"
  /\ me.alone =>
       /\ label = "hosts" \/ "name" \in me.applied => me.name \in named
       /\ "dns" \in me.sure =>
            /\ label = "activate" \/ "dns" \in me.applied
                 => written[Preferred(me.left)] = me.dns
            /\ "dns" \in me.applied => used[Preferred(me.left)] = me.dns
       /\ "gateway" \in me.sure =>
            /\ label = "up" => given = me.gateway
            /\ "gateway" \in me.applied => default = me.gateway

WorldOK ==
  /\ topics \in Topics
  /\ layers \in Machines
  /\ {static, kernel} \subseteq Names /\ hosts \subseteq Names
  /\ saved \in [Layers -> Servers] /\ live \in [Layers -> Servers]
  /\ profile \in Gateways
  /\ route \in Gateways \cup {Nothing}
  /\ memo \in Tables(Commands, BOOLEAN)

IInv ==
  /\ WorldOK
  /\ pc \in [Handlers -> Labels]
  /\ local \in [Handlers -> Locals]
  /\ \A h \in Handlers :
       /\ Alone(h)
       /\ Knows(pc[h], local[h], {static, kernel}, saved, live, profile, route)

-----------------------------------------------------------------------------
(***************************************************************************)
(* Lemmas about the locals and the memo.                                   *)
(***************************************************************************)
LEMMA NoLocalsTyped ==
  /\ NoLocals \in Locals
  /\ NoLocals.applied = {} /\ NoLocals.left = {}
BY DEF NoLocals, Locals, Layers, Parts

LEMMA Fields ==
  ASSUME NEW me \in Locals, NEW part \in Parts
  PROVE  /\ Applied(me, part) \in Locals
         /\ Applied(me, part).name = me.name /\ Applied(me, part).dns = me.dns
         /\ Applied(me, part).gateway = me.gateway /\ Applied(me, part).left = me.left
         /\ Applied(me, part).alone = me.alone /\ Applied(me, part).sure = me.sure
         /\ Applied(me, part).applied = me.applied \cup {part}
         /\ Unsure(me, part) \in Locals
         /\ Unsure(me, part).name = me.name /\ Unsure(me, part).dns = me.dns
         /\ Unsure(me, part).gateway = me.gateway /\ Unsure(me, part).left = me.left
         /\ Unsure(me, part).alone = me.alone /\ Unsure(me, part).applied = me.applied
         /\ Unsure(me, part).sure = me.sure \ {part}
BY DEF Applied, Unsure, Locals

LEMMA WithoutLayer ==
  ASSUME NEW me \in Locals, NEW layer
  PROVE  /\ Without(me, layer) \in Locals
         /\ Without(me, layer).left = me.left \ {layer}
         /\ Without(me, layer).name = me.name /\ Without(me, layer).dns = me.dns
         /\ Without(me, layer).gateway = me.gateway
         /\ Without(me, layer).applied = me.applied
         /\ Without(me, layer).alone = me.alone
BY DEF Without, Locals

LEMMA ThroughDevice ==
  ASSUME NEW me \in Locals, NEW dev \in BOOLEAN
  PROVE  /\ Through(me, dev) \in Locals
         /\ Through(me, dev).name = me.name /\ Through(me, dev).dns = me.dns
         /\ Through(me, dev).gateway = me.gateway /\ Through(me, dev).left = me.left
         /\ Through(me, dev).applied = me.applied /\ Through(me, dev).sure = me.sure
         /\ Through(me, dev).alone = me.alone
BY DEF Through, Locals

LEMMA UnsureOrNot ==
  ASSUME NEW me \in Locals, NEW by \in {me, Unsure(me, "gateway")}
  PROVE  /\ by \in Locals /\ by.left = me.left /\ by.applied = me.applied
         /\ by.dns = me.dns /\ by.name = me.name /\ by.gateway = me.gateway
         /\ by.alone = me.alone
         /\ "dns" \in by.sure <=> "dns" \in me.sure
<1>1. CASE by = me
  BY <1>1
<1>2. CASE by = Unsure(me, "gateway")
  BY <1>2, Fields DEF Parts
<1> QED BY <1>1, <1>2

LEMMA CommandTyped ==
  /\ \A name \in Names :
       Command("hostnamectl", name) \in Commands /\ Command("hostname", name) \in Commands
  /\ \A server \in Servers : Command("modify dns", server) \in Commands
  /\ \A gateway \in Gateways :
       /\ Command("modify gateway", gateway) \in Commands
       /\ Command("add", gateway) \in Commands /\ Command("add dev", gateway) \in Commands
  /\ \A op \in {"up", "restart", "delete"} : Command(op, Nothing) \in Commands
BY DEF Command, Commands

LEMMA RunsTyped ==
  ASSUME memo \in Tables(Commands, BOOLEAN), NEW c \in Commands \cup {Direct},
         NEW ok \in BOOLEAN, Runs(c, ok)
  PROVE  memo' \in Tables(Commands, BOOLEAN)
<1>1. Remembered(ok) \in [result : BOOLEAN, left : 1..TTL]
  BY MemoAssumption DEF Remembered
<1>2. CASE c = Direct
  BY <1>2 DEF Runs
<1>3. CASE c # Direct
  BY <1>1, <1>3 DEF Runs, Tables
<1> QED BY <1>2, <1>3

LEMMA AgedTyped ==
  ASSUME memo \in Tables(Commands, BOOLEAN)
  PROVE  Aged(memo) \in Tables(Commands, BOOLEAN)
<1> SUFFICES ASSUME NEW c \in Commands
             PROVE  Older(memo[c]) \in {Forgotten} \cup [result : BOOLEAN, left : 1..TTL]
  BY DEF Aged, Tables
<1>1. CASE memo[c] = Forgotten
  BY <1>1 DEF Older, Forgotten
<1>2. CASE memo[c] \in [result : BOOLEAN, left : 1..TTL]
  BY <1>2, MemoAssumption DEF Older
<1> QED BY <1>1, <1>2 DEF Tables

LEMMA NothingTyped == NothingRemembered(Commands) \in Tables(Commands, BOOLEAN)
BY DEF NothingRemembered, Tables

-----------------------------------------------------------------------------
(***************************************************************************)
(* A step of a handler keeps the invariant if what it knows of the machine *)
(* after it is so.                                                         *)
(***************************************************************************)
LEMMA IdleKnows ==
  ASSUME NEW named, NEW written, NEW used, NEW given, NEW default
  PROVE  Knows("idle", NoLocals, named, written, used, given, default)
BY NoLocalsTyped DEF Knows, NameLabels

\* What a handler may rely on.
LEMMA Own ==
  ASSUME IInv, NEW h \in Handlers
  PROVE  /\ local[h] \in Locals
         /\ Knows(pc[h], local[h], {static, kernel}, saved, live, profile, route)
BY DEF IInv

LEMMA HandlerStep ==
  ASSUME IInv, NEW h \in Handlers, pc[h] # "idle",
         NEW label \in Labels, NEW me \in Locals, Goto(h, label, me),
         label # "idle" => me.alone = local[h].alone,
         WorldOK',
         Knows(label, me, {static', kernel'}, saved', live', profile', route')
  PROVE  IInv'
<1>1. pc' \in [Handlers -> Labels] /\ local' \in [Handlers -> Locals]
  BY DEF IInv, Goto
<1>2. /\ pc'[h] = label /\ local'[h] = me
      /\ \A g \in Handlers \ {h} : pc'[g] = pc[g] /\ local'[g] = local[g]
  BY DEF IInv, Goto
<1>3. ASSUME NEW g \in Handlers
      PROVE  Alone(g)'
  <2>1. CASE g = h
    BY <1>2, <2>1 DEF IInv, Alone
  <2>2. CASE g # h
    BY <1>2, <2>2 DEF IInv, Alone
  <2> QED BY <2>1, <2>2
<1>4. ASSUME NEW g \in Handlers, g # h
      PROVE  Knows(pc[g], local[g], {static', kernel'}, saved', live', profile', route')
  <2>1. CASE pc[g] = "idle"
    <3>1. local[g] = NoLocals
      BY <2>1 DEF IInv, Knows
    <3> QED BY <2>1, <3>1, IdleKnows
  <2>2. CASE pc[g] # "idle"
    <3>1. ~local[g].alone
      BY <1>4, <2>2 DEF IInv, Alone
    <3> QED BY <3>1 DEF IInv, Knows
  <2> QED BY <2>1, <2>2
<1>5. ASSUME NEW g \in Handlers
      PROVE  Knows(pc[g], local[g], {static, kernel}, saved, live, profile, route)'
  BY <1>2, <1>4
<1> QED BY <1>1, <1>3, <1>5 DEF IInv

\* Where a handler goes on, and what it has to know for it.
LEMMA ToGatewayKnows ==
  ASSUME NEW me \in Locals, "gateway" \notin me.applied,
         NEW named, NEW written, NEW used, NEW given, NEW default,
         me.alone /\ "name" \in me.applied => me.name \in named,
         me.alone /\ "dns" \in me.applied \cap me.sure =>
           written[Preferred(me.left)] = me.dns /\ used[Preferred(me.left)] = me.dns
  PROVE  /\ ToGateway(me) \in {"answer", "modify", "delete"}
         /\ Knows(ToGateway(me), me, named, written, used, given, default)
BY DEF ToGateway, Knows, NameLabels

LEMMA ToDnsKnows ==
  ASSUME NEW me \in Locals, me.left # {}, me.applied \subseteq {"name"},
         NEW named, NEW written, NEW used, NEW given, NEW default,
         me.alone /\ "name" \in me.applied => me.name \in named
  PROVE  /\ ToDns(me) \in {"answer", "modify", "delete", "dns"}
         /\ Knows(ToDns(me), me, named, written, used, given, default)
<1>1. CASE me.dns = Nothing
  BY <1>1, ToGatewayKnows DEF ToDns
<1>2. CASE me.dns # Nothing
  BY <1>2 DEF ToDns, Knows, NameLabels
<1> QED BY <1>1, <1>2

LEMMA ToNameKnows ==
  ASSUME NEW me \in Locals, me.left # {}, me.applied = {},
         NEW named, NEW written, NEW used, NEW given, NEW default
  PROVE  /\ ToName(me) \in {"answer", "modify", "delete", "dns", "hostnamectl"}
         /\ Knows(ToName(me), me, named, written, used, given, default)
<1>1. CASE me.name = Nothing
  BY <1>1, ToDnsKnows DEF ToName
<1>2. CASE me.name # Nothing
  BY <1>2 DEF ToName, Knows, NameLabels
<1> QED BY <1>1, <1>2

-----------------------------------------------------------------------------
(***************************************************************************)
(* The name.                                                               *)
(***************************************************************************)
LEMMA networkConfigStep ==
  ASSUME IInv, NEW h \in Handlers, Request(h)
  PROVE  IInv'
<1>1. PICK name \in Names \cup {Nothing}, dns \in Servers \cup {Nothing},
           gateway \in Gateways \cup {Nothing} : networkConfig(h, name, dns, gateway)
  BY DEF Request
<1>2. PICK me \in Locals :
        /\ me = [NoLocals EXCEPT !.name = name, !.dns = dns, !.gateway = gateway,
                                 !.left = layers, !.alone = Busy = {}]
        /\ me.left # {} /\ me.applied = {} /\ (me.alone <=> Busy = {})
  <2> DEFINE m == [NoLocals EXCEPT !.name = name, !.dns = dns, !.gateway = gateway,
                                   !.left = layers, !.alone = Busy = {}]
  <2>1. layers # {} /\ layers \subseteq Layers
    BY DEF IInv, WorldOK, Machines, Layers
  <2>2. m \in Locals /\ m.left # {} /\ m.applied = {} /\ (m.alone <=> Busy = {})
    BY <2>1 DEF NoLocals, Locals, Parts
  <2> QED BY <2>2
<1>3. /\ pc' = [pc EXCEPT ![h] = ToName(me)]
      /\ local' = [o \in Handlers |->
           IF o = h THEN me
           ELSE IF o \in Busy THEN [local[o] EXCEPT !.alone = FALSE] ELSE local[o]]
      /\ pc[h] = "idle"
      /\ UNCHANGED <<machine, names, resolver, routing, memo>>
  BY <1>1, <1>2 DEF networkConfig
<1>4. /\ ToName(me) \in Labels
      /\ Knows(ToName(me), me, {static', kernel'}, saved', live', profile', route')
  BY <1>2, ToNameKnows DEF Labels
<1>5. ASSUME NEW g \in Handlers, g # h, pc[g] # "idle"
      PROVE  /\ local'[g] \in Locals /\ ~local'[g].alone
             /\ \A f \in {"name", "dns", "gateway", "left", "applied"} :
                  local'[g][f] = local[g][f]
  BY <1>3, <1>5 DEF IInv, Busy, Locals
<1>6. ASSUME NEW g \in Handlers, g # h, pc[g] = "idle"
      PROVE  local'[g] = local[g]
  BY <1>3, <1>6 DEF Busy
<1>7. pc' \in [Handlers -> Labels]
  BY <1>3, <1>4 DEF IInv
<1>8. local' \in [Handlers -> Locals]
  BY <1>3, <1>5, <1>6 DEF IInv
<1>9. WorldOK'
  BY <1>3 DEF IInv, WorldOK, machine, names, resolver, routing
<1>10. ASSUME NEW g \in Handlers
       PROVE  /\ Alone(g)'
              /\ Knows(pc[g], local[g], {static, kernel}, saved, live, profile, route)'
  <2>1. CASE g = h
    <3>1. pc'[g] = ToName(me) /\ local'[g] = me
      BY <1>3, <2>1 DEF IInv
    <3>2. me.alone => \A o \in Handlers \ {h} : pc'[o] = "idle"
      BY <1>2, <1>3 DEF IInv, Busy
    <3> QED BY <1>2, <1>4, <2>1, <3>1, <3>2 DEF Alone
  <2>2. CASE g # h /\ pc[g] = "idle"
    <3>1. pc'[g] = "idle" /\ local'[g] = NoLocals
      BY <1>3, <1>6, <2>2 DEF IInv, Knows
    <3> QED BY <3>1, IdleKnows DEF Alone
  <2>3. CASE g # h /\ pc[g] # "idle"
    <3>1. pc'[g] = pc[g]
      BY <1>3, <2>3 DEF IInv
    <3>2. /\ local'[g].name = local[g].name /\ local'[g].dns = local[g].dns
          /\ local'[g].gateway = local[g].gateway /\ local'[g].left = local[g].left
          /\ local'[g].applied = local[g].applied /\ ~local'[g].alone
      BY <1>5, <2>3
    <3>3. Knows(pc[g], local[g], {static, kernel}, saved, live, profile, route)
      BY Own
    <3>4. Knows(pc[g], local'[g], {static', kernel'}, saved', live', profile', route')
      BY <2>3, <3>2, <3>3 DEF Knows
    <3> QED BY <3>1, <3>2, <3>4 DEF Alone
  <2> QED BY <2>1, <2>2, <2>3
<1> QED BY <1>7, <1>8, <1>9, <1>10 DEF IInv

\* On the way to a name nothing is applied; only the last step has to know the name.
LEMMA NameStep ==
  ASSUME IInv, NEW h \in Handlers, pc[h] \in NameLabels,
         NEW label \in NameLabels \cup {ToDns(local[h])}, Goto(h, label, local[h]),
         label = "hosts" => local[h].name \in {static', kernel'},
         WorldOK'
  PROVE  IInv'
<1> DEFINE me == local[h]
<1>1. me \in Locals /\ me.name # Nothing /\ me.left # {} /\ me.applied = {}
  BY Own DEF Knows
<1>2. /\ label \in Labels
      /\ Knows(label, me, {static', kernel'}, saved', live', profile', route')
  <2>1. CASE label \in NameLabels
    BY <1>1, <2>1 DEF Knows, NameLabels, Labels
  <2>2. CASE label = ToDns(me)
    BY <1>1, <2>2, ToDnsKnows DEF Labels
  <2> QED BY <2>1, <2>2
<1>3. pc[h] # "idle"
  BY DEF NameLabels
<1> QED BY <1>1, <1>2, <1>3, HandlerStep

LEMMA SetHostnameStep ==
  ASSUME IInv, NEW h \in Handlers, SetHostname(h)
  PROVE  IInv'
<1> DEFINE me == local[h]
           c == Command("hostnamectl", me.name)
<1>1. pc[h] = "hostnamectl" /\ pc[h] \in NameLabels
  BY DEF SetHostname, NameLabels
<1>2. me.name \in Names /\ c \in Commands
  BY <1>1, Own, CommandTyped DEF Knows, Locals
<1>3. PICK ok \in BOOLEAN :
        /\ Goto(h, IF ok THEN "verifyStatic" ELSE "copy", me)
        /\ \/ Remembers(c, ok) /\ UNCHANGED <<static, kernel>>
           \/ Runs(c, ok) /\ IF ok THEN static' = me.name /\ kernel' = me.name
                             ELSE UNCHANGED <<static, kernel>>
        /\ UNCHANGED <<machine, hosts, resolver, routing>>
  BY DEF SetHostname, NameBy
<1>4. memo' \in Tables(Commands, BOOLEAN)
  BY <1>2, <1>3, RunsTyped DEF Remembers, IInv, WorldOK
<1>5. WorldOK'
  BY <1>2, <1>3, <1>4 DEF IInv, WorldOK, machine, resolver, routing
<1> QED BY <1>1, <1>3, <1>5, NameStep DEF NameLabels

LEMMA CopyHostnameStep ==
  ASSUME IInv, NEW h \in Handlers, CopyHostname(h)
  PROVE  IInv'
<1> DEFINE me == local[h]
<1>1. pc[h] \in NameLabels
  BY DEF CopyHostname, NameLabels
<1>2. me.name \in Names
  BY <1>1, Own DEF Knows, Locals
<1>3. PICK label \in {"hostname", "hostnameOnly"} : Goto(h, label, me)
  BY DEF CopyHostname
<1>4. WorldOK'
  BY <1>2 DEF CopyHostname, IInv, WorldOK, machine, resolver, routing
<1> QED BY <1>1, <1>3, <1>4, NameStep DEF NameLabels

\* hostname, in the second way and in the third.
LEMMA KernelStep ==
  ASSUME IInv, NEW h \in Handlers, pc[h] \in NameLabels,
         NEW right \in NameLabels \ {"hosts"}, NEW wrong \in Labels \ {"hosts"},
         wrong \in NameLabels \cup {ToDns(local[h])},
         NameBy(h, "hostname", kernel' = local[h].name /\ UNCHANGED static, right, wrong)
  PROVE  IInv'
<1> DEFINE me == local[h]
           c == Command("hostname", me.name)
<1>1. me.name \in Names /\ c \in Commands
  BY Own, CommandTyped DEF Knows, Locals
<1>2. PICK ok \in BOOLEAN :
        /\ Goto(h, IF ok THEN right ELSE wrong, me)
        /\ \/ Remembers(c, ok) /\ UNCHANGED <<static, kernel>>
           \/ Runs(c, ok) /\ IF ok THEN kernel' = me.name /\ UNCHANGED static
                             ELSE UNCHANGED <<static, kernel>>
        /\ UNCHANGED <<machine, hosts, resolver, routing>>
  BY DEF NameBy
<1>3. memo' \in Tables(Commands, BOOLEAN)
  BY <1>1, <1>2, RunsTyped DEF Remembers, IInv, WorldOK
<1>4. WorldOK'
  BY <1>1, <1>2, <1>3 DEF IInv, WorldOK, machine, resolver, routing
<1>5. PICK label \in NameLabels \cup {ToDns(me)} : label # "hosts" /\ Goto(h, label, me)
  BY <1>2
<1> QED BY <1>4, <1>5, NameStep

LEMMA HostnameStep ==
  ASSUME IInv, NEW h \in Handlers, Hostname(h) \/ HostnameOnly(h)
  PROVE  IInv'
<1>1. CASE Hostname(h)
  BY <1>1, KernelStep DEF Hostname, NameLabels, Labels
<1>2. CASE HostnameOnly(h)
  <2>1. pc[h] \in NameLabels
    BY <1>2 DEF HostnameOnly, NameLabels
  <2>2. ToDns(local[h]) \in Labels \ {"hosts"}
    BY <2>1, Own, ToDnsKnows DEF Knows, Labels
  <2>3. NameBy(h, "hostname", kernel' = local[h].name /\ UNCHANGED static,
               "verifyOnly", ToDns(local[h]))
    BY <1>2 DEF HostnameOnly
  <2>4. "verifyOnly" \in NameLabels \ {"hosts"}
    BY DEF NameLabels
  <2> QED BY <2>1, <2>2, <2>3, <2>4, KernelStep
<1> QED BY <1>1, <1>2

\* Only here is a name accepted: it was read back.
LEMMA VerifyStep ==
  ASSUME IInv, NEW h \in Handlers, Verify(h)
  PROVE  IInv'
<1>1. pc[h] \in NameLabels
  BY DEF Verify, NameLabels
<1>2. WorldOK'
  BY DEF Verify, IInv, WorldOK, machine, names, resolver, routing
<1>3. CASE Verified(h) /\ Goto(h, "hosts", local[h])
  <2>1. local[h].name \in {static', kernel'}
    BY <1>3 DEF Verify, Verified, names
  <2> QED BY <1>1, <1>2, <1>3, <2>1, NameStep DEF NameLabels
<1>4. CASE ~(Verified(h) /\ Goto(h, "hosts", local[h]))
  <2>1. PICK label \in {"copy", "hostnameOnly", ToDns(local[h])} : Goto(h, label, local[h])
    BY <1>4 DEF Verify
  <2>2. ToDns(local[h]) # "hosts"
    BY <1>1, Own, ToDnsKnows DEF Knows
  <2> QED BY <1>1, <1>2, <2>1, <2>2, NameStep DEF NameLabels
<1> QED BY <1>3, <1>4

LEMMA WriteHostsStep ==
  ASSUME IInv, NEW h \in Handlers, WriteHosts(h)
  PROVE  IInv'
<1> DEFINE me == local[h]
<1>1. /\ pc[h] = "hosts"
      /\ Goto(h, ToDns(me), Applied(me, "name"))
      /\ hosts' \in {hosts, {me.name}}
      /\ UNCHANGED <<machine, static, kernel, resolver, routing, memo>>
  BY DEF WriteHosts
<1>2. /\ me \in Locals /\ me.name \in Names /\ me.left # {} /\ me.applied = {}
      /\ me.alone => me.name \in {static, kernel}
  BY <1>1, Own DEF Knows, NameLabels, Locals
<1>3. PICK by \in Locals :
        /\ by = Applied(me, "name")
        /\ by.left # {} /\ by.applied = {"name"} /\ by.alone = me.alone
        /\ by.name = me.name /\ by.dns = me.dns /\ by.gateway = me.gateway
  BY <1>2, Fields DEF Parts
<1>4. ToDns(me) = ToDns(by)
  BY <1>3 DEF ToDns, ToGateway
<1>5. /\ ToDns(by) \in Labels
      /\ Knows(ToDns(by), by, {static', kernel'}, saved', live', profile', route')
  BY <1>1, <1>2, <1>3, ToDnsKnows DEF Labels
<1>6. WorldOK'
  BY <1>1, <1>2 DEF IInv, WorldOK, machine, resolver, routing
<1> QED BY <1>1, <1>3, <1>4, <1>5, <1>6, HandlerStep

-----------------------------------------------------------------------------
(***************************************************************************)
(* The name servers.                                                       *)
(***************************************************************************)
\* A layer of those left.
LEMMA PreferredLeft ==
  ASSUME NEW left \in SUBSET Layers, left # {}
  PROVE  Preferred(left) \in left
BY DEF Preferred, Layers

LEMMA SaveDnsStep ==
  ASSUME IInv, NEW h \in Handlers, SaveDns(h)
  PROVE  IInv'
<1> DEFINE me == local[h]
           layer == Preferred(me.left)
           c == IF layer = "nm" THEN Command("modify dns", me.dns) ELSE Direct
           rest == Without(me, layer)
           then(ok, by) ==
             CASE ok /\ layer = "file" -> Goto(h, ToGateway(me), Applied(by, "dns"))
               [] ok /\ layer # "file" -> Goto(h, "activate", by)
               [] OTHER -> Goto(h, IF rest.left = {} THEN ToGateway(me) ELSE "dns", rest)
           written(servers) == [servers EXCEPT ![layer] = me.dns]
<1>1. /\ pc[h] = "dns"
      /\ UNCHANGED <<machine, names, routing>>
  BY DEF SaveDns
<1>2. /\ me \in Locals /\ me.dns \in Servers /\ me.left # {} /\ me.left \in SUBSET Layers
      /\ me.applied \subseteq {"name"}
      /\ me.alone /\ "name" \in me.applied => me.name \in {static', kernel'}
  <2>1. me \in Locals /\ Knows("dns", me, {static, kernel}, saved, live, profile, route)
    BY <1>1, Own
  <2>2. me.dns \in Servers /\ me.left # {} /\ me.left \in SUBSET Layers
    BY <2>1 DEF Knows, Locals
  <2>3. me.applied \subseteq {"name"}
    BY <2>1 DEF Knows, Locals, Parts
  <2> QED BY <1>1, <2>1, <2>2, <2>3 DEF Knows, names
<1>3. layer \in me.left /\ layer \in Layers /\ c \in Commands \cup {Direct}
  BY <1>2, PreferredLeft, CommandTyped
<1>4. PICK ok \in BOOLEAN, by \in {me, Unsure(me, "dns")} :
        /\ then(ok, by)
        /\ \/ by = Unsure(me, "dns") /\ layer = "nm" /\ Remembers(c, ok) /\ UNCHANGED resolver
           \/ /\ by = me /\ Runs(c, ok)
              /\ saved' = IF ok THEN written(saved) ELSE saved
              /\ live' = IF ok /\ layer = "file" THEN written(live) ELSE live
  BY DEF SaveDns, Remembers
<1>5. memo' \in Tables(Commands, BOOLEAN)
  BY <1>3, <1>4, RunsTyped DEF Remembers, IInv, WorldOK
<1>6. WorldOK'
  BY <1>1, <1>2, <1>4, <1>5 DEF IInv, WorldOK, machine, names, resolver, routing
<1>7. /\ by \in Locals /\ by.left = me.left /\ by.applied = me.applied /\ by.dns = me.dns
      /\ by.name = me.name /\ by.gateway = me.gateway /\ by.alone = me.alone
      /\ "dns" \in by.sure => by = me
  BY <1>2, Fields DEF Parts
<1>8. CASE ok /\ layer = "file"
  <2>1. PICK new \in Locals :
          /\ new = Applied(by, "dns") /\ new.applied = by.applied \cup {"dns"}
          /\ new.left = by.left /\ new.dns = by.dns /\ new.name = by.name
          /\ new.gateway = by.gateway /\ new.alone = by.alone /\ new.sure = by.sure
    BY <1>7, Fields DEF Parts
  <2>2. Goto(h, ToGateway(me), new) /\ ToGateway(me) = ToGateway(new)
    BY <1>4, <1>7, <1>8, <2>1 DEF ToGateway
  <2>3. saved'[layer] = me.dns /\ live'[layer] = me.dns
    BY <1>3, <1>4, <1>8 DEF IInv, WorldOK
  <2>4. /\ "gateway" \notin new.applied
        /\ new.alone /\ "name" \in new.applied => new.name \in {static', kernel'}
        /\ saved'[Preferred(new.left)] = new.dns /\ live'[Preferred(new.left)] = new.dns
    BY <1>2, <1>7, <2>1, <2>3
  <2>5. /\ ToGateway(new) \in Labels
        /\ Knows(ToGateway(new), new, {static', kernel'}, saved', live', profile', route')
    BY <2>4, ToGatewayKnows DEF Labels
  <2> QED BY <1>1, <1>6, <1>7, <2>1, <2>2, <2>5, HandlerStep
<1>9. CASE ok /\ layer # "file"
  <2>1. Goto(h, "activate", by)
    BY <1>4, <1>9
  <2>2. by.alone /\ "dns" \in by.sure => saved'[Preferred(by.left)] = by.dns
    <3>1. CASE by = Unsure(me, "dns")
      BY <1>2, <3>1, Fields DEF Parts
    <3>2. CASE saved' = written(saved)
      BY <1>3, <1>7, <3>2 DEF IInv, WorldOK
    <3> QED BY <1>4, <1>9, <3>1, <3>2
  <2>3. /\ by.left # {} /\ by.dns # Nothing /\ Preferred(by.left) # "file"
        /\ "dns" \notin by.applied /\ "gateway" \notin by.applied
        /\ by.alone /\ "name" \in by.applied => by.name \in {static', kernel'}
    BY <1>2, <1>7, <1>9, NetworkAssumption
  <2>4. Knows("activate", by, {static', kernel'}, saved', live', profile', route')
    BY <2>2, <2>3 DEF Knows, NameLabels
  <2> QED BY <1>1, <1>6, <1>7, <2>1, <2>4, HandlerStep DEF Labels
<1>10. CASE ~ok
  <2>1. PICK new \in Locals :
          /\ new = rest /\ new.applied = me.applied /\ new.left = me.left \ {layer}
          /\ new.dns = me.dns /\ new.name = me.name /\ new.gateway = me.gateway
          /\ new.alone = me.alone
    BY <1>2, WithoutLayer
  <2>2. Goto(h, IF new.left = {} THEN ToGateway(me) ELSE "dns", new)
    BY <1>4, <1>10, <2>1
  <2>3. CASE new.left = {}
    <3>1. ToGateway(me) = ToGateway(new)
      BY <2>1 DEF ToGateway
    <3>2. /\ "gateway" \notin new.applied
          /\ new.alone /\ "name" \in new.applied => new.name \in {static', kernel'}
          /\ "dns" \notin new.applied
      BY <1>2, <2>1
    <3>3. /\ ToGateway(new) \in Labels
          /\ Knows(ToGateway(new), new, {static', kernel'}, saved', live', profile', route')
      BY <3>2, ToGatewayKnows DEF Labels
    <3> QED BY <1>1, <1>6, <2>1, <2>2, <2>3, <3>1, <3>3, HandlerStep
  <2>4. CASE new.left # {}
    <3>1. Knows("dns", new, {static', kernel'}, saved', live', profile', route')
      BY <1>2, <2>1, <2>4, NetworkAssumption DEF Knows, NameLabels
    <3> QED BY <1>1, <1>6, <2>1, <2>2, <2>4, <3>1, HandlerStep DEF Labels
  <2> QED BY <2>3, <2>4
<1> QED BY <1>8, <1>9, <1>10

\* What nmcli connection up leaves.
LEMMA UpEffect ==
  ASSUME WorldOK, NEW ok \in BOOLEAN, Up(ok)
  PROVE  /\ live' \in [Layers -> Servers] /\ route' \in Gateways \cup {Nothing}
         /\ ok => route' = profile /\ live'["nm"] = saved["nm"]
         /\ \A l \in Layers : live[l] = saved[l] => live'[l] = saved[l]
BY DEF WorldOK, Up, Layers

LEMMA ActivateDnsStep ==
  ASSUME IInv, NEW h \in Handlers, ActivateDns(h)
  PROVE  IInv'
<1> DEFINE me == local[h]
           layer == Preferred(me.left)
           c == Command(IF layer = "nm" THEN "up" ELSE "restart", Nothing)
<1>1. /\ pc[h] = "activate"
      /\ UNCHANGED <<machine, names, saved, profile>>
  BY DEF ActivateDns
<1>2. /\ me \in Locals /\ me.left # {} /\ me.left \in SUBSET Layers /\ layer # "file"
      /\ me.applied \subseteq {"name"}
      /\ me.alone /\ "name" \in me.applied => me.name \in {static', kernel'}
      /\ me.alone /\ "dns" \in me.sure => saved'[layer] = me.dns
  <2>1. me \in Locals /\ Knows("activate", me, {static, kernel}, saved, live, profile, route)
    BY <1>1, Own
  <2>2. me.left # {} /\ me.left \in SUBSET Layers /\ layer # "file"
    BY <2>1 DEF Knows, Locals
  <2>3. me.applied \subseteq {"name"}
    BY <2>1 DEF Knows, Locals, Parts
  <2> QED BY <1>1, <2>1, <2>2, <2>3 DEF Knows, names
<1>3. layer \in {"nm", "resolved"} /\ c \in Commands
  BY <1>2, PreferredLeft, CommandTyped DEF Layers
<1>4. PICK ok \in BOOLEAN, by \in {me, Unsure(me, "dns")} :
        /\ Goto(h, ToGateway(me), Applied(by, "dns"))
        /\ \/ by = Unsure(me, "dns") /\ Remembers(c, ok) /\ UNCHANGED <<live, route>>
           \/ /\ by = Regardless(me, "dns", ok) /\ Runs(c, ok)
              /\ IF layer = "nm" THEN Up(ok) ELSE RestartResolved(ok)
  BY DEF ActivateDns, Regardless
<1>5. memo' \in Tables(Commands, BOOLEAN)
  BY <1>3, <1>4, RunsTyped DEF Remembers, IInv, WorldOK
<1>6. /\ live' \in [Layers -> Servers] /\ route' \in Gateways \cup {Nothing}
      /\ by = me => "dns" \notin me.sure \/ live'[layer] = saved[layer]
  <2>1. CASE by = Unsure(me, "dns") /\ Remembers(c, ok) /\ UNCHANGED <<live, route>>
    BY <1>2, <2>1, Fields DEF IInv, WorldOK, Parts
  <2>2. CASE by = Regardless(me, "dns", ok) /\ layer = "nm" /\ Up(ok)
    BY <1>2, <2>2, UpEffect, Fields DEF IInv, Regardless, Parts
  <2>3. CASE by = Regardless(me, "dns", ok) /\ layer # "nm" /\ RestartResolved(ok)
    BY <1>2, <1>3, <2>3, Fields DEF IInv, WorldOK, Regardless, RestartResolved, Parts, Layers
  <2> QED BY <1>4, <2>1, <2>2, <2>3
<1>7. WorldOK'
  BY <1>1, <1>5, <1>6 DEF IInv, WorldOK, machine, names
<1>8. /\ by \in Locals /\ by.left = me.left /\ by.applied = me.applied /\ by.dns = me.dns
      /\ by.name = me.name /\ by.gateway = me.gateway /\ by.alone = me.alone
      /\ "dns" \in by.sure => by = me
  BY <1>2, Fields DEF Parts
<1>9. PICK new \in Locals :
        /\ new = Applied(by, "dns") /\ new.applied = by.applied \cup {"dns"}
        /\ new.left = by.left /\ new.dns = by.dns /\ new.name = by.name
        /\ new.gateway = by.gateway /\ new.alone = by.alone /\ new.sure = by.sure
  BY <1>8, Fields DEF Parts
<1>10. ToGateway(me) = ToGateway(new)
  BY <1>8, <1>9 DEF ToGateway
<1>11. /\ "gateway" \notin new.applied
       /\ new.alone /\ "name" \in new.applied => new.name \in {static', kernel'}
       /\ new.alone /\ "dns" \in new.sure =>
            /\ saved'[Preferred(new.left)] = new.dns
            /\ live'[Preferred(new.left)] = new.dns
  BY <1>1, <1>2, <1>6, <1>8, <1>9
<1>12. /\ ToGateway(new) \in Labels
       /\ Knows(ToGateway(new), new, {static', kernel'}, saved', live', profile', route')
  BY <1>11, ToGatewayKnows DEF Labels
<1> QED BY <1>1, <1>4, <1>7, <1>8, <1>9, <1>10, <1>12, HandlerStep

-----------------------------------------------------------------------------
(***************************************************************************)
(* The gateway.                                                            *)
(***************************************************************************)
\* What the steps of the gateway share: nothing of it is applied yet, and the other parts
\* stay as they are.
GatewayLabels == {"modify", "up", "delete", "add"}

LEMMA GatewayStep ==
  ASSUME IInv, NEW h \in Handlers, pc[h] \in GatewayLabels,
         NEW label \in {"up", "delete", "add"}, NEW me \in Locals, Goto(h, label, me),
         me.name = local[h].name, me.dns = local[h].dns, me.gateway = local[h].gateway,
         me.left = local[h].left, me.alone = local[h].alone, me.applied = local[h].applied,
         "dns" \in me.sure <=> "dns" \in local[h].sure,
         label = "up" /\ "gateway" \in me.sure => profile' = me.gateway,
         UNCHANGED <<static, kernel, saved>>,
         \A l \in Layers : live[l] = saved[l] => live'[l] = saved[l],
         WorldOK'
  PROVE  IInv'
<1>1. Knows(pc[h], local[h], {static, kernel}, saved, live, profile, route)
  BY Own
<1>2. local[h].gateway # Nothing /\ "gateway" \notin local[h].applied
  BY <1>1 DEF Knows, GatewayLabels
<1>3. Preferred(me.left) \in Layers
  BY DEF Preferred, Layers
<1>4. Knows(label, me, {static', kernel'}, saved', live', profile', route')
  BY <1>1, <1>2, <1>3 DEF Knows, NameLabels
<1> QED BY <1>4, HandlerStep DEF Labels, GatewayLabels

LEMMA SetStep ==
  ASSUME IInv, NEW h \in Handlers, pc[h] \in GatewayLabels,
         NEW by \in {local[h], Unsure(local[h], "gateway")}, Set(h, by),
         by.alone /\ "gateway" \in by.sure => route' = local[h].gateway,
         UNCHANGED <<static, kernel, saved>>,
         \A l \in Layers : live[l] = saved[l] => live'[l] = saved[l],
         WorldOK'
  PROVE  IInv'
<1>1. Knows(pc[h], local[h], {static, kernel}, saved, live, profile, route)
  BY Own
<1>2. PICK new \in Locals :
        /\ new = Applied(by, "gateway") /\ new.applied = local[h].applied \cup {"gateway"}
        /\ new.left = local[h].left /\ new.dns = local[h].dns /\ new.name = local[h].name
        /\ new.gateway = local[h].gateway /\ new.alone = local[h].alone
        /\ new.sure = by.sure /\ by.alone = local[h].alone
        /\ "dns" \in new.sure <=> "dns" \in local[h].sure
  BY Own, Fields DEF Parts
<1>3. Preferred(new.left) \in Layers
  BY DEF Preferred, Layers
<1>4. /\ new.alone /\ "name" \in new.applied => new.name \in {static', kernel'}
      /\ new.alone /\ "dns" \in new.sure /\ "dns" \in new.applied =>
           /\ saved'[Preferred(new.left)] = new.dns
           /\ live'[Preferred(new.left)] = new.dns
  BY <1>1, <1>2, <1>3 DEF Knows
<1>5. Knows("answer", new, {static', kernel'}, saved', live', profile', route')
  BY <1>2, <1>4 DEF Knows, NameLabels
<1>6. Goto(h, "answer", new)
  BY <1>2 DEF Set
<1> QED BY <1>2, <1>5, <1>6, HandlerStep DEF Labels, GatewayLabels

LEMMA ModifyGatewayStep ==
  ASSUME IInv, NEW h \in Handlers, ModifyGateway(h)
  PROVE  IInv'
<1> DEFINE me == local[h]
           c == Command("modify gateway", me.gateway)
<1>1. /\ pc[h] = "modify" /\ pc[h] \in GatewayLabels
      /\ UNCHANGED <<machine, names, saved>>
  BY DEF ModifyGateway, GatewayLabels
<1>2. me \in Locals /\ me.gateway \in Gateways /\ c \in Commands
  BY <1>1, Own, CommandTyped DEF Knows, Locals
<1>3. PICK ok \in BOOLEAN, by \in {me, Unsure(me, "gateway")} :
        /\ IF ok THEN Goto(h, "up", by) ELSE Goto(h, "delete", me)
        /\ \/ by = Unsure(me, "gateway") /\ Remembers(c, ok) /\ UNCHANGED <<live, routing>>
           \/ /\ by = me /\ Runs(c, ok)
              /\ profile' = (IF ok THEN me.gateway ELSE profile)
              /\ UNCHANGED <<live, route>>
  <2>1. PICK ok \in BOOLEAN :
          \/ /\ Remembers(c, ok) /\ UNCHANGED <<live, routing>>
             /\ IF ok THEN Goto(h, "up", Unsure(me, "gateway")) ELSE Goto(h, "delete", me)
          \/ /\ Runs(c, ok)
             /\ IF ok THEN /\ Goto(h, "up", me)
                           /\ profile' = me.gateway /\ UNCHANGED <<live, route>>
                ELSE Goto(h, "delete", me) /\ UNCHANGED <<live, routing>>
    BY DEF ModifyGateway, GatewayBy
  <2>2. CASE Remembers(c, ok) /\ UNCHANGED <<live, routing>>
    BY <2>1, <2>2
  <2>3. CASE Runs(c, ok)
    BY <2>1, <2>3 DEF routing
  <2> QED BY <2>1, <2>2, <2>3
<1>4. memo' \in Tables(Commands, BOOLEAN)
  BY <1>2, <1>3, RunsTyped DEF Remembers, IInv, WorldOK
<1>5. WorldOK' /\ live' = live /\ UNCHANGED <<static, kernel, saved>>
  BY <1>1, <1>2, <1>3, <1>4 DEF IInv, WorldOK, machine, names, routing
<1>6. /\ by \in Locals /\ by.left = me.left /\ by.applied = me.applied /\ by.dns = me.dns
      /\ by.name = me.name /\ by.gateway = me.gateway /\ by.alone = me.alone
      /\ "dns" \in by.sure <=> "dns" \in me.sure
  BY <1>2, UnsureOrNot
<1>7. CASE ok
  <2>1. "gateway" \in by.sure => profile' = by.gateway
    BY <1>2, <1>3, <1>6, <1>7, Fields DEF Parts
  <2> QED BY <1>1, <1>3, <1>5, <1>6, <1>7, <2>1, GatewayStep
<1>8. CASE ~ok
  BY <1>1, <1>2, <1>3, <1>5, <1>8, GatewayStep
<1> QED BY <1>7, <1>8

LEMMA UpGatewayStep ==
  ASSUME IInv, NEW h \in Handlers, UpGateway(h)
  PROVE  IInv'
<1> DEFINE me == local[h]
           c == Command("up", Nothing)
<1>1. /\ pc[h] = "up" /\ pc[h] \in GatewayLabels
      /\ UNCHANGED <<machine, names, saved>>
  BY DEF UpGateway, GatewayLabels
<1>2. /\ me \in Locals /\ c \in Commands
      /\ me.alone /\ "gateway" \in me.sure => profile = me.gateway
  BY <1>1, Own, CommandTyped DEF Knows
<1>3. PICK ok \in BOOLEAN, by \in {me, Unsure(me, "gateway")} :
        /\ IF ok THEN Set(h, by) ELSE Goto(h, "delete", me)
        /\ \/ by = Unsure(me, "gateway") /\ Remembers(c, ok) /\ UNCHANGED <<live, routing>>
           \/ by = me /\ Runs(c, ok) /\ Up(ok) /\ UNCHANGED profile
  BY DEF UpGateway, GatewayBy
<1>4. memo' \in Tables(Commands, BOOLEAN)
  BY <1>2, <1>3, RunsTyped DEF Remembers, IInv, WorldOK
<1>5. /\ live' \in [Layers -> Servers] /\ route' \in Gateways \cup {Nothing}
      /\ profile' = profile
      /\ \A l \in Layers : live[l] = saved[l] => live'[l] = saved[l]
  BY <1>3, UpEffect DEF IInv, WorldOK, routing
<1>6. WorldOK' /\ UNCHANGED <<static, kernel, saved>>
  BY <1>1, <1>4, <1>5 DEF IInv, WorldOK, machine, names
<1>7. CASE ok
  <2>1. by.alone /\ "gateway" \in by.sure => route' = me.gateway
    BY <1>2, <1>3, <1>7, Fields, UpEffect DEF Parts, IInv
  <2> QED BY <1>1, <1>3, <1>5, <1>6, <1>7, <2>1, SetStep
<1>8. CASE ~ok
  BY <1>1, <1>2, <1>3, <1>5, <1>6, <1>8, GatewayStep
<1> QED BY <1>7, <1>8

LEMMA DeleteDefaultStep ==
  ASSUME IInv, NEW h \in Handlers, DeleteDefault(h)
  PROVE  IInv'
<1> DEFINE c == Command("delete", Nothing)
<1>1. /\ pc[h] = "delete" /\ pc[h] \in GatewayLabels
      /\ UNCHANGED <<machine, names, resolver, profile>>
  BY DEF DeleteDefault, GatewayLabels
<1>2. PICK me \in Locals :
        /\ me = Through(local[h], route # Nothing)
        /\ me.left = local[h].left /\ me.applied = local[h].applied
        /\ me.dns = local[h].dns /\ me.name = local[h].name
        /\ me.gateway = local[h].gateway /\ me.alone = local[h].alone
        /\ me.sure = local[h].sure
  BY Own, ThroughDevice
<1>3. PICK by \in {me, Unsure(me, "gateway")} :
        /\ Goto(h, "add", by)
        /\ \/ Remembers(c, TRUE) /\ UNCHANGED route
           \/ Runs(c, TRUE) /\ route' = Nothing
  <2>1. \/ Goto(h, "add", Unsure(me, "gateway")) /\ Remembers(c, TRUE) /\ UNCHANGED route
        \/ Goto(h, "add", me) /\ Runs(c, TRUE) /\ route' = Nothing
    BY <1>2, Zenon DEF DeleteDefault
  <2> QED BY <2>1
<1>4. memo' \in Tables(Commands, BOOLEAN)
  BY <1>3, RunsTyped, CommandTyped DEF Remembers, IInv, WorldOK
<1>5. WorldOK' /\ UNCHANGED <<static, kernel, saved, live>>
  BY <1>1, <1>3, <1>4 DEF IInv, WorldOK, machine, names, resolver
<1>6. /\ by \in Locals /\ by.left = me.left /\ by.applied = me.applied /\ by.dns = me.dns
      /\ by.name = me.name /\ by.gateway = me.gateway /\ by.alone = me.alone
      /\ "dns" \in by.sure <=> "dns" \in me.sure
  BY <1>2, UnsureOrNot
<1> QED BY <1>1, <1>2, <1>3, <1>5, <1>6, GatewayStep

LEMMA AddDefaultStep ==
  ASSUME IInv, NEW h \in Handlers, AddDefault(h)
  PROVE  IInv'
<1> DEFINE me == local[h]
           c == Command(IF me.dev THEN "add dev" ELSE "add", me.gateway)
<1>1. /\ pc[h] = "add" /\ pc[h] \in GatewayLabels
      /\ UNCHANGED <<machine, names, saved>>
  BY DEF AddDefault, GatewayLabels
<1>2. /\ me \in Locals /\ me.gateway \in Gateways /\ "gateway" \notin me.applied
      /\ Knows("add", me, {static, kernel}, saved, live, profile, route)
  BY <1>1, Own DEF Knows, Locals
<1>3. c \in Commands
  BY <1>2, CommandTyped
<1>4. PICK ok \in BOOLEAN, by \in {me, Unsure(me, "gateway")} :
        /\ IF ok THEN Set(h, by) ELSE Goto(h, "answer", me)
        /\ \/ by = Unsure(me, "gateway") /\ Remembers(c, ok) /\ UNCHANGED <<live, routing>>
           \/ /\ by = me /\ Runs(c, ok) /\ UNCHANGED <<live, profile>>
              /\ IF ok THEN route' = me.gateway ELSE UNCHANGED route
  <2>1. PICK ok \in BOOLEAN :
          \/ /\ Remembers(c, ok) /\ UNCHANGED <<live, routing>>
             /\ IF ok THEN Set(h, Unsure(me, "gateway")) ELSE Goto(h, "answer", me)
          \/ /\ Runs(c, ok)
             /\ IF ok THEN Set(h, me) /\ route' = me.gateway /\ UNCHANGED <<live, profile>>
                ELSE Goto(h, "answer", me) /\ UNCHANGED <<live, routing>>
    BY DEF AddDefault, GatewayBy
  <2>2. CASE Remembers(c, ok) /\ UNCHANGED <<live, routing>>
    BY <2>1, <2>2
  <2>3. CASE Runs(c, ok)
    BY <2>1, <2>3 DEF routing
  <2> QED BY <2>1, <2>2, <2>3
<1>5. memo' \in Tables(Commands, BOOLEAN)
  BY <1>3, <1>4, RunsTyped DEF Remembers, IInv, WorldOK
<1>6. WorldOK' /\ UNCHANGED <<static, kernel, saved, live>>
  BY <1>1, <1>2, <1>4, <1>5 DEF IInv, WorldOK, machine, names, routing
<1>7. CASE ok
  <2>1. by.alone /\ "gateway" \in by.sure => route' = me.gateway
    BY <1>2, <1>4, <1>7, Fields DEF Parts
  <2> QED BY <1>1, <1>4, <1>6, <1>7, <2>1, SetStep
<1>8. CASE ~ok
  <2>1. Knows("answer", me, {static', kernel'}, saved', live', profile', route')
    BY <1>2, <1>6 DEF Knows, NameLabels
  <2> QED BY <1>1, <1>2, <1>4, <1>6, <1>8, <2>1, HandlerStep DEF Labels
<1> QED BY <1>7, <1>8

LEMMA AnswerStep ==
  ASSUME IInv, NEW h \in Handlers, Answer(h)
  PROVE  IInv'
<1>1. /\ pc[h] = "answer" /\ Goto(h, "idle", NoLocals)
      /\ UNCHANGED <<machine, names, resolver, routing, memo>>
  BY DEF Answer
<1>2. WorldOK'
  BY <1>1 DEF IInv, WorldOK, machine, names, resolver, routing
<1> QED BY <1>1, <1>2, NoLocalsTyped, IdleKnows, HandlerStep DEF Labels

-----------------------------------------------------------------------------
(***************************************************************************)
(* The theorems.                                                           *)
(***************************************************************************)
LEMMA CutStep ==
  ASSUME IInv, Cut,
         {static', kernel'} \subseteq Names, hosts' \subseteq Names,
         saved' \in [Layers -> Servers], live' \in [Layers -> Servers],
         profile' \in Gateways, route' \in Gateways \cup {Nothing}, UNCHANGED machine
  PROVE  IInv'
<1>1. WorldOK'
  BY NothingTyped DEF Cut, IInv, WorldOK, machine
<1>2. /\ pc' \in [Handlers -> Labels] /\ local' \in [Handlers -> Locals]
      /\ \A h \in Handlers : pc'[h] = "idle" /\ local'[h] = NoLocals
  BY NoLocalsTyped DEF Cut, Labels
<1> QED BY <1>1, <1>2, IdleKnows DEF IInv, Alone

\* What a handler knows stays so through its own steps, and those of others take the
\* promise away; restarts leave nothing to know.
THEOREM Inductive ==
  /\ Init => IInv
  /\ IInv /\ [Next]_vars => IInv'
<1>1. ASSUME Init PROVE IInv
  <2>1. WorldOK
    <3>1. layers \in Machines
      BY <1>1 DEF Init, Machines
    <3>2. hosts \subseteq Names
      BY <1>1, NetworkAssumption DEF Init
    <3>3. saved \in [Layers -> Servers] /\ live \in [Layers -> Servers]
      BY <1>1 DEF Init
    <3> QED BY <1>1, <3>1, <3>2, <3>3, NetworkAssumption, NothingTyped DEF Init, WorldOK
  <2>2. /\ pc \in [Handlers -> Labels] /\ local \in [Handlers -> Locals]
        /\ \A h \in Handlers : pc[h] = "idle" /\ local[h] = NoLocals
    BY <1>1, NoLocalsTyped DEF Init, Labels
  <2> QED BY <2>1, <2>2, IdleKnows DEF IInv, Alone
<1>2. ASSUME IInv, [Next]_vars PROVE IInv'
  <2>1. ASSUME NEW h \in Handlers, Handler(h)
        PROVE  IInv'
    BY <1>2, <2>1, networkConfigStep, SetHostnameStep, CopyHostnameStep, HostnameStep,
       VerifyStep, WriteHostsStep, SaveDnsStep, ActivateDnsStep, ModifyGatewayStep,
       UpGatewayStep, DeleteDefaultStep, AddDefaultStep, AnswerStep DEF Handler
  <2>2. CASE Tick
    <3>1. WorldOK'
      BY <1>2, <2>2, AgedTyped
         DEF Tick, IInv, WorldOK, machine, names, resolver, routing
    <3> QED BY <1>2, <2>2, <3>1 DEF Tick, IInv, Alone, names, resolver, routing
  <2>3. CASE RestartPanel
    BY <1>2, <2>3, CutStep DEF RestartPanel, IInv, WorldOK, machine, names, resolver, routing
  <2>4. CASE Reboot
    BY <1>2, <2>4, CutStep DEF Reboot, IInv, WorldOK, machine
  <2>5. CASE UNCHANGED vars
    BY <1>2, <2>5 DEF vars, machine, names, resolver, routing, IInv, WorldOK, Alone
  <2> QED BY <1>2, <2>1, <2>2, <2>3, <2>4, <2>5 DEF Next
<1> QED BY <1>1, <1>2

\* The invariant holds in every behaviour.
THEOREM Invariance == Spec => []IInv
BY Inductive, PTL DEF Spec

\* Every variable has its type, and an idle handler keeps nothing of its last request.
THEOREM TypeCorrect == Spec => []TypeOK
<1>1. IInv => TypeOK
  BY DEF IInv, TypeOK, WorldOK, Knows
<1> QED BY <1>1, Invariance, PTL

\* Of the name always, of the rest as far as its commands were run: what a request that
\* met no other answers is so, for any number of handlers, any requests and leftovers.
THEOREM AnswersAreTrue == Spec => []AnswersHold
<1>1. ASSUME IInv PROVE AnswersHold
  <2>1. ASSUME NEW h \in Handlers
        PROVE  Knows(pc[h], local[h], {static, kernel}, saved, live, profile, route)
    BY <1>1 DEF IInv
  <2>2. NameHolds
    BY <2>1 DEF NameHolds, Answers, Knows
  <2>3. SettingsHold
    BY <2>1 DEF SettingsHold, Answers, Knows
  <2> QED BY <2>2, <2>3 DEF AnswersHold
<1> QED BY <1>1, Invariance, PTL

-----------------------------------------------------------------------------
(***************************************************************************)
(* The network page.                                                       *)
(***************************************************************************)
\* AdBlock reads /etc/hosts and changes nothing of the network page: the two pages are
\* the network page, with steps that it does not see.
THEOREM PagesImplementNetworkPage == PagesSpec => Spec
<1>1. PagesInit => Init
  BY DEF PagesInit
<1>2. [Pages]_<<vars, adBlockVars>> => [Next]_vars
  <2> SUFFICES ASSUME [Pages]_<<vars, adBlockVars>>
               PROVE  [Next]_vars
    OBVIOUS
  <2>1. CASE AdBlock!Next /\ UNCHANGED networkVars
    <3>1. UNCHANGED <<topics, hosts>>
      BY <2>1 DEF AdBlock!Next, AdBlock!adblockToggleList, AdBlock!adblockToggleDomain,
                  AdBlock!Reads, AdBlock!Save, AdBlock!SaveFails
    <3> QED BY <2>1, <3>1 DEF networkVars, vars, machine, names
  <2>2. CASE Pages /\ ~(AdBlock!Next /\ UNCHANGED networkVars)
    BY <2>2 DEF Pages, Next
  <2>3. CASE UNCHANGED <<vars, adBlockVars>>
    BY <2>3
  <2> QED BY <2>1, <2>2, <2>3
<1> QED BY <1>1, <1>2, PTL DEF PagesSpec, Spec

\* What the network page answers is so, AdBlock or not.
THEOREM PagesAnswersAreTrue == PagesSpec => []AnswersHold
BY PagesImplementNetworkPage, AnswersAreTrue, PTL

-----------------------------------------------------------------------------
(***************************************************************************)
(* The AdBlock pages: the inductive invariant.                             *)
(***************************************************************************)
Row(i) == IF i \in Lists THEN disabled ELSE overrides

\* The row has the item in this state.
Has(row, i, state) ==
  IF i \in Lists THEN state = (i \notin row) ELSE i \in DOMAIN row /\ row[i] = state

SameRow(i, j) == i \in Lists <=> j \in Lists

\* A toggle has in its row what it will answer; alone, it is the only one of its row, and
\* its row has all that was answered before, had it been read.
Carries(t) ==
  toggle[t] # AdBlock!Idle =>
    LET me == toggle[t] IN
    /\ Has(me.row, me.item, me.says)
    /\ me.alone =>
         /\ \A u \in Togglers \ {t} :
              toggle[u] # AdBlock!Idle => ~SameRow(toggle[u].item, me.item)
         /\ me.whole =>
              \A i \in AdBlock!Items \ {me.item} :
                SameRow(i, me.item) /\ answered[i] # Unsaid => Has(me.row, i, answered[i])

Stick == \A i \in AdBlock!Items : answered[i] # Unsaid => Has(Row(i), i, answered[i])

AdBlockInv == AdBlock!TypeOK /\ Stick /\ \A t \in Togglers : Carries(t)

-----------------------------------------------------------------------------
(***************************************************************************)
(* Lemmas about the rows.                                                  *)
(***************************************************************************)
LEMMA OverridesAre ==
  /\ \A row \in AdBlock!Overrides :
       DOMAIN row \in SUBSET Domains /\ row \in [DOMAIN row -> BOOLEAN]
  /\ \A domains \in SUBSET Domains : [domains -> BOOLEAN] \subseteq AdBlock!Overrides
BY DEF AdBlock!Overrides

LEMMA OverriddenHas ==
  ASSUME NEW row \in AdBlock!Overrides, NEW domain \in Domains, NEW blocked \in BOOLEAN
  PROVE  /\ AdBlock!Overridden(row, domain, blocked) \in AdBlock!Overrides
         /\ Has(AdBlock!Overridden(row, domain, blocked), domain, blocked)
         /\ \A d \in Domains \ {domain}, state \in BOOLEAN : Has(row, d, state) =>
              Has(AdBlock!Overridden(row, domain, blocked), d, state)
<1> DEFINE new == AdBlock!Overridden(row, domain, blocked)
<1>1. DOMAIN row \in SUBSET Domains /\ row \in [DOMAIN row -> BOOLEAN]
  BY OverridesAre
<1>2. /\ new \in [DOMAIN row \cup {domain} -> BOOLEAN]
      /\ DOMAIN new = DOMAIN row \cup {domain}
      /\ new[domain] = blocked
      /\ \A d \in DOMAIN row \ {domain} : new[d] = row[d]
  BY <1>1 DEF AdBlock!Overridden
<1>3. new \in AdBlock!Overrides
  BY <1>1, <1>2, OverridesAre
<1>4. \A d \in Domains : d \notin Lists
  BY PagesAssumption
<1> QED BY <1>2, <1>3, <1>4 DEF Has

\* What a busy toggle is.
LEMMA BusyToggle ==
  ASSUME AdBlock!TypeOK, NEW t \in Togglers, toggle[t] # AdBlock!Idle
  PROVE  /\ toggle[t].item \in AdBlock!Items
         /\ toggle[t].item \in Lists => toggle[t].row \in SUBSET Lists
         /\ toggle[t].item \notin Lists =>
              toggle[t].item \in Domains /\ toggle[t].row \in AdBlock!Overrides
         /\ toggle[t].says \in BOOLEAN
         /\ toggle[t].alone \in BOOLEAN /\ toggle[t].whole \in BOOLEAN
BY PagesAssumption DEF AdBlock!TypeOK, AdBlock!Toggles, AdBlock!Items

LEMMA NewToggle ==
  ASSUME NEW item \in AdBlock!Items, NEW row, NEW says \in BOOLEAN,
         NEW alone \in BOOLEAN, NEW whole \in BOOLEAN,
         item \in Lists => row \in SUBSET Lists,
         item \notin Lists => row \in AdBlock!Overrides
  PROVE  LET new == [item |-> item, row |-> row, says |-> says,
                     alone |-> alone, whole |-> whole] IN
         /\ new # AdBlock!Idle
         /\ new \in AdBlock!Toggles(Lists, SUBSET Lists)
                      \cup AdBlock!Toggles(Domains, AdBlock!Overrides)
BY DEF AdBlock!Items, AdBlock!Toggles, AdBlock!Idle

LEMMA MetToggle ==
  ASSUME AdBlock!TypeOK, NEW u \in Togglers, toggle[u] # AdBlock!Idle
  PROVE  LET met == [toggle[u] EXCEPT !.alone = FALSE] IN
         /\ met # AdBlock!Idle
         /\ met \in AdBlock!Toggles(Lists, SUBSET Lists)
                      \cup AdBlock!Toggles(Domains, AdBlock!Overrides)
         /\ met.item = toggle[u].item /\ met.row = toggle[u].row
         /\ met.says = toggle[u].says /\ ~met.alone
BY DEF AdBlock!TypeOK, AdBlock!Toggles, AdBlock!Idle

-----------------------------------------------------------------------------
(***************************************************************************)
(* The steps of a toggle.                                                  *)
(***************************************************************************)
LEMMA RivalsShareTheRow ==
  ASSUME AdBlock!TypeOK, NEW item \in AdBlock!Items, NEW u \in Togglers,
         toggle[u] # AdBlock!Idle
  PROVE  u \in AdBlock!Rivals(item) <=> SameRow(toggle[u].item, item)
BY BusyToggle, PagesAssumption
   DEF AdBlock!Rivals, AdBlock!RowOf, AdBlock!Items, SameRow

LEMMA ReadsStep ==
  ASSUME AdBlockInv, NEW t \in Togglers, NEW item \in AdBlock!Items, NEW row,
         NEW says \in BOOLEAN, NEW whole \in BOOLEAN,
         AdBlock!Reads(t, item, row, says, whole),
         item \in Lists => row \in SUBSET Lists,
         item \notin Lists => row \in AdBlock!Overrides,
         Has(row, item, says),
         whole => \A i \in AdBlock!Items \ {item} :
           SameRow(i, item) /\ answered[i] # Unsaid => Has(row, i, answered[i])
  PROVE  AdBlockInv'
<1> DEFINE rivals == AdBlock!Rivals(item)
<1>1. PICK new : new = [item |-> item, row |-> row, says |-> says,
                        alone |-> (rivals = {}), whole |-> whole]
  OBVIOUS
<1>2. /\ new # AdBlock!Idle
      /\ new \in AdBlock!Toggles(Lists, SUBSET Lists)
                   \cup AdBlock!Toggles(Domains, AdBlock!Overrides)
      /\ new.item = item /\ new.row = row /\ new.says = says /\ new.whole = whole
      /\ new.alone <=> rivals = {}
  BY <1>1, NewToggle
<1>3. /\ toggle[t] = AdBlock!Idle
      /\ toggle' = [u \in Togglers |->
           IF u = t THEN new
           ELSE IF u \in rivals THEN [toggle[u] EXCEPT !.alone = FALSE] ELSE toggle[u]]
      /\ UNCHANGED <<disabled, overrides, answered>>
  BY <1>1 DEF AdBlock!Reads, AdBlock!rows
<1>4. ASSUME NEW u \in rivals \ {t}
      PROVE  /\ u \in Togglers /\ toggle[u] # AdBlock!Idle
             /\ toggle'[u] # AdBlock!Idle
             /\ toggle'[u] \in AdBlock!Toggles(Lists, SUBSET Lists)
                                 \cup AdBlock!Toggles(Domains, AdBlock!Overrides)
             /\ toggle'[u].item = toggle[u].item /\ toggle'[u].row = toggle[u].row
             /\ toggle'[u].says = toggle[u].says /\ ~toggle'[u].alone
  <2>1. u \in Togglers /\ toggle[u] # AdBlock!Idle /\ u # t
    BY DEF AdBlock!Rivals
  <2>2. toggle'[u] = [toggle[u] EXCEPT !.alone = FALSE]
    BY <1>3, <2>1
  <2> QED BY <2>1, <2>2, MetToggle DEF AdBlockInv
<1>5. AdBlock!TypeOK'
  <2>1. ASSUME NEW u \in Togglers
        PROVE  toggle'[u] \in {AdBlock!Idle} \cup AdBlock!Toggles(Lists, SUBSET Lists)
                                \cup AdBlock!Toggles(Domains, AdBlock!Overrides)
    BY <1>2, <1>3, <1>4 DEF AdBlockInv, AdBlock!TypeOK
  <2>2. DOMAIN toggle' = Togglers /\ toggle' = [u \in Togglers |-> toggle'[u]]
    BY <1>3
  <2> QED BY <1>3, <2>1, <2>2 DEF AdBlockInv, AdBlock!TypeOK
<1>6. Stick'
  BY <1>3 DEF AdBlockInv, Stick, Row
<1>7. ASSUME NEW u \in Togglers
      PROVE  Carries(u)'
  <2>1. CASE u = t
    <3>1. toggle'[u] = new
      BY <1>3, <2>1
    <3>2. ASSUME rivals = {}, NEW v \in Togglers \ {t}, toggle'[v] # AdBlock!Idle
          PROVE  ~SameRow(toggle'[v].item, item)
      BY <1>3, <3>2, RivalsShareTheRow DEF AdBlockInv
    <3> QED BY <1>2, <1>3, <2>1, <3>1, <3>2 DEF Carries
  <2>2. CASE u \in rivals \ {t}
    BY <1>4, <2>2 DEF AdBlockInv, Carries
  <2>3. CASE u \notin rivals \cup {t}
    <3>1. toggle'[u] = toggle[u]
      BY <1>3, <2>3
    <3>2. CASE toggle[u] = AdBlock!Idle
      BY <3>1, <3>2 DEF Carries
    <3>3. CASE toggle[u] # AdBlock!Idle
      <4>1. ~SameRow(toggle[u].item, item)
        BY <2>3, <3>3, RivalsShareTheRow DEF AdBlockInv
      <4>2. ASSUME NEW v \in Togglers \ {u}, toggle'[v] # AdBlock!Idle,
                   toggle[u].alone
            PROVE  ~SameRow(toggle'[v].item, toggle[u].item)
        <5>1. CASE v = t
          BY <1>2, <1>3, <4>1, <5>1 DEF SameRow
        <5>2. CASE v # t
          <6>1. toggle[v] # AdBlock!Idle /\ toggle'[v].item = toggle[v].item
            BY <1>3, <1>4, <4>2, <5>2
          <6> QED BY <3>3, <4>2, <6>1 DEF AdBlockInv, Carries
        <5> QED BY <5>1, <5>2
      <4> QED BY <1>3, <3>1, <3>3, <4>2 DEF AdBlockInv, Carries
    <3> QED BY <3>2, <3>3
  <2> QED BY <2>1, <2>2, <2>3
<1> QED BY <1>5, <1>6, <1>7 DEF AdBlockInv

LEMMA ToggleListStep ==
  ASSUME AdBlockInv, NEW t \in Togglers, NEW list \in Lists,
         AdBlock!adblockToggleList(t, list)
  PROVE  AdBlockInv'
<1>1. PICK whole \in BOOLEAN :
        LET read == IF whole THEN disabled ELSE {} IN
        AdBlock!Reads(t, list, IF list \in read THEN read \ {list} ELSE read \cup {list},
                      list \in read, whole)
  BY DEF AdBlock!adblockToggleList
<1>2. PICK read \in SUBSET Lists : read = (IF whole THEN disabled ELSE {})
  BY DEF AdBlockInv, AdBlock!TypeOK
<1>3. PICK row \in SUBSET Lists :
        row = (IF list \in read THEN read \ {list} ELSE read \cup {list})
  BY <1>2
<1>4. PICK says \in BOOLEAN : says <=> list \in read
  OBVIOUS
<1>5. AdBlock!Reads(t, list, row, says, whole)
  BY <1>1, <1>2, <1>3, <1>4
<1>6. Has(row, list, says)
  BY <1>2, <1>3, <1>4 DEF Has
<1>7. ASSUME whole, NEW i \in AdBlock!Items \ {list}, SameRow(i, list), answered[i] # Unsaid
      PROVE  Has(row, i, answered[i])
  BY <1>2, <1>3, <1>7 DEF SameRow, Has, AdBlockInv, Stick, Row
<1> QED BY <1>3, <1>5, <1>6, <1>7, ReadsStep DEF AdBlock!Items

LEMMA ToggleDomainStep ==
  ASSUME AdBlockInv, NEW t \in Togglers, NEW domain \in Domains,
         AdBlock!adblockToggleDomain(t, domain)
  PROVE  AdBlockInv'
<1> DEFINE Empty == [d \in {} |-> FALSE]
           Current(row) == IF domain \in DOMAIN row THEN row[domain] ELSE domain \in hosts
<1>1. PICK whole \in BOOLEAN :
        LET read == IF whole THEN overrides ELSE Empty IN
        AdBlock!Reads(t, domain, AdBlock!Overridden(read, domain, ~Current(read)),
                      ~Current(read), whole)
  BY DEF AdBlock!adblockToggleDomain
<1>2. Empty \in AdBlock!Overrides
  BY OverridesAre
<1>3. PICK read \in AdBlock!Overrides : read = (IF whole THEN overrides ELSE Empty)
  BY <1>2 DEF AdBlockInv, AdBlock!TypeOK
<1>4. PICK says \in BOOLEAN : says = ~Current(read)
  OBVIOUS
<1>5. PICK row \in AdBlock!Overrides :
        /\ row = AdBlock!Overridden(read, domain, says)
        /\ Has(row, domain, says)
        /\ \A d \in Domains \ {domain}, state \in BOOLEAN :
             Has(read, d, state) => Has(row, d, state)
  BY <1>3, <1>4, OverriddenHas
<1>6. AdBlock!Reads(t, domain, row, says, whole)
  BY <1>1, <1>3, <1>4, <1>5
<1>7. ASSUME whole, NEW i \in AdBlock!Items \ {domain}, SameRow(i, domain),
             answered[i] # Unsaid
      PROVE  Has(row, i, answered[i])
  <2>1. i \in Domains \ {domain} /\ i \notin Lists
    BY <1>7, PagesAssumption DEF AdBlock!Items, SameRow
  <2>2. answered[i] \in BOOLEAN
    BY <1>7 DEF AdBlockInv, AdBlock!TypeOK
  <2>3. Has(read, i, answered[i])
    BY <1>3, <1>7, <2>1 DEF AdBlockInv, Stick, Row
  <2> QED BY <1>5, <2>1, <2>2, <2>3
<1>8. domain \in AdBlock!Items /\ domain \notin Lists
  BY PagesAssumption DEF AdBlock!Items
<1> QED BY <1>5, <1>6, <1>7, <1>8, ReadsStep

LEMMA SaveStep ==
  ASSUME AdBlockInv, NEW t \in Togglers, AdBlock!Save(t)
  PROVE  AdBlockInv'
<1> DEFINE me == toggle[t]
           others == IF me.alone /\ me.whole THEN {} ELSE AdBlock!RowOf(me.item)
<1>1. /\ me # AdBlock!Idle
      /\ IF me.item \in Lists THEN disabled' = me.row /\ UNCHANGED overrides
         ELSE overrides' = me.row /\ UNCHANGED disabled
      /\ answered' = [i \in AdBlock!Items |->
           IF i = me.item THEN me.says ELSE IF i \in others THEN Unsaid ELSE answered[i]]
      /\ toggle' = [toggle EXCEPT ![t] = AdBlock!Idle]
  BY DEF AdBlock!Save
<1>2. /\ me.item \in AdBlock!Items /\ me.says \in BOOLEAN
      /\ me.item \in Lists => me.row \in SUBSET Lists
      /\ me.item \notin Lists => me.item \in Domains /\ me.row \in AdBlock!Overrides
  BY <1>1, BusyToggle DEF AdBlockInv
<1>3. AdBlock!TypeOK'
  BY <1>1, <1>2 DEF AdBlockInv, AdBlock!TypeOK
<1>4. ASSUME NEW i \in AdBlock!Items, answered'[i] # Unsaid
      PROVE  Has(Row(i)', i, answered'[i])
  <2>1. CASE i = me.item
    <3>1. Row(i)' = me.row
      BY <1>1, <2>1 DEF Row
    <3> QED BY <1>1, <1>2, <2>1, <3>1 DEF AdBlockInv, Carries
  <2>2. CASE i # me.item /\ SameRow(i, me.item)
    <3>1. i \in AdBlock!RowOf(me.item)
      BY <1>2, <2>2, PagesAssumption DEF AdBlock!RowOf, AdBlock!Items, SameRow
    <3>2. me.alone /\ me.whole /\ answered'[i] = answered[i] /\ answered[i] # Unsaid
      BY <1>1, <1>4, <2>2, <3>1
    <3>3. Row(i)' = me.row
      BY <1>1, <2>2 DEF Row, SameRow
    <3> QED BY <1>1, <2>2, <3>2, <3>3 DEF AdBlockInv, Carries
  <2>3. CASE ~SameRow(i, me.item)
    <3>1. i \notin others /\ i # me.item
      BY <1>2, <2>3, PagesAssumption DEF AdBlock!RowOf, AdBlock!Items, SameRow
    <3>2. answered'[i] = answered[i]
      BY <1>1, <3>1
    <3>3. Row(i)' = Row(i)
      BY <1>1, <2>3 DEF Row, SameRow
    <3> QED BY <1>4, <3>2, <3>3 DEF AdBlockInv, Stick
  <2> QED BY <2>1, <2>2, <2>3
<1>5. ASSUME NEW u \in Togglers
      PROVE  Carries(u)'
  <2>1. CASE u = t
    BY <1>1, <2>1 DEF AdBlockInv, AdBlock!TypeOK, Carries
  <2>2. CASE u # t /\ toggle[u] # AdBlock!Idle
    <3>1. toggle'[u] = toggle[u]
      BY <1>1, <2>2
    <3>2. toggle[u].alone => ~SameRow(me.item, toggle[u].item)
      BY <1>1, <2>2 DEF AdBlockInv, Carries
    <3>3. ASSUME NEW i \in AdBlock!Items, toggle[u].alone, SameRow(i, toggle[u].item)
          PROVE  answered'[i] = answered[i]
      <4>1. i \notin others /\ i # me.item
        BY <1>2, <3>2, <3>3, PagesAssumption DEF AdBlock!RowOf, AdBlock!Items, SameRow
      <4> QED BY <1>1, <4>1
    <3>4. \A v \in Togglers : toggle'[v] # AdBlock!Idle =>
            toggle[v] # AdBlock!Idle /\ toggle'[v] = toggle[v]
      BY <1>1 DEF AdBlockInv, AdBlock!TypeOK
    <3>5. Carries(u)
      BY DEF AdBlockInv
    <3> QED BY <2>2, <3>1, <3>3, <3>4, <3>5 DEF Carries
  <2>3. CASE u # t /\ toggle[u] = AdBlock!Idle
    BY <1>1, <2>3 DEF Carries
  <2> QED BY <2>1, <2>2, <2>3
<1> QED BY <1>3, <1>4, <1>5 DEF AdBlockInv, Stick

\* Toggles that end without a save take nothing back.
LEMMA EndStep ==
  ASSUME AdBlockInv, UNCHANGED <<disabled, overrides, answered>>,
         \/ \E t \in Togglers : toggle' = [toggle EXCEPT ![t] = AdBlock!Idle]
         \/ toggle' = [t \in Togglers |-> AdBlock!Idle]
         \/ UNCHANGED toggle
  PROVE  AdBlockInv'
<1>1. /\ toggle' = [t \in Togglers |-> toggle'[t]]
      /\ \A t \in Togglers : toggle'[t] # AdBlock!Idle => toggle'[t] = toggle[t]
  BY DEF AdBlockInv, AdBlock!TypeOK
<1>2. AdBlock!TypeOK'
  BY <1>1 DEF AdBlockInv, AdBlock!TypeOK
<1>3. Stick'
  BY DEF AdBlockInv, Stick, Row
<1>4. ASSUME NEW u \in Togglers
      PROVE  Carries(u)'
  <2>1. Carries(u)
    BY DEF AdBlockInv
  <2> QED BY <1>1, <2>1 DEF Carries
<1> QED BY <1>2, <1>3, <1>4 DEF AdBlockInv

-----------------------------------------------------------------------------
(***************************************************************************)
(* The theorems about both pages.                                          *)
(***************************************************************************)
\* What a busy toggle carries stays so through its own step, and those of others of its
\* row take the promise away; the network page, failures and restarts touch no row.
THEOREM AdBlockInductive ==
  /\ PagesInit => AdBlockInv
  /\ AdBlockInv /\ [Pages]_<<vars, adBlockVars>> => AdBlockInv'
<1>1. ASSUME PagesInit PROVE AdBlockInv
  <2>1. AdBlock!Init
    BY <1>1 DEF PagesInit
  <2>2. AdBlock!TypeOK
    BY <2>1, OverridesAre DEF AdBlock!Init, AdBlock!TypeOK
  <2>3. Stick /\ \A t \in Togglers : Carries(t)
    BY <2>1 DEF AdBlock!Init, Stick, Carries
  <2> QED BY <2>2, <2>3 DEF AdBlockInv
<1>2. ASSUME AdBlockInv, [Pages]_<<vars, adBlockVars>> PROVE AdBlockInv'
  <2>1. CASE AdBlock!Next
    <3>1. PICK t \in Togglers :
            \/ \E list \in Lists : AdBlock!adblockToggleList(t, list)
            \/ \E domain \in Domains : AdBlock!adblockToggleDomain(t, domain)
            \/ AdBlock!Save(t)
            \/ AdBlock!SaveFails(t)
      BY <2>1 DEF AdBlock!Next
    <3>2. CASE AdBlock!SaveFails(t)
      BY <1>2, <3>2, EndStep DEF AdBlock!SaveFails, AdBlock!rows
    <3> QED BY <1>2, <3>1, <3>2, ToggleListStep, ToggleDomainStep, SaveStep
  <2>2. CASE AdBlock!Cut
    BY <1>2, <2>2, EndStep DEF AdBlock!Cut, AdBlock!rows
  <2>3. CASE UNCHANGED adBlockVars
    BY <1>2, <2>3, EndStep DEF adBlockVars
  <2> QED BY <1>2, <2>1, <2>2, <2>3 DEF Pages
<1> QED BY <1>1, <1>2

\* The invariant of the AdBlock pages holds in every behaviour of both pages.
THEOREM AdBlockInvariance == PagesSpec => []AdBlockInv
BY AdBlockInductive, PTL DEF PagesSpec

\* The types of both pages.
THEOREM PagesTypeCorrect == PagesSpec => []PagesTypeOK
<1>1. AdBlockInv => AdBlock!TypeOK
  BY DEF AdBlockInv
<1> QED BY <1>1, AdBlockInvariance, PagesImplementNetworkPage, TypeCorrect, PTL
        DEF PagesTypeOK

\* What a toggle answered is what the page shows, whatever happens to /etc/hosts, to
\* saves and to the panel, for any number of toggles at once.
THEOREM TogglesAlwaysStick == PagesSpec => []TogglesStick
<1>1. AdBlockInv => TogglesStick
  <2> SUFFICES ASSUME AdBlockInv, NEW i \in AdBlock!Items, answered[i] # Unsaid
               PROVE  AdBlock!Shown(i) = answered[i]
    BY DEF TogglesStick, AdBlock!TogglesStick
  <2>1. Has(Row(i), i, answered[i])
    BY DEF AdBlockInv, Stick
  <2>2. answered[i] \in BOOLEAN
    BY DEF AdBlockInv, AdBlock!TypeOK
  <2> QED BY <2>1, <2>2 DEF Has, Row, AdBlock!Shown, AdBlock!Enabled, AdBlock!Blocked
<1> QED BY <1>1, AdBlockInvariance, PTL
=============================================================================
