-------------------------- MODULE DnsProxy_proofs --------------------------
(***************************************************************************)
(* Theorems of DnsProxy: its types; that enabling a proxy serves, when     *)
(* requests are apart; and that the way back to the name servers of before *)
(* is never lost and is the one taken, when they alternate as well.  For   *)
(* any handlers, networks and failing services.                            *)
(***************************************************************************)
EXTENDS DnsProxy, TLAPS

-----------------------------------------------------------------------------
(***************************************************************************)
(* The types.                                                              *)
(***************************************************************************)
\* The steps of enabling a proxy, up to the one that starts it, that enables it at boot,
\* that backs resolv.conf up and that makes it the machine's own; those of disabling.
Opening == {"configure", "freePort"}
Starting == Opening \cup {"start"}
Enabling == Starting \cup {"enable"}
BackingUp == Enabling \cup {"backup"}
Redirecting == BackingUp \cup {"write", "copy"}
Leaving == {"stop", "disable", "restore", "copyPublic"}
Redirected == {"redirected", "enabled"}
Restored == {"restored", "disabled"}
Serving == Redirecting \cup Leaving \cup Redirected \cup Restored

WorldTyped ==
  /\ resolv \in Contents
  /\ backup \in Contents \cup {None}
  /\ tmp \in Contents \cup {None}
  /\ blocky \subseteq Whole
  /\ configured \subseteq Proxies
  /\ resolved \in Networks \cup {None}
  /\ active \subseteq Services
  /\ boot \subseteq Services
  /\ memo \in Tables(Commands, {ok, error})
  /\ inUse \in Proxies \cup {None}
  /\ original \in Contents \cup {None}

\* Half a Blocky does not run, and only a started service has port 53.
RunsWhole ==
  /\ "blocky" \in active => CanStart("blocky")
  /\ server \in active \cup {None}

Typed ==
  /\ WorldTyped
  /\ pc \in [Handlers -> Labels]
  /\ proxy \in [Handlers -> Proxies \cup {None}]
  /\ \A h \in Handlers : pc[h] \in Serving => proxy[h] \in Proxies

-----------------------------------------------------------------------------
(***************************************************************************)
(* What is so when requests are apart.                                     *)
(***************************************************************************)
Alone == \A g, h \in Handlers : pc[g] # "idle" /\ pc[h] # "idle" => g = h

\* What a request has still to run is not answered from the memo.
Fresh(h) ==
  /\ pc[h] \in Opening => ~Known(memo, ServiceCommand("stop", "dnsmasq"))
  /\ pc[h] \in Starting => ~Known(memo, ServiceCommand("start", proxy[h]))
  /\ pc[h] \in Enabling => ~Known(memo, ServiceCommand("enable", proxy[h]))
  /\ pc[h] \in BackingUp \cup {"backupSetting"} => ~Known(memo, Command("backup"))
  /\ pc[h] \in Redirecting \cup Leaving => ~Known(memo, Command("copy"))
  /\ pc[h] \in Leaving \ {"copyPublic"} => ~Known(memo, Command("restore"))

\* What it has run, it has done.
Done(h) ==
  /\ pc[h] \in {"freePort", "copy"} => proxy[h] = "blocky"
  /\ pc[h] \in (Redirecting \ {"configure"}) \cup Redirected => proxy[h] \in configured
  /\ pc[h] \in (Redirecting \ Starting) \cup Redirected /\ proxy[h] = "blocky" =>
       "blocky" \in active
  /\ pc[h] \in (Redirecting \ Enabling) \cup Redirected => proxy[h] \in boot
  /\ pc[h] \in (Redirecting \ Opening) \cup Redirected /\ proxy[h] = "blocky" =>
       "dnsmasq" \notin active
  /\ pc[h] \in Redirecting => resolv = original
  /\ pc[h] = "copy" => tmp = Local
  /\ pc[h] = "copyPublic" => tmp = Public
  /\ pc[h] = "redirected" => resolv \in {Local, original}
  /\ pc[h] = "enabled" => resolv \in {Local, original, resolved}

AtStep(h) == Fresh(h) /\ Done(h)

-----------------------------------------------------------------------------
(***************************************************************************)
(* What is so of the way back when they alternate, too.                    *)
(***************************************************************************)
WayAt(h) ==
  /\ pc[h] \in Redirecting \cup Redirected \cup {"backupSetting", "copyPublic"} => inUse = None
  /\ pc[h] \in {"write", "copy"} \cup Redirected => backup = original /\ original # None
  /\ pc[h] \in Leaving \cup Restored => inUse \in {proxy[h], None}
  /\ pc[h] \in Restored => resolv # Local
  /\ pc[h] = "restored" /\ inUse # None => resolv = original
  /\ pc[h] = "disabled" /\ inUse # None => resolv \in {original, resolved}

Way ==
  /\ backup # Local
  /\ inUse # None => backup = original /\ original # None
  /\ resolv = Local => inUse # None \/ \E h \in Handlers : pc[h] \in Redirected

IInv ==
  /\ Typed
  /\ RunsWhole
  /\ Spaced => Alone /\ \A h \in Handlers : AtStep(h)
  /\ Spaced /\ Alternating => Way /\ \A h \in Handlers : WayAt(h)
-----------------------------------------------------------------------------
(***************************************************************************)
(* Lemmas about the executor and its commands.                             *)
(***************************************************************************)
LEMMA CommandsTyped ==
  /\ \A s \in Services, op \in {"start", "stop", "enable", "disable"} :
       ServiceCommand(op, s) \in Commands
  /\ \A op \in {"backup", "restore", "copy", "reload dnsmasq", "restart resolved"} :
       Command(op) \in Commands
BY DEF Commands, ServiceCommand, Command

LEMMA CommandsDiffer ==
  ASSUME NEW op, NEW s
  PROVE  ServiceCommand(op, s).op = op /\ Command(op).op = op
BY DEF ServiceCommand, Command

\* A command whose result is remembered, or will be, leaves what is known of the others.
Touches(c) ==
  /\ memo' \in Tables(Commands, {ok, error})
  /\ \A d \in Commands \ {c} : memo'[d] = memo[d]

LEMMA Consulted ==
  ASSUME memo \in Tables(Commands, {ok, error}), NEW c \in Commands,
         \/ Known(memo, c) /\ UNCHANGED memo
         \/ \E result \in {ok, error} : Ran(c, result)
  PROVE  Touches(c)
<1>1. CASE UNCHANGED memo
  BY <1>1 DEF Touches
<1>2. ASSUME NEW result \in {ok, error}, Ran(c, result)
      PROVE  Touches(c)
  <2>1. Remembered(result) \in [result : {ok, error}, left : 1..TTL]
    BY MemoAssumption DEF Remembered
  <2> QED BY <1>2, <2>1 DEF Ran, Tables, Touches
<1> QED BY <1>1, <1>2

LEMMA StartEffect ==
  ASSUME WorldTyped, RunsWhole, NEW s \in Services, NEW result \in {ok, error},
         Start(s, result)
  PROVE  /\ Touches(ServiceCommand("start", s))
         /\ UNCHANGED <<resolv, backup, tmp, blocky, configured, resolved, boot>>
         /\ active' \in {active, active \cup {s}} /\ active' \subseteq Services
         /\ RunsWhole'
         /\ ~Known(memo, ServiceCommand("start", s)) /\ result = ok => s \in active'
<1> DEFINE c == ServiceCommand("start", s)
<1>1. c \in Commands
  BY CommandsTyped
<1> HIDE DEF c
<1>2. \/ Answer(c, result)
      \/ /\ Ran(c, result)
         /\ \/ result = ok /\ (s \in active \/ CanStart(s)) /\ active' = active \cup {s}
            \/ result = error /\ UNCHANGED active
         /\ UNCHANGED <<server, boot, files, installation>>
  BY DEF Start, c
<1>3. Touches(c)
  BY <1>1, <1>2, Consulted DEF Answer, WorldTyped
<1>4. /\ UNCHANGED <<resolv, backup, tmp, blocky, configured, resolved, server, boot>>
      /\ \/ UNCHANGED active
         \/ (s \in active \/ CanStart(s)) /\ active' = active \cup {s}
      /\ ~Known(memo, c) /\ result = ok => s \in active'
  BY <1>2 DEF Answer, world, files, installation, services, ok, error
<1>5. RunsWhole'
  BY <1>4 DEF RunsWhole, CanStart
<1> QED BY <1>3, <1>4, <1>5 DEF c, WorldTyped

LEMMA StopEffect ==
  ASSUME WorldTyped, RunsWhole, NEW s \in Services, Stop(s)
  PROVE  /\ Touches(ServiceCommand("stop", s))
         /\ UNCHANGED <<resolv, backup, tmp, blocky, configured, resolved, boot>>
         /\ active' \in {active, active \ {s}} /\ active' \subseteq Services
         /\ RunsWhole'
         /\ ~Known(memo, ServiceCommand("stop", s)) => s \notin active'
<1> DEFINE c == ServiceCommand("stop", s)
<1>1. c \in Commands
  BY CommandsTyped
<1> HIDE DEF c
<1>2. \/ Answer(c, ok)
      \/ /\ Ran(c, ok) /\ active' = active \ {s} /\ server' = Released(s)
         /\ UNCHANGED <<boot, files, installation>>
  BY DEF Stop, c
<1>3. Touches(c)
  BY <1>1, <1>2, Consulted DEF Answer, WorldTyped
<1>4. /\ UNCHANGED <<resolv, backup, tmp, blocky, configured, resolved, boot>>
      /\ \/ UNCHANGED <<active, server>>
         \/ active' = active \ {s} /\ server' = Released(s)
      /\ ~Known(memo, c) => s \notin active'
  BY <1>2 DEF Answer, world, files, installation, services
<1>5. RunsWhole'
  BY <1>4 DEF RunsWhole, CanStart, Released
<1> QED BY <1>3, <1>4, <1>5 DEF c, WorldTyped

LEMMA BootEffect ==
  ASSUME WorldTyped, NEW s \in Services, NEW op \in {"enable", "disable"},
         NEW value \in SUBSET Services, SetBoot(op, s, value)
  PROVE  /\ Touches(ServiceCommand(op, s))
         /\ UNCHANGED <<resolv, backup, tmp, blocky, configured, resolved, active, server>>
         /\ boot' \subseteq Services
         /\ ~Known(memo, ServiceCommand(op, s)) => boot' = value
<1> DEFINE c == ServiceCommand(op, s)
<1>1. c \in Commands
  BY CommandsTyped
<1> HIDE DEF c
<1>2. \/ Answer(c, ok)
      \/ Ran(c, ok) /\ boot' = value /\ UNCHANGED <<active, server, files, installation>>
  BY DEF SetBoot, c
<1>3. Touches(c)
  BY <1>1, <1>2, Consulted DEF Answer, WorldTyped
<1> QED BY <1>2, <1>3 DEF c, WorldTyped, Answer, world, files, installation, services

LEMMA BackUpEffect ==
  ASSUME WorldTyped, BackUp
  PROVE  /\ Touches(Command("backup"))
         /\ UNCHANGED <<resolv, tmp, blocky, configured, resolved, active, server, boot>>
         /\ backup' \in {backup, resolv}
         /\ ~Known(memo, Command("backup")) => backup' = resolv
<1> DEFINE c == Command("backup")
<1>1. c \in Commands
  BY CommandsTyped
<1> HIDE DEF c
<1>2. \/ Answer(c, ok)
      \/ Ran(c, ok) /\ backup' = resolv /\ UNCHANGED <<resolv, tmp, installation, services>>
  BY DEF BackUp, c
<1>3. Touches(c)
  BY <1>1, <1>2, Consulted DEF Answer, WorldTyped
<1> QED BY <1>2, <1>3 DEF c, Answer, world, files, installation, services

LEMMA RestoreEffect ==
  ASSUME WorldTyped, Restore
  PROVE  /\ Touches(Command("restore"))
         /\ UNCHANGED <<backup, tmp, blocky, configured, resolved, active, server, boot>>
         /\ resolv' \in {resolv, backup}
         /\ ~Known(memo, Command("restore")) => resolv' = backup
<1> DEFINE c == Command("restore")
<1>1. c \in Commands
  BY CommandsTyped
<1> HIDE DEF c
<1>2. \/ Answer(c, ok)
      \/ Ran(c, ok) /\ resolv' = backup /\ UNCHANGED <<backup, tmp, installation, services>>
  BY DEF Restore, c
<1>3. Touches(c)
  BY <1>1, <1>2, Consulted DEF Answer, WorldTyped
<1> QED BY <1>2, <1>3 DEF c, Answer, world, files, installation, services

LEMMA CopyEffect ==
  ASSUME WorldTyped, CopyTmp
  PROVE  /\ Touches(Command("copy"))
         /\ UNCHANGED <<backup, blocky, configured, resolved, active, server, boot>>
         /\ tmp' = None
         /\ resolv' = resolv \/ (resolv' = tmp /\ tmp # None)
<1> DEFINE c == Command("copy")
<1>1. c \in Commands
  BY CommandsTyped
<1> HIDE DEF c
<1>2. /\ tmp' = None
      /\ \/ Known(memo, c) /\ UNCHANGED <<memo, resolv>>
         \/ tmp # None /\ Ran(c, ok) /\ resolv' = tmp
         \/ Ran(c, error) /\ UNCHANGED resolv
      /\ UNCHANGED <<backup, installation, services>>
  BY DEF CopyTmp, c
<1>3. Touches(c)
  BY <1>1, <1>2, Consulted DEF WorldTyped
<1> QED BY <1>2, <1>3 DEF c, installation, services

LEMMA SettledTyped ==
  ASSUME WorldTyped, NEW content \in Settled
  PROVE  content \in Contents /\ content \in {resolv, resolved}
BY DEF WorldTyped, Settled, Contents

LEMMA RestartResolvedEffect ==
  ASSUME WorldTyped, RestartResolved
  PROVE  /\ Touches(Command("restart resolved"))
         /\ UNCHANGED <<backup, tmp, blocky, configured, resolved, active, server, boot>>
         /\ resolv' \in Contents /\ resolv' \in {resolv, resolved}
<1> DEFINE c == Command("restart resolved")
<1>1. c \in Commands
  BY CommandsTyped
<1> HIDE DEF c
<1>2. \/ Answer(c, ok)
      \/ Ran(c, ok) /\ resolv' \in Settled /\ UNCHANGED <<backup, tmp, installation, services>>
  BY DEF RestartResolved, c
<1>3. Touches(c)
  BY <1>1, <1>2, Consulted DEF Answer, WorldTyped
<1>4. /\ UNCHANGED <<backup, tmp, blocky, configured, resolved, active, server, boot>>
      /\ UNCHANGED resolv \/ resolv' \in Settled
  BY <1>2 DEF Answer, world, files, installation, services
<1> QED BY <1>3, <1>4, SettledTyped DEF c, WorldTyped

LEMMA AgedTyped ==
  ASSUME memo \in Tables(Commands, {ok, error})
  PROVE  /\ Aged(memo) \in Tables(Commands, {ok, error})
         /\ \A c \in Commands : Known(Aged(memo), c) => Known(memo, c)
<1> SUFFICES ASSUME NEW c \in Commands
             PROVE  /\ Older(memo[c]) \in {Forgotten}
                                            \cup [result : {ok, error}, left : 1..TTL]
                    /\ Older(memo[c]).left > 0 => memo[c].left > 0
  <2>1. DOMAIN memo = Commands
    BY DEF Tables
  <2> QED BY <2>1 DEF Aged, Tables, Known
<1>1. CASE memo[c] = Forgotten
  BY <1>1 DEF Older, Forgotten
<1>2. CASE memo[c] \in [result : {ok, error}, left : 1..TTL]
  BY <1>2, MemoAssumption DEF Older, Forgotten
<1> QED BY <1>1, <1>2 DEF Tables

LEMMA NothingTyped ==
  NothingRemembered(Commands) \in Tables(Commands, {ok, error})
BY DEF NothingRemembered, Tables

-----------------------------------------------------------------------------
(***************************************************************************)
(* How a step of a request keeps the invariant.                            *)
(***************************************************************************)
Moves(h, label, p) ==
  /\ pc' \in [Handlers -> Labels] /\ proxy' \in [Handlers -> Proxies \cup {None}]
  /\ pc'[h] = label /\ proxy'[h] = p
  /\ \A g \in Handlers \ {h} : pc'[g] = pc[g] /\ proxy'[g] = proxy[g]

LEMMA IdleAtStep ==
  ASSUME NEW h \in Handlers, pc'[h] = "idle"
  PROVE  AtStep(h)' /\ WayAt(h)'
BY DEF AtStep, Fresh, Done, WayAt, Opening, Starting, Enabling, BackingUp, Redirecting,
       Leaving, Redirected, Restored

LEMMA StepMoves ==
  ASSUME IInv, NEW h \in Handlers, NEW label \in Labels, NEW p \in Proxies \cup {None},
         Moves(h, label, p), label \in Serving => p \in Proxies,
         WorldTyped', RunsWhole',
         Spaced => AtStep(h)' /\ \A g \in Handlers \ {h} : pc[g] = "idle",
         Spaced /\ Alternating => Way' /\ WayAt(h)'
  PROVE  IInv'
<1>1. Typed'
  BY DEF IInv, Typed, Moves
<1>2. ASSUME Spaced, NEW g \in Handlers
      PROVE  AtStep(g)' /\ (Alternating => WayAt(g)')
  BY <1>2, IdleAtStep DEF Moves
<1>3. Spaced => Alone'
  BY DEF Moves, Alone
<1> QED BY <1>1, <1>2, <1>3 DEF IInv

LEMMA Own ==
  ASSUME IInv, NEW h \in Handlers
  PROVE  /\ WorldTyped /\ RunsWhole /\ pc[h] \in Labels /\ proxy[h] \in Proxies \cup {None}
         /\ pc[h] \in Serving => proxy[h] \in Proxies /\ proxy[h] \in Services
         /\ Spaced => AtStep(h)
         /\ Spaced /\ Alternating => Way /\ WayAt(h)
BY DEF IInv, Typed, Services

\* A step that goes on with the proxy of the request.
LEMMA StepOn ==
  ASSUME IInv, NEW h \in Handlers, pc[h] # "idle", NEW label \in Labels,
         Goto(h, label), UNCHANGED proxy, label \in Serving => pc[h] \in Serving,
         WorldTyped', RunsWhole',
         Spaced /\ pc'[h] = label /\ proxy'[h] = proxy[h] => AtStep(h)',
         Spaced /\ Alternating /\ pc'[h] = label /\ proxy'[h] = proxy[h] =>
           Way' /\ WayAt(h)'
  PROVE  IInv'
<1>1. Moves(h, label, proxy[h])
  BY DEF IInv, Typed, Goto, Moves
<1>2. Spaced => \A g \in Handlers \ {h} : pc[g] = "idle"
  BY DEF IInv, Alone
<1>3. label \in Serving => proxy[h] \in Proxies
  BY Own
<1>4. proxy[h] \in Proxies \cup {None}
  BY Own
<1>5. Spaced => AtStep(h)'
  BY <1>1 DEF Moves
<1>6. Spaced /\ Alternating => Way' /\ WayAt(h)'
  BY <1>1 DEF Moves
<1> QED BY <1>1, <1>2, <1>3, <1>4, <1>5, <1>6, StepMoves

\* But for the answer to its enabling, the machine resolves names through a proxy in use.
LEMMA WayHere ==
  ASSUME IInv, NEW h \in Handlers, pc[h] \notin {"idle"} \cup Redirected, Spaced,
         Alternating
  PROVE  resolv = Local => inUse # None
BY DEF IInv, Way, Alone, Redirected

\* What is not remembered stays so while other commands run.
LEMMA StillFresh ==
  ASSUME NEW c, Touches(c)
  PROVE  /\ \A s \in Services, op \in {"start", "stop", "enable", "disable"} :
              op # c.op /\ ~Known(memo, ServiceCommand(op, s)) =>
                ~Known(memo', ServiceCommand(op, s))
         /\ \A op \in {"backup", "restore", "copy", "reload dnsmasq", "restart resolved"} :
              op # c.op /\ ~Known(memo, Command(op)) => ~Known(memo', Command(op))
<1>1. ASSUME NEW s \in Services, NEW op \in {"start", "stop", "enable", "disable"}, op # c.op
      PROVE  memo'[ServiceCommand(op, s)] = memo[ServiceCommand(op, s)]
  BY <1>1, CommandsTyped, CommandsDiffer DEF Touches
<1>2. ASSUME NEW op \in {"backup", "restore", "copy", "reload dnsmasq", "restart resolved"},
             op # c.op
      PROVE  memo'[Command(op)] = memo[Command(op)]
  BY <1>2, CommandsTyped, CommandsDiffer DEF Touches
<1> QED BY <1>1, <1>2 DEF Known

-----------------------------------------------------------------------------
(***************************************************************************)
(* Enabling a proxy.                                                       *)
(***************************************************************************)
LEMMA FreePortStep ==
  ASSUME IInv, NEW h \in Handlers, FreePort(h)
  PROVE  IInv'
<1>1. /\ pc[h] = "freePort" /\ WorldTyped /\ RunsWhole
      /\ proxy[h] \in Proxies \cup {None}
      /\ "freePort" \in Serving => proxy[h] \in Proxies /\ proxy[h] \in Services
      /\ Spaced => AtStep(h)
      /\ Spaced /\ Alternating => Way /\ WayAt(h) /\ (resolv = Local => inUse # None)
  BY Own, WayHere DEF Redirected, FreePort
<1>2. /\ Goto(h, "start")
      /\ Touches(ServiceCommand("stop", "dnsmasq"))
      /\ active' \in {active, active \ {"dnsmasq"}} /\ active' \subseteq Services
      /\ ~Known(memo, ServiceCommand("stop", "dnsmasq")) => "dnsmasq" \notin active'
      /\ RunsWhole'
      /\ UNCHANGED <<resolv, backup, tmp, blocky, configured, resolved, boot, proxy, inUse,
                     original>>
  BY <1>1, StopEffect DEF FreePort, history, Services
<1>3. WorldTyped'
  BY <1>1, <1>2 DEF WorldTyped, Touches
<1>4. "start" \in Labels /\ ("start" \in Serving => pc[h] \in Serving)
  BY <1>1, <1>2
  DEF Labels, Opening, Starting, Enabling, BackingUp, Redirecting, Leaving, Redirected,
      Restored, Serving
<1>5. ASSUME Spaced, pc'[h] = "start", proxy'[h] = proxy[h]
      PROVE  AtStep(h)'
  <2>1. Fresh(h)'
    BY <1>1, <1>2, <1>5, StillFresh, CommandsDiffer
    DEF AtStep, Fresh, Opening, Starting, Enabling, BackingUp, Redirecting, Leaving, Redirected,
        Restored, Serving
  <2>2. Done(h)'
    BY <1>1, <1>2, <1>5
    DEF AtStep, Done, Fresh, Opening, Starting, Enabling, BackingUp, Redirecting, Leaving,
        Redirected, Restored, Serving
  <2> QED BY <2>1, <2>2 DEF AtStep
<1>6. ASSUME Spaced, Alternating, pc'[h] = "start", proxy'[h] = proxy[h]
      PROVE  Way' /\ WayAt(h)'
  BY <1>1, <1>2, <1>6
  DEF Way, WayAt, Opening, Starting, Enabling, BackingUp, Redirecting, Leaving, Redirected,
      Restored, Serving
<1> QED BY <1>1, <1>2, <1>3, <1>4, <1>5, <1>6, StepOn
LEMMA ConfigureStep ==
  ASSUME IInv, NEW h \in Handlers, ConfigureByDefault(h)
  PROVE  IInv'
<1>1. /\ pc[h] = "configure" /\ WorldTyped /\ RunsWhole
      /\ proxy[h] \in Proxies \cup {None}
      /\ "configure" \in Serving => proxy[h] \in Proxies /\ proxy[h] \in Services
      /\ Spaced => AtStep(h)
      /\ Spaced /\ Alternating => Way /\ WayAt(h) /\ (resolv = Local => inUse # None)
  BY Own, WayHere DEF Redirected, ConfigureByDefault
<1>2. PICK label \in {"start", "freePort", "failed"} :
        /\ Goto(h, label)
        /\ configured' \subseteq Proxies /\ configured \subseteq configured'
        /\ label = "freePort" => proxy[h] = "blocky"
        /\ label = "start" => proxy[h] = "dnscrypt"
        /\ label # "failed" => proxy[h] \in configured'
        /\ RunsWhole'
        /\ UNCHANGED <<resolv, backup, tmp, blocky, resolved, active, server, boot, memo, proxy,
                       inUse, original>>
  <2>1. proxy[h] \in Proxies
    BY <1>1 DEF Opening, Starting, Enabling, BackingUp, Redirecting, Serving
  <2>2. FirstStep[proxy[h]] = IF proxy[h] = "blocky" THEN "freePort" ELSE "start"
    BY <2>1 DEF FirstStep, Proxies
  <2>3. /\ \/ configured' = configured \cup {proxy[h]} /\ Goto(h, FirstStep[proxy[h]])
           \/ UNCHANGED configured /\ Goto(h, "failed")
        /\ UNCHANGED <<resolv, backup, tmp, blocky, resolved, active, server, boot, memo, proxy,
                       inUse, original>>
    BY DEF ConfigureByDefault, history, files, services
  <2>4. RunsWhole'
    BY <1>1, <2>3 DEF RunsWhole, CanStart
  <2> QED BY <1>1, <2>1, <2>2, <2>3, <2>4 DEF Proxies, WorldTyped
<1>3. WorldTyped'
  BY <1>1, <1>2 DEF WorldTyped, Touches
<1>4. label \in Labels /\ (label \in Serving => pc[h] \in Serving)
  BY <1>1, <1>2
  DEF Labels, Opening, Starting, Enabling, BackingUp, Redirecting, Leaving, Redirected,
      Restored, Serving
<1>5. ASSUME Spaced, pc'[h] = label, proxy'[h] = proxy[h]
      PROVE  AtStep(h)'
  <2>1. Fresh(h)'
    BY <1>1, <1>2, <1>5
    DEF AtStep, Fresh, Opening, Starting, Enabling, BackingUp, Redirecting, Leaving, Redirected,
        Restored, Serving
  <2>2. Done(h)'
    BY <1>1, <1>2, <1>5
    DEF AtStep, Done, Fresh, Opening, Starting, Enabling, BackingUp, Redirecting, Leaving,
        Redirected, Restored, Serving
  <2> QED BY <2>1, <2>2 DEF AtStep
<1>6. ASSUME Spaced, Alternating, pc'[h] = label, proxy'[h] = proxy[h]
      PROVE  Way' /\ WayAt(h)'
  BY <1>1, <1>2, <1>6
  DEF Way, WayAt, Opening, Starting, Enabling, BackingUp, Redirecting, Leaving, Redirected,
      Restored, Serving
<1> QED BY <1>1, <1>2, <1>3, <1>4, <1>5, <1>6, StepOn

LEMMA StartProxyStep ==
  ASSUME IInv, NEW h \in Handlers, StartProxy(h)
  PROVE  IInv'
<1>1. /\ pc[h] = "start" /\ WorldTyped /\ RunsWhole
      /\ proxy[h] \in Proxies \cup {None}
      /\ "start" \in Serving => proxy[h] \in Proxies /\ proxy[h] \in Services
      /\ Spaced => AtStep(h)
      /\ Spaced /\ Alternating => Way /\ WayAt(h) /\ (resolv = Local => inUse # None)
  BY Own, WayHere DEF Redirected, StartProxy
<1>2. PICK label \in {"enable", "failed"} :
        /\ Goto(h, label)
        /\ Touches(ServiceCommand("start", proxy[h]))
        /\ active' \in {active, active \cup {proxy[h]}} /\ active' \subseteq Services
        /\ label = "enable" /\ ~Known(memo, ServiceCommand("start", proxy[h])) =>
             proxy[h] \in active'
        /\ RunsWhole'
        /\ UNCHANGED <<resolv, backup, tmp, blocky, configured, resolved, boot, proxy, inUse,
                       original>>
  BY <1>1, StartEffect
  DEF StartProxy, history, Opening, Starting, Enabling, BackingUp, Redirecting, Leaving,
      Redirected, Restored, Serving
<1>3. WorldTyped'
  BY <1>1, <1>2 DEF WorldTyped, Touches
<1>4. label \in Labels /\ (label \in Serving => pc[h] \in Serving)
  BY <1>1, <1>2
  DEF Labels, Opening, Starting, Enabling, BackingUp, Redirecting, Leaving, Redirected,
      Restored, Serving
<1>5. ASSUME Spaced, pc'[h] = label, proxy'[h] = proxy[h]
      PROVE  AtStep(h)'
  <2>1. Fresh(h)'
    BY <1>1, <1>2, <1>5, StillFresh, CommandsDiffer
    DEF AtStep, Fresh, Opening, Starting, Enabling, BackingUp, Redirecting, Leaving, Redirected,
        Restored, Serving
  <2>2. Done(h)'
    BY <1>1, <1>2, <1>5
    DEF AtStep, Done, Fresh, Opening, Starting, Enabling, BackingUp, Redirecting, Leaving,
        Redirected, Restored, Serving
  <2> QED BY <2>1, <2>2 DEF AtStep
<1>6. ASSUME Spaced, Alternating, pc'[h] = label, proxy'[h] = proxy[h]
      PROVE  Way' /\ WayAt(h)'
  BY <1>1, <1>2, <1>6
  DEF Way, WayAt, Opening, Starting, Enabling, BackingUp, Redirecting, Leaving, Redirected,
      Restored, Serving
<1> QED BY <1>1, <1>2, <1>3, <1>4, <1>5, <1>6, StepOn

LEMMA EnableAtBootStep ==
  ASSUME IInv, NEW h \in Handlers, EnableProxyAtBoot(h)
  PROVE  IInv'
<1>1. /\ pc[h] = "enable" /\ WorldTyped /\ RunsWhole
      /\ proxy[h] \in Proxies \cup {None}
      /\ "enable" \in Serving => proxy[h] \in Proxies /\ proxy[h] \in Services
      /\ Spaced => AtStep(h)
      /\ Spaced /\ Alternating => Way /\ WayAt(h) /\ (resolv = Local => inUse # None)
  BY Own, WayHere DEF Redirected, EnableProxyAtBoot
<1>2. /\ Goto(h, "backup")
      /\ Touches(ServiceCommand("enable", proxy[h])) /\ boot' \subseteq Services
      /\ ~Known(memo, ServiceCommand("enable", proxy[h])) => boot' = boot \cup {proxy[h]}
      /\ RunsWhole'
      /\ UNCHANGED <<resolv, backup, tmp, blocky, configured, resolved, active, server, proxy,
                     inUse, original>>
  BY <1>1, BootEffect
  DEF EnableProxyAtBoot, history, WorldTyped, RunsWhole, CanStart, Opening, Starting, Enabling,
      BackingUp, Redirecting, Leaving, Redirected, Restored, Serving
<1>3. WorldTyped'
  BY <1>1, <1>2 DEF WorldTyped, Touches
<1>4. "backup" \in Labels /\ ("backup" \in Serving => pc[h] \in Serving)
  BY <1>1, <1>2
  DEF Labels, Opening, Starting, Enabling, BackingUp, Redirecting, Leaving, Redirected,
      Restored, Serving
<1>5. ASSUME Spaced, pc'[h] = "backup", proxy'[h] = proxy[h]
      PROVE  AtStep(h)'
  <2>1. Fresh(h)'
    BY <1>1, <1>2, <1>5, StillFresh, CommandsDiffer
    DEF AtStep, Fresh, Opening, Starting, Enabling, BackingUp, Redirecting, Leaving, Redirected,
        Restored, Serving
  <2>2. Done(h)'
    BY <1>1, <1>2, <1>5
    DEF AtStep, Done, Fresh, Opening, Starting, Enabling, BackingUp, Redirecting, Leaving,
        Redirected, Restored, Serving
  <2> QED BY <2>1, <2>2 DEF AtStep
<1>6. ASSUME Spaced, Alternating, pc'[h] = "backup", proxy'[h] = proxy[h]
      PROVE  Way' /\ WayAt(h)'
  BY <1>1, <1>2, <1>6
  DEF Way, WayAt, Opening, Starting, Enabling, BackingUp, Redirecting, Leaving, Redirected,
      Restored, Serving
<1> QED BY <1>1, <1>2, <1>3, <1>4, <1>5, <1>6, StepOn

LEMMA BackUpStep ==
  ASSUME IInv, NEW h \in Handlers, BackUpResolv(h)
  PROVE  IInv'
<1>1. /\ pc[h] = "backup" /\ WorldTyped /\ RunsWhole
      /\ proxy[h] \in Proxies \cup {None}
      /\ "backup" \in Serving => proxy[h] \in Proxies /\ proxy[h] \in Services
      /\ Spaced => AtStep(h)
      /\ Spaced /\ Alternating => Way /\ WayAt(h) /\ (resolv = Local => inUse # None)
  BY Own, WayHere DEF Redirected, BackUpResolv
<1>2. /\ Goto(h, "write")
      /\ Touches(Command("backup")) /\ backup' \in {backup, resolv}
      /\ ~Known(memo, Command("backup")) => backup' = resolv
      /\ RunsWhole'
      /\ UNCHANGED <<resolv, tmp, blocky, configured, resolved, active, server, boot, proxy,
                     inUse, original>>
  BY <1>1, BackUpEffect DEF BackUpResolv, history, RunsWhole, CanStart
<1>3. WorldTyped'
  BY <1>1, <1>2 DEF WorldTyped, Touches
<1>4. "write" \in Labels /\ ("write" \in Serving => pc[h] \in Serving)
  BY <1>1, <1>2
  DEF Labels, Opening, Starting, Enabling, BackingUp, Redirecting, Leaving, Redirected,
      Restored, Serving
<1>5. ASSUME Spaced, pc'[h] = "write", proxy'[h] = proxy[h]
      PROVE  AtStep(h)'
  <2>1. Fresh(h)'
    BY <1>1, <1>2, <1>5, StillFresh, CommandsDiffer
    DEF AtStep, Fresh, Opening, Starting, Enabling, BackingUp, Redirecting, Leaving, Redirected,
        Restored, Serving
  <2>2. Done(h)'
    BY <1>1, <1>2, <1>5
    DEF AtStep, Done, Fresh, Opening, Starting, Enabling, BackingUp, Redirecting, Leaving,
        Redirected, Restored, Serving
  <2> QED BY <2>1, <2>2 DEF AtStep
<1>6. ASSUME Spaced, Alternating, pc'[h] = "write", proxy'[h] = proxy[h]
      PROVE  Way' /\ WayAt(h)'
  BY <1>1, <1>2, <1>6, DnsAssumption
  DEF Way, WayAt, AtStep, Fresh, Done, Contents, WorldTyped, Opening, Starting, Enabling, BackingUp,
      Redirecting, Leaving, Redirected, Restored, Serving
<1> QED BY <1>1, <1>2, <1>3, <1>4, <1>5, <1>6, StepOn

LEMMA WriteLocalStep ==
  ASSUME IInv, NEW h \in Handlers, WriteLocal(h)
  PROVE  IInv'
<1>1. /\ pc[h] = "write" /\ WorldTyped /\ RunsWhole
      /\ proxy[h] \in Proxies \cup {None}
      /\ "write" \in Serving => proxy[h] \in Proxies /\ proxy[h] \in Services
      /\ Spaced => AtStep(h)
      /\ Spaced /\ Alternating => Way /\ WayAt(h) /\ (resolv = Local => inUse # None)
  BY Own, WayHere DEF Redirected, WriteLocal
<1>2. PICK label \in {"redirected", "copy"} :
        /\ Goto(h, label)
        /\ label = "redirected" => resolv' \in {resolv, Local} /\ UNCHANGED tmp
        /\ label = "copy" => proxy[h] = "blocky" /\ tmp' = Local /\ UNCHANGED resolv
        /\ RunsWhole'
        /\ UNCHANGED <<backup, blocky, configured, resolved, active, server, boot, memo, proxy,
                       inUse, original>>
  BY <1>1 DEF WriteLocal, Write, history, installation, services, RunsWhole, CanStart
<1>3. WorldTyped'
  BY <1>1, <1>2 DEF WorldTyped, Touches, Contents
<1>4. label \in Labels /\ (label \in Serving => pc[h] \in Serving)
  BY <1>1, <1>2
  DEF Labels, Opening, Starting, Enabling, BackingUp, Redirecting, Leaving, Redirected,
      Restored, Serving
<1>5. ASSUME Spaced, pc'[h] = label, proxy'[h] = proxy[h]
      PROVE  AtStep(h)'
  <2>1. Fresh(h)'
    BY <1>1, <1>2, <1>5
    DEF AtStep, Fresh, Opening, Starting, Enabling, BackingUp, Redirecting, Leaving, Redirected,
        Restored, Serving
  <2>2. Done(h)'
    BY <1>1, <1>2, <1>5
    DEF AtStep, Done, Fresh, Opening, Starting, Enabling, BackingUp, Redirecting, Leaving,
        Redirected, Restored, Serving
  <2> QED BY <2>1, <2>2 DEF AtStep
<1>6. ASSUME Spaced, Alternating, pc'[h] = label, proxy'[h] = proxy[h]
      PROVE  Way' /\ WayAt(h)'
  BY <1>1, <1>2, <1>6
  DEF Way, WayAt, Opening, Starting, Enabling, BackingUp, Redirecting, Leaving, Redirected,
      Restored, Serving
<1> QED BY <1>1, <1>2, <1>3, <1>4, <1>5, <1>6, StepOn

LEMMA CopyLocalStep ==
  ASSUME IInv, NEW h \in Handlers, CopyLocal(h)
  PROVE  IInv'
<1>1. /\ pc[h] = "copy" /\ WorldTyped /\ RunsWhole
      /\ proxy[h] \in Proxies \cup {None}
      /\ "copy" \in Serving => proxy[h] \in Proxies /\ proxy[h] \in Services
      /\ Spaced => AtStep(h)
      /\ Spaced /\ Alternating => Way /\ WayAt(h) /\ (resolv = Local => inUse # None)
  BY Own, WayHere DEF Redirected, CopyLocal
<1>2. /\ Goto(h, "redirected")
      /\ Touches(Command("copy")) /\ tmp' = None
      /\ resolv' = resolv \/ (resolv' = tmp /\ tmp # None)
      /\ RunsWhole'
      /\ UNCHANGED <<backup, blocky, configured, resolved, active, server, boot, proxy, inUse,
                     original>>
  BY <1>1, CopyEffect DEF CopyLocal, history, RunsWhole, CanStart
<1>3. WorldTyped'
  BY <1>1, <1>2 DEF WorldTyped, Touches
<1>4. "redirected" \in Labels /\ ("redirected" \in Serving => pc[h] \in Serving)
  BY <1>1, <1>2
  DEF Labels, Opening, Starting, Enabling, BackingUp, Redirecting, Leaving, Redirected,
      Restored, Serving
<1>5. ASSUME Spaced, pc'[h] = "redirected", proxy'[h] = proxy[h]
      PROVE  AtStep(h)'
  <2>1. Fresh(h)'
    BY <1>1, <1>2, <1>5, StillFresh, CommandsDiffer
    DEF AtStep, Fresh, Opening, Starting, Enabling, BackingUp, Redirecting, Leaving, Redirected,
        Restored, Serving
  <2>2. Done(h)'
    BY <1>1, <1>2, <1>5, DnsAssumption
    DEF AtStep, Done, Fresh, Opening, Starting, Enabling, BackingUp, Redirecting, Leaving,
        Redirected, Restored, Serving
  <2> QED BY <2>1, <2>2 DEF AtStep
<1>6. ASSUME Spaced, Alternating, pc'[h] = "redirected", proxy'[h] = proxy[h]
      PROVE  Way' /\ WayAt(h)'
  BY <1>1, <1>2, <1>6
  DEF Way, WayAt, Opening, Starting, Enabling, BackingUp, Redirecting, Leaving, Redirected,
      Restored, Serving
<1> QED BY <1>1, <1>2, <1>3, <1>4, <1>5, <1>6, StepOn

-----------------------------------------------------------------------------
(***************************************************************************)
(* Disabling one, and the DNS setting.                                     *)
(***************************************************************************)
LEMMA StopProxyStep ==
  ASSUME IInv, NEW h \in Handlers, StopProxy(h)
  PROVE  IInv'
<1>1. /\ pc[h] = "stop" /\ WorldTyped /\ RunsWhole
      /\ proxy[h] \in Proxies \cup {None}
      /\ "stop" \in Serving => proxy[h] \in Proxies /\ proxy[h] \in Services
      /\ Spaced => AtStep(h)
      /\ Spaced /\ Alternating => Way /\ WayAt(h) /\ (resolv = Local => inUse # None)
  BY Own, WayHere DEF Redirected, StopProxy
<1>2. /\ Goto(h, "disable")
      /\ Touches(ServiceCommand("stop", proxy[h]))
      /\ active' \in {active, active \ {proxy[h]}} /\ active' \subseteq Services
      /\ RunsWhole'
      /\ UNCHANGED <<resolv, backup, tmp, blocky, configured, resolved, boot, proxy, inUse,
                     original>>
  BY <1>1, StopEffect
  DEF StopProxy, history, Opening, Starting, Enabling, BackingUp, Redirecting, Leaving,
      Redirected, Restored, Serving
<1>3. WorldTyped'
  BY <1>1, <1>2 DEF WorldTyped, Touches
<1>4. "disable" \in Labels /\ ("disable" \in Serving => pc[h] \in Serving)
  BY <1>1, <1>2
  DEF Labels, Opening, Starting, Enabling, BackingUp, Redirecting, Leaving, Redirected,
      Restored, Serving
<1>5. ASSUME Spaced, pc'[h] = "disable", proxy'[h] = proxy[h]
      PROVE  AtStep(h)'
  <2>1. Fresh(h)'
    BY <1>1, <1>2, <1>5, StillFresh, CommandsDiffer
    DEF AtStep, Fresh, Opening, Starting, Enabling, BackingUp, Redirecting, Leaving, Redirected,
        Restored, Serving
  <2>2. Done(h)'
    BY <1>1, <1>2, <1>5
    DEF AtStep, Done, Fresh, Opening, Starting, Enabling, BackingUp, Redirecting, Leaving,
        Redirected, Restored, Serving
  <2> QED BY <2>1, <2>2 DEF AtStep
<1>6. ASSUME Spaced, Alternating, pc'[h] = "disable", proxy'[h] = proxy[h]
      PROVE  Way' /\ WayAt(h)'
  BY <1>1, <1>2, <1>6
  DEF Way, WayAt, Opening, Starting, Enabling, BackingUp, Redirecting, Leaving, Redirected,
      Restored, Serving
<1> QED BY <1>1, <1>2, <1>3, <1>4, <1>5, <1>6, StepOn

LEMMA DisableAtBootStep ==
  ASSUME IInv, NEW h \in Handlers, DisableProxyAtBoot(h)
  PROVE  IInv'
<1>1. /\ pc[h] = "disable" /\ WorldTyped /\ RunsWhole
      /\ proxy[h] \in Proxies \cup {None}
      /\ "disable" \in Serving => proxy[h] \in Proxies /\ proxy[h] \in Services
      /\ Spaced => AtStep(h)
      /\ Spaced /\ Alternating => Way /\ WayAt(h) /\ (resolv = Local => inUse # None)
  BY Own, WayHere DEF Redirected, DisableProxyAtBoot
<1>2. /\ Goto(h, "restore")
      /\ Touches(ServiceCommand("disable", proxy[h])) /\ boot' \subseteq Services
      /\ RunsWhole'
      /\ UNCHANGED <<resolv, backup, tmp, blocky, configured, resolved, active, server, proxy,
                     inUse, original>>
  BY <1>1, BootEffect
  DEF DisableProxyAtBoot, history, WorldTyped, RunsWhole, CanStart, Opening, Starting, Enabling,
      BackingUp, Redirecting, Leaving, Redirected, Restored, Serving
<1>3. WorldTyped'
  BY <1>1, <1>2 DEF WorldTyped, Touches
<1>4. "restore" \in Labels /\ ("restore" \in Serving => pc[h] \in Serving)
  BY <1>1, <1>2
  DEF Labels, Opening, Starting, Enabling, BackingUp, Redirecting, Leaving, Redirected,
      Restored, Serving
<1>5. ASSUME Spaced, pc'[h] = "restore", proxy'[h] = proxy[h]
      PROVE  AtStep(h)'
  <2>1. Fresh(h)'
    BY <1>1, <1>2, <1>5, StillFresh, CommandsDiffer
    DEF AtStep, Fresh, Opening, Starting, Enabling, BackingUp, Redirecting, Leaving, Redirected,
        Restored, Serving
  <2>2. Done(h)'
    BY <1>1, <1>2, <1>5
    DEF AtStep, Done, Fresh, Opening, Starting, Enabling, BackingUp, Redirecting, Leaving,
        Redirected, Restored, Serving
  <2> QED BY <2>1, <2>2 DEF AtStep
<1>6. ASSUME Spaced, Alternating, pc'[h] = "restore", proxy'[h] = proxy[h]
      PROVE  Way' /\ WayAt(h)'
  BY <1>1, <1>2, <1>6
  DEF Way, WayAt, Opening, Starting, Enabling, BackingUp, Redirecting, Leaving, Redirected,
      Restored, Serving
<1> QED BY <1>1, <1>2, <1>3, <1>4, <1>5, <1>6, StepOn

LEMMA RestoreStep ==
  ASSUME IInv, NEW h \in Handlers, RestoreResolv(h)
  PROVE  IInv'
<1>1. /\ pc[h] = "restore" /\ WorldTyped /\ RunsWhole
      /\ proxy[h] \in Proxies \cup {None}
      /\ "restore" \in Serving => proxy[h] \in Proxies /\ proxy[h] \in Services
      /\ Spaced => AtStep(h)
      /\ Spaced /\ Alternating => Way /\ WayAt(h) /\ (resolv = Local => inUse # None)
  BY Own, WayHere DEF Redirected, RestoreResolv
<1>2. PICK label \in {"restored", "copyPublic"} :
        /\ Goto(h, label)
        /\ Touches(Command("restore")) /\ resolv' \in Contents /\ tmp' \in Contents \cup {None}
        /\ label = "restored" /\ backup = None => resolv' \in {resolv, Public}
        /\ label = "restored" /\ backup # None /\ ~Known(memo, Command("restore")) =>
             resolv' = backup
        /\ label = "copyPublic" => backup = None /\ tmp' = Public /\ UNCHANGED resolv
        /\ RunsWhole'
        /\ UNCHANGED <<backup, blocky, configured, resolved, active, server, boot, proxy, inUse,
                       original>>
  BY <1>1, RestoreEffect
  DEF RestoreResolv, Write, history, WorldTyped, Contents, installation, services, Touches,
      RunsWhole, CanStart, Opening, Starting, Enabling, BackingUp, Redirecting, Leaving,
      Redirected, Restored, Serving
<1>3. WorldTyped'
  BY <1>1, <1>2 DEF WorldTyped, Touches
<1>4. label \in Labels /\ (label \in Serving => pc[h] \in Serving)
  BY <1>1, <1>2
  DEF Labels, Opening, Starting, Enabling, BackingUp, Redirecting, Leaving, Redirected,
      Restored, Serving
<1>5. ASSUME Spaced, pc'[h] = label, proxy'[h] = proxy[h]
      PROVE  AtStep(h)'
  <2>1. Fresh(h)'
    BY <1>1, <1>2, <1>5, StillFresh, CommandsDiffer
    DEF AtStep, Fresh, Opening, Starting, Enabling, BackingUp, Redirecting, Leaving, Redirected,
        Restored, Serving
  <2>2. Done(h)'
    BY <1>1, <1>2, <1>5
    DEF AtStep, Done, Fresh, Opening, Starting, Enabling, BackingUp, Redirecting, Leaving,
        Redirected, Restored, Serving
  <2> QED BY <2>1, <2>2 DEF AtStep
<1>6. ASSUME Spaced, Alternating, pc'[h] = label, proxy'[h] = proxy[h]
      PROVE  Way' /\ WayAt(h)'
  BY <1>1, <1>2, <1>6, DnsAssumption
  DEF Way, WayAt, AtStep, Fresh, Opening, Starting, Enabling, BackingUp, Redirecting, Leaving,
      Redirected, Restored, Serving
<1> QED BY <1>1, <1>2, <1>3, <1>4, <1>5, <1>6, StepOn

LEMMA CopyPublicStep ==
  ASSUME IInv, NEW h \in Handlers, CopyPublic(h)
  PROVE  IInv'
<1>1. /\ pc[h] = "copyPublic" /\ WorldTyped /\ RunsWhole
      /\ proxy[h] \in Proxies \cup {None}
      /\ "copyPublic" \in Serving => proxy[h] \in Proxies /\ proxy[h] \in Services
      /\ Spaced => AtStep(h)
      /\ Spaced /\ Alternating => Way /\ WayAt(h) /\ (resolv = Local => inUse # None)
  BY Own, WayHere DEF Redirected, CopyPublic
<1>2. /\ Goto(h, "restored")
      /\ Touches(Command("copy")) /\ tmp' = None
      /\ resolv' = resolv \/ (resolv' = tmp /\ tmp # None)
      /\ RunsWhole'
      /\ UNCHANGED <<backup, blocky, configured, resolved, active, server, boot, proxy, inUse,
                     original>>
  BY <1>1, CopyEffect DEF CopyPublic, history, RunsWhole, CanStart
<1>3. WorldTyped'
  BY <1>1, <1>2 DEF WorldTyped, Touches
<1>4. "restored" \in Labels /\ ("restored" \in Serving => pc[h] \in Serving)
  BY <1>1, <1>2
  DEF Labels, Opening, Starting, Enabling, BackingUp, Redirecting, Leaving, Redirected,
      Restored, Serving
<1>5. ASSUME Spaced, pc'[h] = "restored", proxy'[h] = proxy[h]
      PROVE  AtStep(h)'
  <2>1. Fresh(h)'
    BY <1>1, <1>2, <1>5, StillFresh, CommandsDiffer
    DEF AtStep, Fresh, Opening, Starting, Enabling, BackingUp, Redirecting, Leaving, Redirected,
        Restored, Serving
  <2>2. Done(h)'
    BY <1>1, <1>2, <1>5
    DEF AtStep, Done, Fresh, Opening, Starting, Enabling, BackingUp, Redirecting, Leaving,
        Redirected, Restored, Serving
  <2> QED BY <2>1, <2>2 DEF AtStep
<1>6. ASSUME Spaced, Alternating, pc'[h] = "restored", proxy'[h] = proxy[h]
      PROVE  Way' /\ WayAt(h)'
  BY <1>1, <1>2, <1>6, DnsAssumption
  DEF Way, WayAt, AtStep, Fresh, Done, Opening, Starting, Enabling, BackingUp, Redirecting,
      Leaving, Redirected, Restored, Serving
<1> QED BY <1>1, <1>2, <1>3, <1>4, <1>5, <1>6, StepOn

LEMMA SettleStep ==
  ASSUME IInv, NEW h \in Handlers, Settle(h)
  PROVE  IInv'
<1>1. /\ WorldTyped /\ RunsWhole
      /\ proxy[h] \in Proxies \cup {None}
      /\ Spaced => AtStep(h)
      /\ Spaced /\ Alternating => Way /\ WayAt(h)
  BY Own DEF Settle
<1>2. PICK label \in {"enabled", "disabled"} :
        /\ Goto(h, label)
        /\ label = "enabled" => pc[h] = "redirected"
        /\ label = "disabled" => pc[h] = "restored"
        /\ Touches(Command("restart resolved"))
        /\ resolv' \in Contents /\ resolv' \in {resolv, resolved}
        /\ RunsWhole'
        /\ UNCHANGED <<backup, tmp, blocky, configured, resolved, active, server, boot, proxy,
                       inUse, original>>
  BY <1>1, RestartResolvedEffect DEF Settle, history, RunsWhole, CanStart
<1>3. WorldTyped'
  BY <1>1, <1>2 DEF WorldTyped, Touches
<1>4. label \in Labels /\ (label \in Serving => pc[h] \in Serving) /\ pc[h] # "idle"
  BY <1>2 DEF Labels, Redirected, Restored, Serving
<1>5. ASSUME Spaced, pc'[h] = label, proxy'[h] = proxy[h]
      PROVE  AtStep(h)'
  <2>1. Fresh(h)'
    BY <1>2, <1>5
    DEF Fresh, Opening, Starting, Enabling, BackingUp, Redirecting, Leaving, Redirected, Restored
  <2>2. Done(h)'
    BY <1>1, <1>2, <1>5
    DEF AtStep, Done, Opening, Starting, Enabling, BackingUp, Redirecting, Redirected
  <2> QED BY <2>1, <2>2 DEF AtStep
<1>6. ASSUME Spaced, Alternating, pc'[h] = label, proxy'[h] = proxy[h]
      PROVE  Way' /\ WayAt(h)'
  <2>1. resolved # Local
    BY <1>1, DnsAssumption DEF WorldTyped
  <2>2. resolv' = Local => \E g \in Handlers : pc'[g] \in Redirected
    BY <1>1, <1>2, <1>6, <2>1 DEF WayAt, Redirected, Restored
  <2>3. backup' # Local /\ (inUse' # None => backup' = original' /\ original' # None)
    BY <1>1, <1>2, <1>6 DEF Way
  <2>4. Way'
    BY <2>2, <2>3 DEF Way
  <2>5. WayAt(h)'
    BY <1>1, <1>2, <1>6, <2>1
    DEF WayAt, Opening, Starting, Enabling, BackingUp, Redirecting, Leaving, Redirected,
        Restored
  <2> QED BY <2>4, <2>5
<1> QED BY <1>1, <1>2, <1>3, <1>4, <1>5, <1>6, StepOn

LEMMA BackUpSettingStep ==
  ASSUME IInv, NEW h \in Handlers, BackUpSetting(h)
  PROVE  IInv'
<1>1. /\ pc[h] = "backupSetting" /\ WorldTyped /\ RunsWhole
      /\ proxy[h] \in Proxies \cup {None}
      /\ "backupSetting" \in Serving => proxy[h] \in Proxies /\ proxy[h] \in Services
      /\ Spaced => AtStep(h)
      /\ Spaced /\ Alternating => Way /\ WayAt(h) /\ (resolv = Local => inUse # None)
  BY Own, WayHere DEF Redirected, BackUpSetting
<1>2. /\ Goto(h, "writeSetting")
      /\ Touches(Command("backup")) /\ backup' \in {backup, resolv}
      /\ ~Known(memo, Command("backup")) => backup' = resolv
      /\ RunsWhole'
      /\ UNCHANGED <<resolv, tmp, blocky, configured, resolved, active, server, boot, proxy,
                     inUse, original>>
  BY <1>1, BackUpEffect DEF BackUpSetting, history, RunsWhole, CanStart
<1>3. WorldTyped'
  BY <1>1, <1>2 DEF WorldTyped, Touches
<1>4. "writeSetting" \in Labels /\ ("writeSetting" \in Serving => pc[h] \in Serving)
  BY <1>1, <1>2
  DEF Labels, Opening, Starting, Enabling, BackingUp, Redirecting, Leaving, Redirected,
      Restored, Serving
<1>5. ASSUME Spaced, pc'[h] = "writeSetting", proxy'[h] = proxy[h]
      PROVE  AtStep(h)'
  <2>1. Fresh(h)'
    BY <1>1, <1>2, <1>5, StillFresh, CommandsDiffer
    DEF AtStep, Fresh, Opening, Starting, Enabling, BackingUp, Redirecting, Leaving, Redirected,
        Restored, Serving
  <2>2. Done(h)'
    BY <1>1, <1>2, <1>5
    DEF AtStep, Done, Fresh, Opening, Starting, Enabling, BackingUp, Redirecting, Leaving,
        Redirected, Restored, Serving
  <2> QED BY <2>1, <2>2 DEF AtStep
<1>6. ASSUME Spaced, Alternating, pc'[h] = "writeSetting", proxy'[h] = proxy[h]
      PROVE  Way' /\ WayAt(h)'
  BY <1>1, <1>2, <1>6, DnsAssumption
  DEF Way, WayAt, AtStep, Fresh, Opening, Starting, Enabling, BackingUp, Redirecting, Leaving,
      Redirected, Restored, Serving
<1> QED BY <1>1, <1>2, <1>3, <1>4, <1>5, <1>6, StepOn

LEMMA WriteSettingStep ==
  ASSUME IInv, NEW h \in Handlers, WriteSetting(h)
  PROVE  IInv'
<1>1. /\ pc[h] = "writeSetting" /\ WorldTyped /\ RunsWhole
      /\ proxy[h] \in Proxies \cup {None}
      /\ "writeSetting" \in Serving => proxy[h] \in Proxies /\ proxy[h] \in Services
      /\ Spaced => AtStep(h)
      /\ Spaced /\ Alternating => Way /\ WayAt(h) /\ (resolv = Local => inUse # None)
  BY Own, WayHere DEF Redirected, WriteSetting
<1>2. /\ Goto(h, "idle")
      /\ resolv' \in Networks \cup {resolv}
      /\ RunsWhole'
      /\ UNCHANGED <<backup, tmp, blocky, configured, resolved, active, server, boot, memo,
                     proxy, inUse, original>>
  BY <1>1 DEF WriteSetting, history, installation, services, RunsWhole, CanStart
<1>3. WorldTyped'
  BY <1>1, <1>2 DEF WorldTyped, Touches, Contents
<1>4. "idle" \in Labels /\ ("idle" \in Serving => pc[h] \in Serving)
  BY <1>1, <1>2
  DEF Labels, Opening, Starting, Enabling, BackingUp, Redirecting, Leaving, Redirected,
      Restored, Serving
<1>5. ASSUME Spaced, pc'[h] = "idle", proxy'[h] = proxy[h]
      PROVE  AtStep(h)'
  <2>1. Fresh(h)'
    BY <1>1, <1>2, <1>5
    DEF AtStep, Fresh, Opening, Starting, Enabling, BackingUp, Redirecting, Leaving, Redirected,
        Restored, Serving
  <2>2. Done(h)'
    BY <1>1, <1>2, <1>5
    DEF AtStep, Done, Fresh, Opening, Starting, Enabling, BackingUp, Redirecting, Leaving,
        Redirected, Restored, Serving
  <2> QED BY <2>1, <2>2 DEF AtStep
<1>6. ASSUME Spaced, Alternating, pc'[h] = "idle", proxy'[h] = proxy[h]
      PROVE  Way' /\ WayAt(h)'
  BY <1>1, <1>2, <1>6, DnsAssumption
  DEF Way, WayAt, Opening, Starting, Enabling, BackingUp, Redirecting, Leaving, Redirected,
      Restored, Serving
<1> QED BY <1>1, <1>2, <1>3, <1>4, <1>5, <1>6, StepOn

-----------------------------------------------------------------------------
(***************************************************************************)
(* The installation of Blocky and the AdBlock switch.                      *)
(***************************************************************************)
LEMMA ExtractStep ==
  ASSUME IInv, NEW h \in Handlers, ExtractBlocky(h)
  PROVE  IInv'
<1>1. /\ pc[h] = "extract" /\ WorldTyped /\ RunsWhole
      /\ proxy[h] \in Proxies \cup {None}
      /\ "extract" \in Serving => proxy[h] \in Proxies /\ proxy[h] \in Services
      /\ Spaced => AtStep(h)
      /\ Spaced /\ Alternating => Way /\ WayAt(h) /\ (resolv = Local => inUse # None)
  BY Own, WayHere DEF Redirected, ExtractBlocky
<1>2. PICK label \in {"writeUnit", "idle"} :
        /\ Goto(h, label)
        /\ blocky' \subseteq Whole /\ blocky \subseteq blocky'
        /\ RunsWhole'
        /\ UNCHANGED <<resolv, backup, tmp, configured, resolved, active, server, boot, memo,
                       proxy, inUse, original>>
  BY <1>1 DEF ExtractBlocky, history, WorldTyped, Whole, files, services, RunsWhole, CanStart
<1>3. WorldTyped'
  BY <1>1, <1>2 DEF WorldTyped, Touches
<1>4. label \in Labels /\ (label \in Serving => pc[h] \in Serving)
  BY <1>1, <1>2
  DEF Labels, Opening, Starting, Enabling, BackingUp, Redirecting, Leaving, Redirected,
      Restored, Serving
<1>5. ASSUME Spaced, pc'[h] = label, proxy'[h] = proxy[h]
      PROVE  AtStep(h)'
  <2>1. Fresh(h)'
    BY <1>1, <1>2, <1>5
    DEF AtStep, Fresh, Opening, Starting, Enabling, BackingUp, Redirecting, Leaving, Redirected,
        Restored, Serving
  <2>2. Done(h)'
    BY <1>1, <1>2, <1>5
    DEF AtStep, Done, Fresh, Opening, Starting, Enabling, BackingUp, Redirecting, Leaving,
        Redirected, Restored, Serving
  <2> QED BY <2>1, <2>2 DEF AtStep
<1>6. ASSUME Spaced, Alternating, pc'[h] = label, proxy'[h] = proxy[h]
      PROVE  Way' /\ WayAt(h)'
  BY <1>1, <1>2, <1>6
  DEF Way, WayAt, Opening, Starting, Enabling, BackingUp, Redirecting, Leaving, Redirected,
      Restored, Serving
<1> QED BY <1>1, <1>2, <1>3, <1>4, <1>5, <1>6, StepOn

LEMMA WriteUnitStep ==
  ASSUME IInv, NEW h \in Handlers, WriteUnit(h)
  PROVE  IInv'
<1>1. /\ pc[h] = "writeUnit" /\ WorldTyped /\ RunsWhole
      /\ proxy[h] \in Proxies \cup {None}
      /\ "writeUnit" \in Serving => proxy[h] \in Proxies /\ proxy[h] \in Services
      /\ Spaced => AtStep(h)
      /\ Spaced /\ Alternating => Way /\ WayAt(h) /\ (resolv = Local => inUse # None)
  BY Own, WayHere DEF Redirected, WriteUnit
<1>2. PICK label \in {"bootBlocky", "idle"} :
        /\ Goto(h, label)
        /\ blocky' \subseteq Whole /\ blocky \subseteq blocky'
        /\ RunsWhole'
        /\ UNCHANGED <<resolv, backup, tmp, configured, resolved, active, server, boot, memo,
                       proxy, inUse, original>>
  BY <1>1 DEF WriteUnit, history, WorldTyped, Whole, files, services, RunsWhole, CanStart
<1>3. WorldTyped'
  BY <1>1, <1>2 DEF WorldTyped, Touches
<1>4. label \in Labels /\ (label \in Serving => pc[h] \in Serving)
  BY <1>1, <1>2
  DEF Labels, Opening, Starting, Enabling, BackingUp, Redirecting, Leaving, Redirected,
      Restored, Serving
<1>5. ASSUME Spaced, pc'[h] = label, proxy'[h] = proxy[h]
      PROVE  AtStep(h)'
  <2>1. Fresh(h)'
    BY <1>1, <1>2, <1>5
    DEF AtStep, Fresh, Opening, Starting, Enabling, BackingUp, Redirecting, Leaving, Redirected,
        Restored, Serving
  <2>2. Done(h)'
    BY <1>1, <1>2, <1>5
    DEF AtStep, Done, Fresh, Opening, Starting, Enabling, BackingUp, Redirecting, Leaving,
        Redirected, Restored, Serving
  <2> QED BY <2>1, <2>2 DEF AtStep
<1>6. ASSUME Spaced, Alternating, pc'[h] = label, proxy'[h] = proxy[h]
      PROVE  Way' /\ WayAt(h)'
  BY <1>1, <1>2, <1>6
  DEF Way, WayAt, Opening, Starting, Enabling, BackingUp, Redirecting, Leaving, Redirected,
      Restored, Serving
<1> QED BY <1>1, <1>2, <1>3, <1>4, <1>5, <1>6, StepOn

LEMMA BootBlockyStep ==
  ASSUME IInv, NEW h \in Handlers, BootBlocky(h)
  PROVE  IInv'
<1>1. /\ pc[h] = "bootBlocky" /\ WorldTyped /\ RunsWhole
      /\ proxy[h] \in Proxies \cup {None}
      /\ "bootBlocky" \in Serving => proxy[h] \in Proxies /\ proxy[h] \in Services
      /\ Spaced => AtStep(h)
      /\ Spaced /\ Alternating => Way /\ WayAt(h) /\ (resolv = Local => inUse # None)
  BY Own, WayHere DEF Redirected, BootBlocky
<1>2. /\ Goto(h, "idle")
      /\ Touches(ServiceCommand("enable", "blocky")) /\ boot' \subseteq Services
      /\ RunsWhole'
      /\ UNCHANGED <<resolv, backup, tmp, blocky, configured, resolved, active, server, proxy,
                     inUse, original>>
  BY <1>1, BootEffect
  DEF BootBlocky, history, WorldTyped, Services, Proxies, RunsWhole, CanStart
<1>3. WorldTyped'
  BY <1>1, <1>2 DEF WorldTyped, Touches
<1>4. "idle" \in Labels /\ ("idle" \in Serving => pc[h] \in Serving)
  BY <1>1, <1>2
  DEF Labels, Opening, Starting, Enabling, BackingUp, Redirecting, Leaving, Redirected,
      Restored, Serving
<1>5. ASSUME Spaced, pc'[h] = "idle", proxy'[h] = proxy[h]
      PROVE  AtStep(h)'
  <2>1. Fresh(h)'
    BY <1>1, <1>2, <1>5, StillFresh, CommandsDiffer
    DEF AtStep, Fresh, Opening, Starting, Enabling, BackingUp, Redirecting, Leaving, Redirected,
        Restored, Serving
  <2>2. Done(h)'
    BY <1>1, <1>2, <1>5
    DEF AtStep, Done, Fresh, Opening, Starting, Enabling, BackingUp, Redirecting, Leaving,
        Redirected, Restored, Serving
  <2> QED BY <2>1, <2>2 DEF AtStep
<1>6. ASSUME Spaced, Alternating, pc'[h] = "idle", proxy'[h] = proxy[h]
      PROVE  Way' /\ WayAt(h)'
  BY <1>1, <1>2, <1>6
  DEF Way, WayAt, Opening, Starting, Enabling, BackingUp, Redirecting, Leaving, Redirected,
      Restored, Serving
<1> QED BY <1>1, <1>2, <1>3, <1>4, <1>5, <1>6, StepOn

LEMMA StartDnsmasqStep ==
  ASSUME IInv, NEW h \in Handlers, StartDnsmasq(h)
  PROVE  IInv'
<1>1. /\ pc[h] = "startDnsmasq" /\ WorldTyped /\ RunsWhole
      /\ proxy[h] \in Proxies \cup {None}
      /\ "startDnsmasq" \in Serving => proxy[h] \in Proxies /\ proxy[h] \in Services
      /\ Spaced => AtStep(h)
      /\ Spaced /\ Alternating => Way /\ WayAt(h) /\ (resolv = Local => inUse # None)
  BY Own, WayHere DEF Redirected, StartDnsmasq
<1>2. PICK label \in {"idle", "startPihole"} :
        /\ Goto(h, label)
        /\ active' \subseteq Services
        /\ Touches(ServiceCommand("start", "dnsmasq"))
        /\ RunsWhole'
        /\ UNCHANGED <<resolv, backup, tmp, blocky, configured, resolved, boot, proxy, inUse,
                       original>>
  BY <1>1, StartEffect DEF StartDnsmasq, history, Services
<1>3. WorldTyped'
  BY <1>1, <1>2 DEF WorldTyped, Touches
<1>4. label \in Labels /\ (label \in Serving => pc[h] \in Serving)
  BY <1>1, <1>2
  DEF Labels, Opening, Starting, Enabling, BackingUp, Redirecting, Leaving, Redirected,
      Restored, Serving
<1>5. ASSUME Spaced, pc'[h] = label, proxy'[h] = proxy[h]
      PROVE  AtStep(h)'
  <2>1. Fresh(h)'
    BY <1>1, <1>2, <1>5, StillFresh, CommandsDiffer
    DEF AtStep, Fresh, Opening, Starting, Enabling, BackingUp, Redirecting, Leaving, Redirected,
        Restored, Serving
  <2>2. Done(h)'
    BY <1>1, <1>2, <1>5
    DEF AtStep, Done, Fresh, Opening, Starting, Enabling, BackingUp, Redirecting, Leaving,
        Redirected, Restored, Serving
  <2> QED BY <2>1, <2>2 DEF AtStep
<1>6. ASSUME Spaced, Alternating, pc'[h] = label, proxy'[h] = proxy[h]
      PROVE  Way' /\ WayAt(h)'
  BY <1>1, <1>2, <1>6
  DEF Way, WayAt, Opening, Starting, Enabling, BackingUp, Redirecting, Leaving, Redirected,
      Restored, Serving
<1> QED BY <1>1, <1>2, <1>3, <1>4, <1>5, <1>6, StepOn

LEMMA StartPiholeStep ==
  ASSUME IInv, NEW h \in Handlers, StartPihole(h)
  PROVE  IInv'
<1>1. /\ pc[h] = "startPihole" /\ WorldTyped /\ RunsWhole
      /\ proxy[h] \in Proxies \cup {None}
      /\ "startPihole" \in Serving => proxy[h] \in Proxies /\ proxy[h] \in Services
      /\ Spaced => AtStep(h)
      /\ Spaced /\ Alternating => Way /\ WayAt(h) /\ (resolv = Local => inUse # None)
  BY Own, WayHere DEF Redirected, StartPihole
<1>2. /\ Goto(h, "idle")
      /\ active' \subseteq Services
      /\ Touches(ServiceCommand("start", "pihole"))
      /\ RunsWhole'
      /\ UNCHANGED <<resolv, backup, tmp, blocky, configured, resolved, boot, proxy, inUse,
                     original>>
  BY <1>1, StartEffect DEF StartPihole, history, Services
<1>3. WorldTyped'
  BY <1>1, <1>2 DEF WorldTyped, Touches
<1>4. "idle" \in Labels /\ ("idle" \in Serving => pc[h] \in Serving)
  BY <1>1, <1>2
  DEF Labels, Opening, Starting, Enabling, BackingUp, Redirecting, Leaving, Redirected,
      Restored, Serving
<1>5. ASSUME Spaced, pc'[h] = "idle", proxy'[h] = proxy[h]
      PROVE  AtStep(h)'
  <2>1. Fresh(h)'
    BY <1>1, <1>2, <1>5, StillFresh, CommandsDiffer
    DEF AtStep, Fresh, Opening, Starting, Enabling, BackingUp, Redirecting, Leaving, Redirected,
        Restored, Serving
  <2>2. Done(h)'
    BY <1>1, <1>2, <1>5
    DEF AtStep, Done, Fresh, Opening, Starting, Enabling, BackingUp, Redirecting, Leaving,
        Redirected, Restored, Serving
  <2> QED BY <2>1, <2>2 DEF AtStep
<1>6. ASSUME Spaced, Alternating, pc'[h] = "idle", proxy'[h] = proxy[h]
      PROVE  Way' /\ WayAt(h)'
  BY <1>1, <1>2, <1>6
  DEF Way, WayAt, Opening, Starting, Enabling, BackingUp, Redirecting, Leaving, Redirected,
      Restored, Serving
<1> QED BY <1>1, <1>2, <1>3, <1>4, <1>5, <1>6, StepOn

LEMMA StopDnsmasqStep ==
  ASSUME IInv, NEW h \in Handlers, StopDnsmasq(h)
  PROVE  IInv'
<1>1. /\ pc[h] = "stopDnsmasq" /\ WorldTyped /\ RunsWhole
      /\ proxy[h] \in Proxies \cup {None}
      /\ "stopDnsmasq" \in Serving => proxy[h] \in Proxies /\ proxy[h] \in Services
      /\ Spaced => AtStep(h)
      /\ Spaced /\ Alternating => Way /\ WayAt(h) /\ (resolv = Local => inUse # None)
  BY Own, WayHere DEF Redirected, StopDnsmasq
<1>2. /\ Goto(h, "stopBlocky")
      /\ active' \subseteq Services
      /\ Touches(ServiceCommand("stop", "dnsmasq"))
      /\ RunsWhole'
      /\ UNCHANGED <<resolv, backup, tmp, blocky, configured, resolved, boot, proxy, inUse,
                     original>>
  BY <1>1, StopEffect DEF StopDnsmasq, history, Services
<1>3. WorldTyped'
  BY <1>1, <1>2 DEF WorldTyped, Touches
<1>4. "stopBlocky" \in Labels /\ ("stopBlocky" \in Serving => pc[h] \in Serving)
  BY <1>1, <1>2
  DEF Labels, Opening, Starting, Enabling, BackingUp, Redirecting, Leaving, Redirected,
      Restored, Serving
<1>5. ASSUME Spaced, pc'[h] = "stopBlocky", proxy'[h] = proxy[h]
      PROVE  AtStep(h)'
  <2>1. Fresh(h)'
    BY <1>1, <1>2, <1>5, StillFresh, CommandsDiffer
    DEF AtStep, Fresh, Opening, Starting, Enabling, BackingUp, Redirecting, Leaving, Redirected,
        Restored, Serving
  <2>2. Done(h)'
    BY <1>1, <1>2, <1>5
    DEF AtStep, Done, Fresh, Opening, Starting, Enabling, BackingUp, Redirecting, Leaving,
        Redirected, Restored, Serving
  <2> QED BY <2>1, <2>2 DEF AtStep
<1>6. ASSUME Spaced, Alternating, pc'[h] = "stopBlocky", proxy'[h] = proxy[h]
      PROVE  Way' /\ WayAt(h)'
  BY <1>1, <1>2, <1>6
  DEF Way, WayAt, Opening, Starting, Enabling, BackingUp, Redirecting, Leaving, Redirected,
      Restored, Serving
<1> QED BY <1>1, <1>2, <1>3, <1>4, <1>5, <1>6, StepOn

LEMMA StopBlockyStep ==
  ASSUME IInv, NEW h \in Handlers, StopBlocky(h)
  PROVE  IInv'
<1>1. /\ pc[h] = "stopBlocky" /\ WorldTyped /\ RunsWhole
      /\ proxy[h] \in Proxies \cup {None}
      /\ "stopBlocky" \in Serving => proxy[h] \in Proxies /\ proxy[h] \in Services
      /\ Spaced => AtStep(h)
      /\ Spaced /\ Alternating => Way /\ WayAt(h) /\ (resolv = Local => inUse # None)
  BY Own, WayHere DEF Redirected, StopBlocky
<1>2. /\ Goto(h, "idle")
      /\ active' \subseteq Services
      /\ Touches(ServiceCommand("stop", "blocky"))
      /\ RunsWhole'
      /\ UNCHANGED <<resolv, backup, tmp, blocky, configured, resolved, boot, proxy, inUse,
                     original>>
  BY <1>1, StopEffect DEF StopBlocky, history, Services, Proxies
<1>3. WorldTyped'
  BY <1>1, <1>2 DEF WorldTyped, Touches
<1>4. "idle" \in Labels /\ ("idle" \in Serving => pc[h] \in Serving)
  BY <1>1, <1>2
  DEF Labels, Opening, Starting, Enabling, BackingUp, Redirecting, Leaving, Redirected,
      Restored, Serving
<1>5. ASSUME Spaced, pc'[h] = "idle", proxy'[h] = proxy[h]
      PROVE  AtStep(h)'
  <2>1. Fresh(h)'
    BY <1>1, <1>2, <1>5, StillFresh, CommandsDiffer
    DEF AtStep, Fresh, Opening, Starting, Enabling, BackingUp, Redirecting, Leaving, Redirected,
        Restored, Serving
  <2>2. Done(h)'
    BY <1>1, <1>2, <1>5
    DEF AtStep, Done, Fresh, Opening, Starting, Enabling, BackingUp, Redirecting, Leaving,
        Redirected, Restored, Serving
  <2> QED BY <2>1, <2>2 DEF AtStep
<1>6. ASSUME Spaced, Alternating, pc'[h] = "idle", proxy'[h] = proxy[h]
      PROVE  Way' /\ WayAt(h)'
  BY <1>1, <1>2, <1>6
  DEF Way, WayAt, Opening, Starting, Enabling, BackingUp, Redirecting, Leaving, Redirected,
      Restored, Serving
<1> QED BY <1>1, <1>2, <1>3, <1>4, <1>5, <1>6, StepOn
-----------------------------------------------------------------------------
(***************************************************************************)
(* Requests begin, at once or not, and end; time and reboots.              *)
(***************************************************************************)
LEMMA BeginsQuiet ==
  ASSUME IInv, NEW h \in Handlers, Begins(h)
  PROVE  /\ Typed /\ WorldTyped /\ RunsWhole /\ pc[h] = "idle"
         /\ proxy[h] \in Proxies \cup {None}
         /\ Spaced => /\ \A g \in Handlers : pc[g] = "idle"
                      /\ \A c \in Commands : ~Known(memo, c)
         /\ Spaced /\ Alternating => Way /\ (resolv = Local => inUse # None)
BY DEF IInv, Typed, Begins, Quiet, Way, Redirected

\* A request that begins, at a step that needs no proxy or with its proxy.
LEMMA BeginStep ==
  ASSUME IInv, NEW h \in Handlers, Begins(h), NEW label \in Labels,
         NEW p \in Proxies \cup {None}, Goto(h, label), proxy' = [proxy EXCEPT ![h] = p],
         UNCHANGED <<resolv, backup, tmp, blocky, configured, resolved, active, server, boot,
                     memo, inUse>>,
         \/ UNCHANGED original /\ label \notin Serving
         \/ UNCHANGED original /\ label = "stop" /\ (Alternating => inUse \in {p, None})
         \/ /\ original' = resolv /\ label \in {"configure", "start", "freePort"}
            /\ Alternating => inUse = None
            /\ label # "configure" => p \in configured
            /\ label = "freePort" <=> label # "configure" /\ p = "blocky",
         label \in Serving => p \in Proxies,
         Alternating /\ label = "backupSetting" => inUse = None
  PROVE  IInv'
<1>1. /\ Typed /\ WorldTyped /\ RunsWhole
      /\ Spaced => /\ \A g \in Handlers : pc[g] = "idle"
                   /\ \A c \in Commands : ~Known(memo, c)
      /\ Spaced /\ Alternating => Way /\ (resolv = Local => inUse # None)
  BY BeginsQuiet
<1>2. Moves(h, label, p)
  BY <1>1 DEF Typed, Goto, Moves
<1>3. WorldTyped' /\ RunsWhole'
  BY <1>1 DEF WorldTyped, RunsWhole, CanStart
<1>4. ASSUME Spaced
      PROVE  AtStep(h)'
  <2>1. label # "enabled" /\ label \notin {"write", "copy", "copyPublic", "backup", "enable"}
    BY
    DEF Opening, Starting, Enabling, BackingUp, Redirecting, Leaving, Redirected, Restored,
        Serving
  <2>2. Fresh(h)'
    <3>1. \A s \in Services, op \in {"start", "stop", "enable", "disable"} :
            ~Known(memo', ServiceCommand(op, s))
      BY <1>1, <1>4, CommandsTyped DEF Known
    <3>2. \A op \in {"backup", "restore", "copy"} : ~Known(memo', Command(op))
      BY <1>1, <1>4, CommandsTyped DEF Known
    <3>3. "dnsmasq" \in Services /\ (p \in Proxies => p \in Services)
      BY DEF Services
    <3> QED BY <1>2, <3>1, <3>2, <3>3
      DEF Fresh, Moves, Opening, Starting, Enabling, BackingUp, Redirecting, Leaving,
          Redirected, Restored, Serving
  <2>3. Done(h)'
    BY <1>2, <2>1
    DEF Done, Moves, Opening, Starting, Enabling, BackingUp, Redirecting, Leaving, Redirected,
        Restored, Serving
  <2> QED BY <2>2, <2>3 DEF AtStep
<1>5. ASSUME Spaced, Alternating
      PROVE  Way' /\ WayAt(h)'
  BY <1>1, <1>2, <1>5
  DEF Way, WayAt, Moves, Opening, Starting, Enabling, BackingUp, Redirecting, Leaving,
      Redirected, Restored, Serving
<1> QED BY <1>1, <1>2, <1>3, <1>4, <1>5, StepMoves
\* Those that need no proxy keep that of the handler, none.
LEMMA BeginPlain ==
  ASSUME IInv, NEW h \in Handlers, Begins(h),
         NEW label \in {"extract", "startDnsmasq", "stopDnsmasq", "backupSetting"},
         Goto(h, label), UNCHANGED <<world, memo, proxy, history>>,
         Alternating /\ label = "backupSetting" => inUse = None
  PROVE  IInv'
<1>1. proxy' = [proxy EXCEPT ![h] = proxy[h]] /\ proxy[h] \in Proxies \cup {None}
  BY BeginsQuiet DEF Typed
<1>2. label \in Labels /\ label \notin Serving
  BY
  DEF Labels, Opening, Starting, Enabling, BackingUp, Redirecting, Leaving, Redirected,
      Restored, Serving
<1>3. UNCHANGED <<resolv, backup, tmp, blocky, configured, resolved, active, server, boot, memo,
                  inUse, original>>
  BY DEF world, files, installation, services, history
<1> QED BY <1>1, <1>2, <1>3, BeginStep

LEMMA EnableStep ==
  ASSUME IInv, NEW h \in Handlers, NEW p \in Proxies, enableProxy(h, p)
  PROVE  IInv'
<1> DEFINE label == IF p \in configured THEN FirstStep[p] ELSE "configure"
<1>1. /\ label \in {"configure", "start", "freePort"}
      /\ label # "configure" => p \in configured
      /\ label = "freePort" <=> label # "configure" /\ p = "blocky"
  BY DEF FirstStep, Proxies
<1>2. Goto(h, label)
  BY DEF enableProxy
<1> HIDE DEF label
<1>3. label \in Labels
  BY <1>1 DEF Labels
<1>4. /\ Begins(h) /\ proxy' = [proxy EXCEPT ![h] = p] /\ original' = resolv
      /\ Alternating => inUse = None
      /\ UNCHANGED <<resolv, backup, tmp, blocky, configured, resolved, active, server, boot,
                     memo, inUse>>
  BY DEF enableProxy, world, files, installation, services
<1> QED BY <1>1, <1>2, <1>3, <1>4, BeginStep

LEMMA DisableStep ==
  ASSUME IInv, NEW h \in Handlers, NEW p \in Proxies, disableProxy(h, p)
  PROVE  IInv'
<1>1. /\ Begins(h) /\ proxy' = [proxy EXCEPT ![h] = p] /\ Goto(h, "stop")
      /\ Alternating => inUse \in {p, None}
      /\ UNCHANGED <<resolv, backup, tmp, blocky, configured, resolved, active, server, boot,
                     memo, inUse, original>>
  BY DEF disableProxy, world, files, installation, services, history
<1>2. "stop" \in Labels
  BY DEF Labels
<1> QED BY <1>1, <1>2, BeginStep

\* Requests that are over in the step in which they begin.
LEMMA AtOnceStep ==
  ASSUME IInv, NEW h \in Handlers, Begins(h),
         UNCHANGED <<resolv, backup, pc, proxy, inUse, original>>, WorldTyped', RunsWhole'
  PROVE  IInv'
<1>1. /\ Spaced => \A g \in Handlers : pc[g] = "idle"
      /\ Typed
  BY BeginsQuiet
<1>2. Typed'
  BY <1>1 DEF Typed
<1>3. ASSUME Spaced, NEW g \in Handlers
      PROVE  AtStep(g)' /\ WayAt(g)'
  BY <1>1, <1>3, IdleAtStep
<1>4. Spaced => Alone'
  BY <1>1 DEF Alone
<1>5. Spaced /\ Alternating => Way'
  BY DEF IInv, Way
<1> QED BY <1>2, <1>3, <1>4, <1>5 DEF IInv

LEMMA ConfigureProxyStep ==
  ASSUME IInv, NEW h \in Handlers, NEW p \in Proxies, configureProxy(h, p)
  PROVE  IInv'
<1>1. /\ Begins(h) /\ configured' = configured \cup {p}
      /\ UNCHANGED <<resolv, backup, tmp, blocky, resolved, active, server, boot, memo, pc,
                     proxy, inUse, original>>
  BY DEF configureProxy, files, services, history
<1>2. WorldTyped' /\ RunsWhole'
  BY <1>1, BeginsQuiet DEF WorldTyped, RunsWhole, CanStart
<1> QED BY <1>1, <1>2, AtOnceStep

LEMMA UpdateStep ==
  ASSUME IInv, NEW h \in Handlers, adblockUpdate(h)
  PROVE  IInv'
<1> DEFINE c == Command("reload dnsmasq")
<1>1. c \in Commands
  BY CommandsTyped
<1> HIDE DEF c
<1>2. /\ Begins(h)
      /\ \/ Answer(c, ok)
         \/ /\ Ran(c, ok)
            /\ active' \in {active, active \cup {"dnsmasq"}} /\ server' \in {server, None}
            /\ UNCHANGED <<boot, files, installation>>
      /\ UNCHANGED <<pc, proxy, inUse, original>>
  BY DEF adblockUpdate, Released, history, c
<1>3. WorldTyped /\ RunsWhole
  BY <1>2, BeginsQuiet
<1>4. Touches(c)
  BY <1>1, <1>2, <1>3, Consulted DEF Answer, WorldTyped
<1>5. /\ UNCHANGED <<resolv, backup, tmp, blocky, configured, resolved, boot>>
      /\ active' \in {active, active \cup {"dnsmasq"}} /\ server' \in {server, None}
  BY <1>2 DEF Answer, world, files, installation, services
<1>6. WorldTyped' /\ RunsWhole'
  BY <1>2, <1>3, <1>4, <1>5 DEF WorldTyped, Touches, RunsWhole, CanStart, Services
<1> QED BY <1>2, <1>5, <1>6, AtOnceStep

LEMMA RespondStep ==
  ASSUME IInv, NEW h \in Handlers, Respond(h)
  PROVE  IInv'
<1>1. /\ pc[h] \in {"enabled", "disabled", "failed"}
      /\ Typed /\ WorldTyped /\ RunsWhole
      /\ pc[h] # "failed" => proxy[h] \in Proxies
      /\ Spaced => AtStep(h) /\ \A g \in Handlers \ {h} : pc[g] = "idle"
      /\ Spaced /\ Alternating => Way /\ WayAt(h)
  BY DEF Respond, IInv, Typed, Redirected, Restored, Serving, Alone
<1>2. /\ inUse' = IF pc[h] = "enabled" THEN proxy[h]
                  ELSE IF pc[h] = "disabled" THEN None ELSE inUse
      /\ Goto(h, "idle") /\ proxy' = [proxy EXCEPT ![h] = None]
      /\ UNCHANGED <<resolv, backup, tmp, blocky, configured, resolved, active, server, boot,
                     memo, original>>
  BY <1>1 DEF Respond, world, files, installation, services
<1>3. Moves(h, "idle", None) /\ "idle" \in Labels /\ "idle" \notin Serving
  BY <1>1, <1>2
  DEF Typed, Goto, Moves, Labels, Opening, Starting, Enabling, BackingUp, Redirecting, Leaving,
      Redirected, Restored, Serving
<1>4. WorldTyped' /\ RunsWhole'
  BY <1>1, <1>2 DEF WorldTyped, RunsWhole, CanStart
<1>5. AtStep(h)' /\ WayAt(h)'
  BY <1>3, IdleAtStep DEF Moves
<1>6. ASSUME Spaced, Alternating
      PROVE  Way'
  <2>1. CASE pc[h] = "enabled"
    <3>1. inUse' # None
      BY <1>1, <1>2, <2>1, DnsAssumption DEF Services
    <3> QED BY <1>1, <1>2, <1>6, <2>1, <3>1 DEF Way, WayAt, Redirected
  <2>2. CASE pc[h] = "disabled"
    BY <1>1, <1>2, <1>6, <2>2 DEF Way, WayAt, Redirected, Restored
  <2>3. CASE pc[h] = "failed"
    BY <1>1, <1>2, <1>6, <2>3, WayHere DEF Way, Redirected
  <2> QED BY <1>1, <2>1, <2>2, <2>3
<1> QED BY <1>1, <1>3, <1>4, <1>5, <1>6, StepMoves

LEMMA TickStep == ASSUME IInv, Tick PROVE IInv'
<1>1. /\ memo' = Aged(memo)
      /\ UNCHANGED <<resolv, backup, tmp, blocky, configured, resolved, active, server, boot,
                     pc, proxy, inUse, original>>
  BY DEF Tick, world, files, installation, services, history
<1>2. WorldTyped /\ memo \in Tables(Commands, {ok, error})
  BY DEF IInv, Typed, WorldTyped
<1>3. /\ memo' \in Tables(Commands, {ok, error})
      /\ \A c \in Commands : Known(memo', c) => Known(memo, c)
  BY <1>1, <1>2, AgedTyped
<1>4. Typed' /\ RunsWhole'
  BY <1>1, <1>3 DEF IInv, Typed, WorldTyped, RunsWhole, CanStart
<1>5. ASSUME Spaced, NEW h \in Handlers
      PROVE  AtStep(h)'
  <2>1. AtStep(h) /\ (pc[h] \in Serving => proxy[h] \in Services) /\ "dnsmasq" \in Services
    BY <1>5, Own DEF Services
  <2>2. Fresh(h)'
    BY <1>1, <1>3, <2>1, CommandsTyped
    DEF AtStep, Fresh, Opening, Starting, Enabling, BackingUp, Redirecting, Leaving, Redirected,
        Restored, Serving
  <2>3. Done(h)'
    BY <1>1, <2>1 DEF AtStep, Done
  <2> QED BY <2>2, <2>3 DEF AtStep
<1>6. Spaced => Alone'
  BY <1>1 DEF IInv, Alone
<1>7. Spaced /\ Alternating => Way' /\ \A h \in Handlers : WayAt(h)'
  BY <1>1 DEF IInv, Way, WayAt
<1> QED BY <1>4, <1>5, <1>6, <1>7 DEF IInv

LEMMA RebootStep == ASSUME IInv, Reboot PROVE IInv'
<1>1. /\ active' = {s \in boot : CanStart(s)} /\ server' = None /\ tmp' = None
      /\ resolv' \in Contents /\ resolv' \in {resolv, resolved}
      /\ memo' \in Tables(Commands, {ok, error})
      /\ pc' = [h \in Handlers |-> "idle"] /\ proxy' = [h \in Handlers |-> None]
      /\ UNCHANGED <<backup, blocky, configured, resolved, boot, inUse, original>>
  BY NothingTyped, SettledTyped DEF Reboot, IInv, Typed, installation, history
<1>2. WorldTyped' /\ RunsWhole'
  BY <1>1 DEF IInv, Typed, WorldTyped, RunsWhole, CanStart
<1>3. \A h \in Handlers : pc'[h] = "idle"
  BY <1>1
<1>4. Typed'
  BY <1>1, <1>2, <1>3
  DEF Typed, Labels, Opening, Starting, Enabling, BackingUp, Redirecting, Leaving, Redirected,
      Restored, Serving
<1>5. ASSUME NEW h \in Handlers
      PROVE  AtStep(h)' /\ WayAt(h)'
  BY <1>3, IdleAtStep
<1>6. ASSUME Spaced, Alternating
      PROVE  Way'
  <2>1. resolved # Local
    BY DnsAssumption DEF IInv, Typed, WorldTyped
  <2> QED BY <1>1, <1>6, <2>1 DEF Reboot, IInv, Way, Redirected
<1> QED BY <1>2, <1>3, <1>4, <1>5, <1>6 DEF IInv, Alone

\* Who has port 53 and which service has ended is nothing a request has still to know, but
\* that systemd keeps Blocky up.
LEMMA ServicesStep ==
  ASSUME IInv, NEW s \in Services, Bind(s) \/ Fails(s)
  PROVE  IInv'
<1>1. /\ active' \subseteq active /\ ("blocky" \in active => "blocky" \in active')
      /\ server \in active \cup {None} => server' \in active' \cup {None}
      /\ UNCHANGED <<resolv, backup, tmp, blocky, configured, resolved, boot, memo, pc, proxy,
                     inUse, original>>
  BY DEF Bind, Fails, Released, files, installation, history
<1> QED BY <1>1 DEF IInv, Typed, WorldTyped, RunsWhole, CanStart, Alone, AtStep, Fresh, Done,
                    Way, WayAt

-----------------------------------------------------------------------------
(***************************************************************************)
(* The invariant.                                                          *)
(***************************************************************************)
LEMMA InitEstablishes == Init => IInv
<1> SUFFICES ASSUME Init PROVE IInv
  OBVIOUS
<1>1. resolv \in Contents /\ resolv # Local
  <2>1. resolv \in Networks
    BY DEF Init
  <2> QED BY <2>1, DnsAssumption DEF Contents
<1>2. WorldTyped /\ RunsWhole
  BY <1>1, NothingTyped DEF Init, WorldTyped, RunsWhole, Services
<1>3. \A h \in Handlers : pc[h] = "idle"
  BY DEF Init
<1>4. Typed
  BY <1>2, <1>3
  DEF Init, Typed, Labels, Opening, Starting, Enabling, BackingUp, Redirecting, Leaving,
      Redirected, Restored, Serving
<1>5. ASSUME NEW h \in Handlers
      PROVE  AtStep(h) /\ WayAt(h)
  BY <1>3
  DEF AtStep, Fresh, Done, WayAt, Opening, Starting, Enabling, BackingUp, Redirecting, Leaving, Redirected, Restored
<1>6. Way
  BY <1>1, DnsAssumption DEF Init, Way
<1> QED BY <1>2, <1>3, <1>4, <1>5, <1>6 DEF IInv, Alone

LEMMA StutterPreserves == ASSUME IInv, UNCHANGED vars PROVE IInv'
<1>1. UNCHANGED <<resolv, backup, tmp, blocky, configured, resolved, active, server, boot, memo,
                  pc, proxy, inUse, original>>
  BY DEF vars, world, files, installation, services, history
<1> QED BY <1>1 DEF IInv, Typed, WorldTyped, RunsWhole, CanStart, Alone, AtStep, Fresh, Done,
                    Way, WayAt

LEMMA Preserved == ASSUME IInv, [Next]_vars PROVE IInv'
<1>1. ASSUME NEW h \in Handlers, Handler(h)
      PROVE  IInv'
  <2>1. CASE installBlocky(h)
    BY <2>1, BeginPlain DEF installBlocky
  <2>2. CASE enableAdBlock(h)
    BY <2>2, BeginPlain DEF enableAdBlock
  <2>3. CASE disableAdBlock(h)
    BY <2>3, BeginPlain DEF disableAdBlock
  <2>4. CASE networkConfig(h)
    BY <2>4, BeginPlain DEF networkConfig
  <2>5. ASSUME NEW p \in Proxies, configureProxy(h, p) \/ enableProxy(h, p)
        PROVE  IInv'
    BY <2>5, ConfigureProxyStep, EnableStep
  <2>6. ASSUME NEW p \in Proxies, disableProxy(h, p)
        PROVE  IInv'
    BY <2>6, DisableStep
  <2>7. CASE ExtractBlocky(h) \/ WriteUnit(h) \/ BootBlocky(h)
    BY <2>7, ExtractStep, WriteUnitStep, BootBlockyStep
  <2>8. CASE ConfigureByDefault(h) \/ FreePort(h) \/ StartProxy(h) \/ EnableProxyAtBoot(h)
    BY <2>8, ConfigureStep, FreePortStep, StartProxyStep, EnableAtBootStep
  <2>9. CASE BackUpResolv(h) \/ WriteLocal(h) \/ CopyLocal(h)
    BY <2>9, BackUpStep, WriteLocalStep, CopyLocalStep
  <2>10. CASE \/ StopProxy(h) \/ DisableProxyAtBoot(h) \/ RestoreResolv(h)
              \/ CopyPublic(h) \/ Settle(h)
    BY <2>10, StopProxyStep, DisableAtBootStep, RestoreStep, CopyPublicStep, SettleStep
  <2>11. CASE StartDnsmasq(h) \/ StartPihole(h) \/ StopDnsmasq(h) \/ StopBlocky(h)
    BY <2>11, StartDnsmasqStep, StartPiholeStep, StopDnsmasqStep, StopBlockyStep
  <2>12. CASE adblockUpdate(h) \/ BackUpSetting(h) \/ WriteSetting(h) \/ Respond(h)
    BY <2>12, UpdateStep, BackUpSettingStep, WriteSettingStep, RespondStep
  <2> QED BY <1>1, <2>1, <2>2, <2>3, <2>4, <2>5, <2>6, <2>7, <2>8, <2>9, <2>10, <2>11, <2>12
             DEF Handler
<1>2. CASE Tick
  BY <1>2, TickStep
<1>3. CASE Reboot
  BY <1>3, RebootStep
<1>4. ASSUME NEW s \in Services, Bind(s) \/ Fails(s)
      PROVE  IInv'
  BY <1>4, ServicesStep
<1> QED BY <1>1, <1>2, <1>3, <1>4, StutterPreserves DEF Next

\* The invariant is inductive: it holds at first, and every step of every handler of
\* adblock_handlers.go, of a service, a tick and a reboot keep it.
THEOREM Inductive == (Init => IInv) /\ (IInv /\ [Next]_vars => IInv')
BY InitEstablishes, Preserved

LEMMA Invariance == Spec => []IInv
<1>1. Init => IInv
  BY Inductive
<1>2. IInv /\ [Next]_vars => IInv'
  BY Inductive
<1> QED BY <1>1, <1>2, PTL DEF Spec

-----------------------------------------------------------------------------
(***************************************************************************)
(* The theorems.                                                           *)
(***************************************************************************)
\* The types, however requests overlap: what the handlers of adblock_handlers.go leave in
\* resolv.conf, its backup and the temporary file is a content or nothing, never a half.
THEOREM TypeCorrect == Spec => []TypeOK
<1>1. IInv => TypeOK
  BY DEF IInv, Typed, WorldTyped, RunsWhole, TypeOK
<1> QED BY <1>1, Invariance, PTL

\* When requests are apart and alternate, what resolves names through 127.0.0.1 has its way
\* back, at every step: the backup is there and is not of 127.0.0.1
\* (adblock_handlers.go:403-406, 455-467, 960-962, 998-1008).
THEOREM WayBackIsKept ==
  ASSUME Spaced, Alternating
  PROVE  Spec => []WayBack
<1>1. IInv => WayBack
  <2> SUFFICES ASSUME IInv, resolv = Local
               PROVE  backup \notin {None, Local}
    BY DEF WayBack
  <2>1. Way /\ \A h \in Handlers : WayAt(h)
    BY DEF IInv
  <2>2. backup = original /\ original # None
    BY <2>1 DEF Way, WayAt
  <2> QED BY <2>1, <2>2 DEF Way
<1> QED BY <1>1, Invariance, PTL

\* Only the last step of enabling or of disabling a proxy comes to say so, and it leaves
\* the proxy of the request and what is known of the one in use.
LEMMA Arrival ==
  ASSUME IInv, [Next]_vars, NEW h \in Handlers, NEW label \in {"enabled", "disabled"},
         Becomes(h, label)
  PROVE  /\ pc[h] \in Serving
         /\ UNCHANGED <<proxy, inUse, original, resolved>>
<1>1. pc \in [Handlers -> Labels] /\ pc'[h] # pc[h] /\ pc'[h] \in {"enabled", "disabled"}
  BY DEF IInv, Typed, Becomes
<1>2. ~UNCHANGED vars /\ ~Tick /\ ~Reboot /\ \A s \in Services : ~Bind(s) /\ ~Fails(s)
  BY <1>1 DEF vars, Tick, Reboot, Bind, Fails
<1>3. PICK g \in Handlers : Handler(g)
  BY <1>2 DEF Next
<1>4. ASSUME NEW l, Goto(g, l), l \notin {"enabled", "disabled"}
      PROVE  FALSE
  BY <1>1, <1>4 DEF Goto
<1>5. ASSUME UNCHANGED pc
      PROVE  FALSE
  BY <1>1, <1>5
<1>6. ~installBlocky(g) /\ ~ExtractBlocky(g) /\ ~WriteUnit(g) /\ ~BootBlocky(g)
  BY <1>4 DEF installBlocky, ExtractBlocky, WriteUnit, BootBlocky
<1>7. ASSUME NEW p \in Proxies
      PROVE  ~configureProxy(g, p) /\ ~enableProxy(g, p) /\ ~disableProxy(g, p)
  <2>1. FirstStep[p] \in {"start", "freePort"}
    BY DEF FirstStep, Proxies
  <2>2. (IF p \in configured THEN FirstStep[p] ELSE "configure") \notin {"enabled", "disabled"}
    BY <2>1
  <2> QED BY <1>4, <1>5, <2>2 DEF configureProxy, enableProxy, disableProxy
<1>8. ~ConfigureByDefault(g)
  <2> SUFFICES ASSUME ConfigureByDefault(g) PROVE FALSE
    OBVIOUS
  <2>1. proxy[g] \in Proxies
    BY DEF ConfigureByDefault, IInv, Typed, Serving, Redirecting, BackingUp, Enabling, Starting,
           Opening
  <2>2. FirstStep[proxy[g]] \in {"start", "freePort"}
    BY <2>1 DEF FirstStep, Proxies
  <2> QED BY <1>4, <2>2 DEF ConfigureByDefault
<1>9. ~FreePort(g) /\ ~StartProxy(g) /\ ~EnableProxyAtBoot(g) /\ ~BackUpResolv(g)
  BY <1>4 DEF FreePort, StartProxy, EnableProxyAtBoot, BackUpResolv
<1>10. ~StopProxy(g) /\ ~DisableProxyAtBoot(g)
  BY <1>4 DEF StopProxy, DisableProxyAtBoot
<1>11. ~enableAdBlock(g) /\ ~StartDnsmasq(g) /\ ~StartPihole(g) /\ ~disableAdBlock(g)
  BY <1>4 DEF enableAdBlock, StartDnsmasq, StartPihole, disableAdBlock
<1>12. ~StopDnsmasq(g) /\ ~StopBlocky(g) /\ ~adblockUpdate(g)
  BY <1>4, <1>5 DEF StopDnsmasq, StopBlocky, adblockUpdate
<1>13. ~networkConfig(g) /\ ~BackUpSetting(g) /\ ~WriteSetting(g) /\ ~Respond(g)
  BY <1>4 DEF networkConfig, BackUpSetting, WriteSetting, Respond
<1>14. ~WriteLocal(g) /\ ~CopyLocal(g) /\ ~RestoreResolv(g) /\ ~CopyPublic(g)
  BY <1>4 DEF WriteLocal, CopyLocal, RestoreResolv, CopyPublic, Write
<1>15. Settle(g)
  BY <1>3, <1>6, <1>7, <1>8, <1>9, <1>10, <1>11, <1>12, <1>13, <1>14 DEF Handler
<1>16. /\ pc[g] \in {"redirected", "restored"}
       /\ \E l \in Labels : Goto(g, l)
       /\ UNCHANGED <<proxy, inUse, original, resolved>>
  BY <1>15 DEF Settle, RestartResolved, Answer, world, installation, history, Labels
<1>17. g = h
  BY <1>1, <1>16 DEF Goto
<1> QED BY <1>16, <1>17 DEF Serving, Redirected, Restored

\* When requests are apart, a proxy that the panel says is enabled is configured and starts
\* with the machine; Blocky is there in full and kept up, and dnsmasq does not keep it from
\* port 53; resolv.conf is the proxy's, or could not be made so (adblock_handlers.go:387-439,
\* 942-984).
THEOREM EnabledIsServed ==
  ASSUME Spaced
  PROVE  Spec => EnabledServes
<1> DEFINE Serves(h) ==
      Becomes(h, "enabled") =>
        /\ proxy[h] \in boot' \cap configured'
        /\ proxy[h] = "blocky" =>
             /\ blocky' = Whole
             /\ "blocky" \in active'
             /\ "dnsmasq" \notin active' \cup {server'}
        /\ resolv' \in {Local, original, resolved}
<1>1. IInv /\ IInv' /\ [Next]_vars => [\A h \in Handlers : Serves(h)]_vars
  <2> SUFFICES ASSUME IInv, IInv', [Next]_vars, NEW h \in Handlers, Becomes(h, "enabled")
               PROVE  Serves(h)
    OBVIOUS
  <2>1. UNCHANGED <<proxy, original, resolved>>
    BY Arrival
  <2>2. Done(h)' /\ RunsWhole' /\ pc'[h] = "enabled"
    BY DEF IInv, AtStep, Becomes
  <2>3. "dnsmasq" # None
    BY DnsAssumption DEF Services
  <2> QED BY <2>1, <2>2, <2>3 DEF Done, Redirected, RunsWhole, CanStart
<1> QED BY <1>1, Invariance, PTL DEF Spec, EnabledServes

\* When they also alternate, disabling the proxy in use leaves the resolv.conf that its
\* enabling found, or systemd-resolved's (adblock_handlers.go:403-406, 455-470, 960-962,
\* 998-1009).
THEOREM OriginalIsRestored ==
  ASSUME Spaced, Alternating
  PROVE  Spec => RestoresOriginal
<1> DEFINE Restores(h) ==
      Becomes(h, "disabled") /\ inUse = proxy[h] => resolv' \in {original, resolved}
<1>1. IInv /\ IInv' /\ [Next]_vars => [\A h \in Handlers : Restores(h)]_vars
  <2> SUFFICES ASSUME IInv, IInv', [Next]_vars, NEW h \in Handlers,
                      Becomes(h, "disabled"), inUse = proxy[h]
               PROVE  resolv' \in {original, resolved}
    OBVIOUS
  <2>1. pc[h] \in Serving /\ UNCHANGED <<proxy, inUse, original, resolved>>
    BY Arrival
  <2>2. inUse # None
    BY <2>1, DnsAssumption DEF IInv, Typed, Services
  <2>3. WayAt(h)' /\ pc'[h] = "disabled"
    BY DEF IInv, Becomes
  <2> QED BY <2>1, <2>2, <2>3 DEF WayAt
<1> QED BY <1>1, Invariance, PTL DEF Spec, RestoresOriginal
=============================================================================
