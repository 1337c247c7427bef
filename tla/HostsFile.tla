----------------------------- MODULE HostsFile -----------------------------
(***************************************************************************)
(* The network page and the AdBlock pages over the one /etc/hosts.         *)
(* networkConfigHandler replaces the file when it names the machine, which *)
(* drops the blocked domains and lists the name of the machine, and        *)
(* AdBlock reads it.  Nothing else is shared, and the panel restarts with  *)
(* all of its requests.                                                    *)
(***************************************************************************)
EXTENDS NetworkConfig

CONSTANTS Togglers, Lists, Domains, Unsaid

VARIABLES disabled, overrides, toggle, answered

AdBlock == INSTANCE AdBlockLists

\* Every domain passes the check of a host name.
ASSUME PagesAssumption ==
  /\ Domains \subseteq Names
  /\ Lists \cap Domains = {}
  /\ Unsaid \notin BOOLEAN

adBlockVars == <<disabled, overrides, toggle, answered>>
networkVars == <<layers, static, kernel, resolver, routing, memo, pc, local>>

PagesInit == Init /\ AdBlock!Init

Pages ==
  \/ (\E h \in Handlers : Handler(h)) /\ UNCHANGED adBlockVars
  \/ Tick /\ UNCHANGED adBlockVars
  \/ AdBlock!Next /\ UNCHANGED networkVars
  \/ RestartPanel /\ AdBlock!Cut
  \/ Reboot /\ AdBlock!Cut

PagesSpec == PagesInit /\ [][Pages]_<<vars, adBlockVars>>

\* The types of both.
PagesTypeOK == TypeOK /\ AdBlock!TypeOK

\* AdBlock keeps what it answered while the network page rewrites /etc/hosts under it.
TogglesStick == AdBlock!TogglesStick
=============================================================================
