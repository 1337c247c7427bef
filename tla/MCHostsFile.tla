---------------------------- MODULE MCHostsFile ----------------------------
(***************************************************************************)
(* HostsFile for TLC: two requests of the network page about one thing, or *)
(* one about two that share something, and two toggles at a time.          *)
(***************************************************************************)
EXTENDS HostsFile, TLC

CONSTANTS h1, h2, t1, t2, plain, dotted, first, second, near, far,
          list1, list2

MCHandlers == {h1, h2}
MCTogglers == {t1, t2}
MCNames == {plain, dotted}
MCDomains == {dotted}
MCLists == {list1, list2}
MCServers == {first, second}
MCGateways == {near, far}
MCOverlapping == {{"name"}, {"dns"}, {"gateway"}}
MCTopics == MCOverlapping \cup {{"dns", "gateway"}, {"name", "domains"}, {"lists"}}
MCSymmetry ==
  Permutations(MCHandlers) \cup Permutations(MCTogglers) \cup Permutations(MCLists)
    \cup Permutations(MCServers) \cup Permutations(MCGateways)
=============================================================================
