------------------------------ MODULE MCHostApd ------------------------------
(* HostApd for TLC: one request at a time, one setting. *)
EXTENDS HostApd, FiniteSets

CONSTANTS h1, home

MCHandlers == {h1}
MCSettings == {home}
MCReliable == {"create"}
MCFallible ==
  {"create", "hostapd", "dnsmasq", "file", "driver", "stop", "rules", "route"}

\* At most one rule is ever refused by iptables.
OneRefusal == Cardinality(refused) <= 1
=============================================================================
