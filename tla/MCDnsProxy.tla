----------------------------- MODULE MCDnsProxy -----------------------------
(***************************************************************************)
(* DnsProxy for TLC: one request at a time, name servers of two networks.  *)
(***************************************************************************)
EXTENDS DnsProxy

CONSTANTS h1, home, office

MCHandlers == {h1}
MCNetworks == {home, office}
MCFallible == {"dnsmasq", "blocky", "dnscrypt"}
=============================================================================
