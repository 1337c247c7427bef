--------------------------- MODULE MCWifiConnect ---------------------------
(* One user and the reconnecting goroutine; the keys tell requests for the one   *)
(* network apart.                                                                *)
EXTENDS WifiConnect

CONSTANTS u1, home

MCUsers == {u1}
MCNetworks == {home}
MCFallible == {"interface", "file", "start", "crash"}
=============================================================================
