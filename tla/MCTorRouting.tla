---------------------------- MODULE MCTorRouting ----------------------------
(***************************************************************************)
(* TorRouting for TLC: one request at a time, one interface that may be    *)
(* reconfigured to another, and one pair of ports.                         *)
(***************************************************************************)
EXTENDS TorRouting

CONSTANTS h1, ap0, wlan0, p9040

MCHandlers == {h1}
BothIfaces == {ap0, wlan0}
OneIface == {ap0}
OnePort == {p9040}
MCFallible == {"write", "start", "add"}
MCReliable == {}
=============================================================================
