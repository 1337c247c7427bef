------------------------------- MODULE MCVpn -------------------------------
(***************************************************************************)
(* Vpn for TLC: two requests at a time, two configurations of each kind.   *)
(***************************************************************************)
EXTENDS Vpn, TLC

CONSTANTS h1, h2, first, second, office, travel

MCHandlers == {h1, h2}
MCConfigs == {first, second}
MCProfiles == {office, travel}
MCSymmetry ==
  Permutations(MCHandlers) \cup Permutations(MCConfigs) \cup Permutations(MCProfiles)
=============================================================================
