--------------------------- MODULE MCAccountsTor ---------------------------
(***************************************************************************)
(* Accounts for TLC, two requests at a time, and TorRouting beside it, one *)
(* at a time.  They share no variable, and a step of one is a stutter of   *)
(* the other, so a behaviour moves one part.                               *)
(***************************************************************************)
EXTENDS MCTorRouting, Accounts, TLC

CONSTANTS r1, r2, admin, other

VARIABLE part   (* the part that moves *)

MCRequesters == {r1, r2}
MCPasswords == {admin, other}
MCMaxima == {1, 2}
MCSymmetry == Permutations(MCRequesters)

\* Of a part that does not move, one initial state is enough.
MCInit ==
  /\ part \in {"accounts", "tor"}
  /\ AccountsInit
  /\ part # "accounts" => row = NewRow(FALSE) /\ maxAttempts = 1
  /\ Init
  /\ part # "tor" => iface = ap0

MCNext ==
  /\ UNCHANGED part
  /\ \/ part = "accounts" /\ AccountsNext /\ UNCHANGED vars
     \/ part = "tor" /\ Next /\ UNCHANGED accountsVars

MCSpec == MCInit /\ [][MCNext]_<<part, vars, accountsVars>>
=============================================================================
