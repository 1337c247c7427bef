-------------------------------- MODULE Memo --------------------------------
(***************************************************************************)
(* What the handlers rely on of the executor of utils.go: a table that     *)
(* remembers the result of a command for TTL ticks, and forgets it.  Time  *)
(* is the ticks a result still has to live, so a table has finitely many   *)
(* values.  CommandMemo states that CommandExecutor keeps such a table.    *)
(***************************************************************************)
EXTENDS Integers

CONSTANTS
  TTL,        (* cacheTTL, in ticks                                        *)
  Unknown     (* the result of a command that is not remembered            *)

ASSUME MemoAssumption == TTL \in Nat \ {0}

Forgotten == [result |-> Unknown, left |-> 0]
Remembered(result) == [result |-> result, left |-> TTL]

\* The tables over these keys and results.
Tables(keys, results) ==
  [keys -> {Forgotten} \cup [result : results, left : 1..TTL]]
NothingRemembered(keys) == [k \in keys |-> Forgotten]

Known(memo, k) == memo[k].left > 0

Older(entry) ==
  IF entry.left > 1 THEN [entry EXCEPT !.left = @ - 1] ELSE Forgotten

\* One tick later.
Aged(memo) == [k \in DOMAIN memo |-> Older(memo[k])]
=============================================================================
