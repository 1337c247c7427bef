---------------------------- MODULE CommandMemo ----------------------------
(***************************************************************************)
(* The abstract specification of the executor's memo table: it changes     *)
(* only when a command of the allow-list has produced a result, which it   *)
(* then remembers for exactly TTL, and by growing older, all entries at    *)
(* once.  Nothing else, no other caller and no prune, touches an entry.    *)
(***************************************************************************)
EXTENDS Memo

CONSTANTS Keys, AllowedKeys, Results

VARIABLE memo

Init == memo = NothingRemembered(Keys)

Produce(k) ==
  /\ k \in AllowedKeys
  /\ memo'[k].result \in Results
  /\ memo' = [memo EXCEPT ![k] = Remembered(memo'[k].result)]

Age == memo' = Aged(memo)

Next == (\E k \in Keys : Produce(k)) \/ Age

Spec == Init /\ [][Next]_memo
=============================================================================
