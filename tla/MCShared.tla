------------------------------ MODULE MCShared ------------------------------
(***************************************************************************)
(* CommandExecutor, RateLimiter and Sessions for TLC: two goroutines each. *)
(* The three share no variable, and a step of one is a stutter of the      *)
(* others, so a behaviour moves one part.                                  *)
(***************************************************************************)
EXTENDS CommandExecutor, RateLimiter, Sessions, TLC

CONSTANTS
  h1, h2,                 (* goroutines                                    *)
  run_ok, refused_cmd,    (* one command is allowed, one is not            *)
  l1, l2, l3, ip,         (* one limiter more than two racing handlers     *)
                          (* need; one client, as keys are independent     *)
  utc, madrid             (* zones                                         *)

VARIABLE part   (* the part that moves *)

MCGoroutines == {h1, h2}

MCCommands == {run_ok, refused_cmd}
MCAllowed == {run_ok}
MCTimeouts == {1, 2}

MCLimiters == {l1, l2, l3}
MCClients == {ip}

MCSessionTimeouts == {1, 2}
MCZones == {utc, madrid}
MCAsks ==
  {[timezone |-> z] : z \in MCZones \cup {Unset, Invalid}} \cup
  {[session_timeout |-> t] : t \in MCSessionTimeouts \cup {Invalid}} \cup
  {[session_timeout |-> 1, timezone |-> z] : z \in {madrid, Invalid}}

MCSymmetry == Permutations(MCGoroutines)

\* Limiters are alike: it is enough that they are created in this order.
CreatedInOrder == created \in {{}, {l1}, {l1, l2}, {l1, l2, l3}}

-----------------------------------------------------------------------------
\* Of a part that does not move, one initial state is enough.
MCInit ==
  /\ part \in {"executor", "limiter", "sessions"}
  /\ Init
  /\ LimiterInit
  /\ SessionsInit
  /\ part # "sessions" => running["timezone"] = utc

MCNext ==
  /\ UNCHANGED part
  /\ \/ part = "executor" /\ Next /\ UNCHANGED <<limiterVars, sessionsVars>>
     \/ part = "limiter" /\ LimiterNext /\ CreatedInOrder' /\ UNCHANGED <<vars, sessionsVars>>
     \/ part = "sessions" /\ SessionsNext /\ UNCHANGED <<vars, limiterVars>>

MCSpec == MCInit /\ [][MCNext]_<<part, vars, limiterVars, sessionsVars>>
=============================================================================
