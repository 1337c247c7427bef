------------------------------ MODULE Sessions ------------------------------
(***************************************************************************)
(* Sessions and the two settings that take effect when they are saved.  A  *)
(* successful login (or first-login change) signs a token and then sets a  *)
(* cookie for it, and reads the running TokenExpiry for each.  The         *)
(* settings handler writes the rows session_timeout and timezone, key by   *)
(* key in the order of a Go map, and applies each: one to TokenExpiry, the *)
(* other to the system.                                                    *)
(*                                                                         *)
(* Expiries are counted in the ticks that are left.  The server keeps no   *)
(* list of tokens; the front end's copy of the token goes with its cookie. *)
(***************************************************************************)
EXTENDS Naturals, Functions

CONSTANTS
  Handlers,        (* goroutines that serve requests                       *)
  SessionTimeouts, (* positive values of session_timeout, in ticks         *)
  token_expiry,    (* what loadConfig gives TokenExpiry at every start     *)
  Zones,           (* time zones the system knows                          *)
  Unset,           (* no row, or an empty value                            *)
  Invalid,         (* a value that is no timeout, or no zone               *)
  Asks,            (* what the settings page may send: values of some keys *)
  MaxDelay         (* most ticks from the signing of a token to its cookie *)

SettingKeys == {"session_timeout", "timezone"}
Settings == [k \in SettingKeys |-> IF k = "session_timeout" THEN SessionTimeouts ELSE Zones]
Values == SessionTimeouts \cup Zones \cup {Unset, Invalid}

\* Values of some of the keys.
NoRequest == [k \in {} |-> Unset]
Requests ==
  UNION {{ask \in [K -> Values] : \A k \in K : ask[k] \in Settings[k] \cup {Unset, Invalid}}
           : K \in SUBSET SettingKeys}

ASSUME SessionsAssumption ==
  /\ SessionTimeouts \subseteq Nat \ {0}
  /\ token_expiry \in SessionTimeouts
  /\ Zones # {}
  /\ {Unset, Invalid} \cap (SessionTimeouts \cup Zones) = {}
  /\ Unset # Invalid
  /\ Asks \subseteq Requests \ {NoRequest}
  /\ MaxDelay \in Nat

VARIABLES
  rows,    (* the rows of the configuration table                          *)
  running, (* what is in force: TokenExpiry, and the system's time zone    *)
  cookie,  (* access_token in the browser                                  *)
  stage,   (* the next step of each handler                                *)
  local,   (* what each handler works on                                   *)
  sure     (* history: has the last change of a key met no other and       *)
           (* reported no error?                                           *)

sessionsVars == <<rows, running, cookie, stage, local, sure>>

\* valid: ticks until the token expires; waited: history, ticks since it was
\* signed; calm: history, TokenExpiry has not changed since it was signed.
Tokens == [valid : Nat, waited : 0..MaxDelay, calm : BOOLEAN]

\* age: ticks until the browser drops the cookie (MaxAge).
Cookies == [token : Tokens, age : Nat]

NoToken == [valid |-> 0, waited |-> 0, calm |-> TRUE]
NoCookie == [token |-> NoToken, age |-> 0]

\* asked: the keys to do, with their values; key: the one at work; failed: its save
\* failed; met: history, keys that another request was also to do.
SessionLocals == [asked : Requests, key : SettingKeys, failed : BOOLEAN,
                  met : SUBSET SettingKeys, token : Tokens]
NoLocals == [asked |-> NoRequest, key |-> "timezone", failed |-> FALSE, met |-> {},
             token |-> NoToken]

SessionsTypeOK ==
  /\ rows \in [SettingKeys -> Values]
  /\ running \in [SettingKeys -> SessionTimeouts \cup Zones]
  /\ \A k \in SettingKeys : running[k] \in Settings[k]
  /\ cookie \in Cookies
  /\ stage \in [Handlers -> {"idle", "cookie", "clear", "save", "apply"}]
  /\ local \in [Handlers -> SessionLocals]
  /\ sure \in [SettingKeys -> BOOLEAN]

SessionsInit ==
  /\ rows = [k \in SettingKeys |-> Unset]
  /\ \E zone \in Zones :
       running = [k \in SettingKeys |-> IF k = "session_timeout" THEN token_expiry ELSE zone]
  /\ cookie = NoCookie
  /\ stage = [h \in Handlers |-> "idle"]
  /\ local = [h \in Handlers |-> NoLocals]
  /\ sure = [k \in SettingKeys |-> TRUE]

-----------------------------------------------------------------------------
Goto(h, label, locals) ==
  /\ stage' = [stage EXCEPT ![h] = label]
  /\ local' = [local EXCEPT ![h] = locals]

Done(h) == Goto(h, "idle", NoLocals)

(***************************************************************************)
(* Login, first-login change, logout.                                      *)
(***************************************************************************)
\* The token is signed with this secret and has not expired.
ValidateToken(token) == token.valid > 0

\* The browser still sends the cookie (NoCookie's token is not valid), and its token is
\* valid.
requireAuth == ValidateToken(cookie.token)

GenerateToken == [valid |-> running["session_timeout"], waited |-> 0, calm |-> TRUE]

\* Credentials were right (Accounts says when); the log is written after this step.
loginAPI(h) ==
  /\ stage[h] = "idle"
  /\ Goto(h, "cookie", [NoLocals EXCEPT !.token = GenerateToken])
  /\ UNCHANGED <<rows, running, cookie, sure>>

firstLoginChangeAPI(h) == requireAuth /\ loginAPI(h)

\* Mutant of cookieExpiry: the expiry of config.yaml.
cookieExpiryOfFile == token_expiry

cookieExpiry == running["session_timeout"]

\* The answer sets the cookie and signs the user in.
SetCookie(h) ==
  /\ stage[h] = "cookie"
  /\ cookie' = [token |-> local[h].token, age |-> cookieExpiry]
  /\ Done(h)
  /\ UNCHANGED <<rows, running, sure>>

\* The answer takes the cookie away; the token is not revoked.
logoutAPI(h) ==
  \/ /\ stage[h] = "idle" /\ requireAuth
     /\ Goto(h, "clear", NoLocals)
     /\ UNCHANGED <<rows, running, cookie, sure>>
  \/ /\ stage[h] = "clear"
     /\ cookie' = NoCookie
     /\ Done(h)
     /\ UNCHANGED <<rows, running, sure>>

-----------------------------------------------------------------------------
(***************************************************************************)
(* systemConfigHandler.                                                    *)
(***************************************************************************)
\* The keys of an ask that another request is still to do.
Shared(h, ask) == DOMAIN ask \cap DOMAIN local[h].asked

systemConfig(h, ask) ==
  /\ stage[h] = "idle" /\ requireAuth
  /\ stage' = [stage EXCEPT ![h] = "save"]
  /\ local' =
       [o \in Handlers |->
          IF o = h
            THEN [NoLocals EXCEPT !.asked = ask,
                                  !.met = UNION {Shared(i, ask) : i \in Handlers}]
            ELSE [local[o] EXCEPT !.met = @ \cup Shared(o, ask)]]
  /\ UNCHANGED <<rows, running, cookie, sure>>

\* SetConfig comes before any look at the value, and its failure does not end the
\* work on the key.
SetConfig(h) ==
  /\ stage[h] = "save"
  /\ \E k \in DOMAIN local[h].asked, failed \in BOOLEAN :
       /\ rows' = IF failed THEN rows ELSE [rows EXCEPT ![k] = local[h].asked[k]]
       /\ sure' = [sure EXCEPT ![k] = FALSE]
       /\ Goto(h, "apply", [local[h] EXCEPT !.key = k, !.failed = failed])
  /\ UNCHANGED <<running, cookie>>

\* What may come of applying a value: what is in force then, and whether the answer
\* lists an error.  A timeout that is no positive number is passed over in silence, a
\* time zone is refused when the system does not know it or will not take it.

\* Mutant of Outcomes: the failure of set-timezone is logged and not reported.
OutcomesUnreported(k, value) ==
  IF value \in Settings[k]
    THEN {<<value, FALSE>>} \cup
         (IF k = "timezone" THEN {<<running[k], FALSE>>} ELSE {})
    ELSE {<<running[k], k = "timezone" /\ value = Invalid>>}

\* Mutant of Outcomes: a timeout is taken over without a look at it.
OutcomesUnchecked(k, value) ==
  IF value \in Settings[k]
    THEN {<<value, FALSE>>} \cup
         (IF k = "timezone" THEN {<<running[k], TRUE>>} ELSE {})
    ELSE {<<IF k = "timezone" THEN running[k] ELSE value, k = "timezone">>}

Outcomes(k, value) ==
  IF value \in Settings[k]
    THEN {<<value, FALSE>>} \cup
         (IF k = "timezone" THEN {<<running[k], TRUE>>} ELSE {})
    ELSE {<<running[k], k = "timezone" /\ value = Invalid>>}

\* The key is done; with the last one, so is the request.
Finished(h) ==
  LET rest == Restrict(local[h].asked, DOMAIN local[h].asked \ {local[h].key}) IN
  IF rest = NoRequest THEN NoLocals
  ELSE [local[h] EXCEPT !.asked = rest, !.met = @ \ {local[h].key},
                        !.key = NoLocals.key, !.failed = FALSE]

\* A token whose cookie is still to come has seen TokenExpiry change.
Stirred(o) ==
  IF stage[o] = "cookie" /\ running'["session_timeout"] # running["session_timeout"]
    THEN [local[o] EXCEPT !.token.calm = FALSE] ELSE local[o]

Apply(h) ==
  LET k == local[h].key IN
  /\ stage[h] = "apply"
  /\ \E outcome \in Outcomes(k, local[h].asked[k]) :
       /\ running' = [running EXCEPT ![k] = outcome[1]]
       /\ sure' = [sure EXCEPT ![k] = ~local[h].failed /\ ~outcome[2] /\ k \notin local[h].met]
  /\ local' = [o \in Handlers |-> IF o = h THEN Finished(h) ELSE Stirred(o)]
  /\ stage' = [stage EXCEPT ![h] = IF Finished(h) = NoLocals THEN "idle" ELSE "save"]
  /\ UNCHANGED <<rows, cookie>>

-----------------------------------------------------------------------------
(***************************************************************************)
(* Time, and the panel's restart.                                          *)
(***************************************************************************)
Less(n) == IF n = 0 THEN 0 ELSE n - 1
Older(token) == [token EXCEPT !.valid = Less(@)]
Waiting(token) == [token EXCEPT !.valid = Less(@), !.waited = @ + 1]

\* The browser drops a cookie whose MaxAge is over.
Elapse ==
  /\ \A h \in Handlers : stage[h] = "cookie" => local[h].token.waited < MaxDelay
  /\ cookie' = IF cookie.age <= 1 THEN NoCookie
               ELSE [token |-> Older(cookie.token), age |-> cookie.age - 1]
  /\ local' = [h \in Handlers |->
                 IF stage[h] = "cookie"
                   THEN [local[h] EXCEPT !.token = Waiting(@)]
                   ELSE local[h]]
  /\ UNCHANGED <<rows, running, stage, sure>>

\* A token that was signed with another secret.
Void(token) == [token EXCEPT !.valid = 0, !.calm = FALSE]

\* loadConfig does not look at the rows.  Without a config.yaml the secret is new, and
\* no token of before is valid any more.
Restart ==
  /\ running' = [running EXCEPT !["session_timeout"] = token_expiry]
  /\ sure' = [sure EXCEPT !["session_timeout"] = FALSE]
  /\ cookie' \in {cookie} \cup
       (IF cookie = NoCookie THEN {}
        ELSE {[cookie EXCEPT !.token = Void(@)]})
  /\ stage' = [h \in Handlers |-> "idle"]
  /\ local' = [h \in Handlers |-> NoLocals]
  /\ UNCHANGED rows

SessionsNext ==
  \/ \E h \in Handlers :
       \/ loginAPI(h) \/ firstLoginChangeAPI(h) \/ SetCookie(h) \/ logoutAPI(h)
       \/ \E ask \in Asks : systemConfig(h, ask)
       \/ SetConfig(h) \/ Apply(h)
  \/ Elapse
  \/ Restart

SessionsSpec == SessionsInit /\ [][SessionsNext]_sessionsVars

-----------------------------------------------------------------------------
(***************************************************************************)
(* Properties.                                                             *)
(***************************************************************************)
\* What the settings page shows is what is in force, after a change that met no other
\* change of its key and was answered without an error, until the panel restarts:
\* whatever other requests did, failed, or were cut off in the meantime.  An empty
\* value, or a timeout that is no number, is shown and changes nothing
\* (systemConfigHandler).
ShownIsInForce ==
  \A k \in SettingKeys :
    sure[k] => \/ rows[k] = running[k]
               \/ rows[k] = Unset
               \/ k = "session_timeout" /\ rows[k] = Invalid

\* Cookie and token expire at the same time but for what the login took between the
\* two, unless TokenExpiry changed in between (loginAPIHandler: "expires at the same
\* time as the token").
ExpireTogether ==
  LET token == cookie.token IN
  cookie # NoCookie /\ token.calm =>
    IF token.valid > 0 THEN cookie.age = token.valid + token.waited
    ELSE cookie.age <= token.waited
=============================================================================
