------------------------------ MODULE Accounts ------------------------------
(***************************************************************************)
(* The account of the panel's user: Login of auth.go with its lockout, and *)
(* the handlers of handlers.go that change the account.  Every one loads   *)
(* the whole row, changes its copy and saves the whole row with gorm's     *)
(* Save, so a save also writes back the columns it did not mean to change. *)
(*                                                                         *)
(* A request is a step for its load and a step for each save; the database *)
(* may refuse a save (it is busy), which Login does not notice.  Sessions  *)
(* are tokens the server does not remember, so a request of a signed-in    *)
(* user may come whenever some login has succeeded.                        *)
(***************************************************************************)
EXTENDS Integers, Sequences

CONSTANTS
  Requesters,      (* goroutines that serve requests                       *)
  Passwords,       (* passwords a user may type or choose                  *)
  DefaultPassword, (* the password createDefaultAdmin gives                *)
  Maxima,          (* values of max_login_attempts                         *)
  LockoutMinutes,  (* lockout_minutes of config.yaml, in ticks             *)
  DefaultLockout,  (* the 15 minutes of getLockoutMinutes, in ticks        *)
  MaxMinute        (* bound on the clock                                   *)

ASSUME AccountsAssumption ==
  /\ DefaultPassword \in Passwords
  /\ Maxima \subseteq 1..20
  /\ Maxima # {}
  /\ LockoutMinutes \in Nat
  /\ DefaultLockout \in Nat \ {0}
  /\ MaxMinute \in Nat

VARIABLES
  minute,       (* the clock                                               *)
  maxAttempts,  (* max_login_attempts of the configuration table           *)
  row,          (* the account's row in the database                       *)
  doing,        (* the next step of each handler                           *)
  copies,       (* the copy and the input of each handler                  *)
  signedIn,     (* has some login succeeded?                               *)
  disturbed,    (* history: two requests overlapped or a save failed       *)
  chosen,       (* history: the password chosen last                       *)
  firstChanges, (* history: first-login changes, up to 2                   *)
  wrongs        (* history: when the last wrong passwords were read        *)

history == <<disturbed, chosen, firstChanges, wrongs>>
accountsVars == <<minute, maxAttempts, row, doing, copies, signedIn, history>>

\* getLockoutMinutes: a value that is not positive stands for the default.
getLockoutMinutes == IF LockoutMinutes > 0 THEN LockoutMinutes ELSE DefaultLockout

\* LoginCount is told apart only as never, once and more often.
Many == 2
More(count) == IF count < Many THEN count + 1 ELSE Many

NotLocked == -1
Minutes == 0..MaxMinute

\* legacy: the stored password is not a bcrypt hash.  lockedUntil is a time, or
\* NotLocked for NULL.
Rows == [password : Passwords, legacy : BOOLEAN, failed : 0..20,
         lockedUntil : {NotLocked} \cup 0..(MaxMinute + getLockoutMinutes),
         logins : 0..Many]
NewRow(legacy) ==
  [password |-> DefaultPassword, legacy |-> legacy, failed |-> 0,
   lockedUntil |-> NotLocked, logins |-> 0]

Copies == [row : Rows, input : Passwords, read : Minutes, max : Maxima]

Stages == {"idle", "refused", "unlock", "check", "rehash", "succeed",
           "changePassword", "firstLogin", "profile"}

AccountsTypeOK ==
  /\ minute \in Minutes
  /\ maxAttempts \in Maxima
  /\ row \in Rows
  /\ doing \in [Requesters -> Stages]
  /\ copies \in [Requesters -> Copies]
  /\ signedIn \in BOOLEAN
  /\ disturbed \in BOOLEAN
  /\ chosen \in Passwords
  /\ firstChanges \in 0..2
  /\ wrongs \in Seq(Minutes)

NoCopy ==
  [row |-> NewRow(FALSE), input |-> DefaultPassword, read |-> 0,
   max |-> CHOOSE m \in Maxima : TRUE]

AccountsInit ==
  /\ minute = 0
  /\ maxAttempts \in Maxima
  /\ row \in {NewRow(legacy) : legacy \in BOOLEAN}
  /\ doing = [h \in Requesters |-> "idle"]
  /\ copies = [h \in Requesters |-> NoCopy]
  /\ signedIn = FALSE
  /\ disturbed = FALSE
  /\ chosen = DefaultPassword
  /\ firstChanges = 0
  /\ wrongs = <<>>

-----------------------------------------------------------------------------
Others(h) == Requesters \ {h}

\* What is remembered of undisturbed requests is of no use once one is disturbed.
Forget ==
  /\ chosen' = DefaultPassword
  /\ firstChanges' = 0
  /\ wrongs' = <<>>

\* A request begins, with its copy of the row and what it was given.
Begin(h, label, locals) ==
  /\ doing' = [doing EXCEPT ![h] = label]
  /\ copies' = [copies EXCEPT ![h] = locals]
  /\ disturbed' = (disturbed \/ \E o \in Others(h) : doing[o] # "idle")
  /\ IF disturbed' THEN Forget ELSE UNCHANGED <<chosen, firstChanges, wrongs>>

\* Login also reads the clock and the maximum; the other requests do not.
LoginLocals(copy, password) ==
  [row |-> copy, input |-> password, read |-> minute, max |-> maxAttempts]
ChangeLocals(copy, input) == [NoCopy EXCEPT !.row = copy, !.input = input]

\* db.Save writes the whole copy, or fails.
Saved(copy) == row' = copy /\ UNCHANGED disturbed
SaveFailed == disturbed' = TRUE /\ UNCHANGED row
SaveRow(copy) == Saved(copy) \/ SaveFailed

\* The request ends.
Ended(h) ==
  /\ doing' = [doing EXCEPT ![h] = "idle"]
  /\ copies' = [copies EXCEPT ![h] = NoCopy]

-----------------------------------------------------------------------------
(***************************************************************************)
(* Login, auth.go.                                                         *)
(***************************************************************************)
TooMany == row.failed >= maxAttempts
Locked == row.lockedUntil # NotLocked /\ minute < row.lockedUntil

\* Mutant of Unlocked: the unlocking keeps the time of the lock.
UnlockedByCount == [row EXCEPT !.failed = 0]

Unlocked == [row EXCEPT !.failed = 0, !.lockedUntil = NotLocked]

\* A locked account is refused before its password is looked at; one whose time has
\* passed is unlocked, and the password checked.
Login(h, password) ==
  /\ doing[h] = "idle"
  /\ \/ TooMany /\ Locked /\ Begin(h, "refused", NoCopy)
     \/ TooMany /\ ~Locked /\ Begin(h, "unlock", LoginLocals(Unlocked, password))
     \/ ~TooMany /\ Begin(h, "check", LoginLocals(row, password))
  /\ UNCHANGED <<minute, maxAttempts, row, signedIn>>

Refused(h) ==
  /\ doing[h] = "refused"
  /\ Ended(h)
  /\ UNCHANGED <<minute, maxAttempts, row, signedIn, history>>

SaveUnlocked(h) ==
  /\ doing[h] = "unlock"
  /\ SaveRow(copies[h].row)
  /\ doing' = [doing EXCEPT ![h] = "check"]
  /\ UNCHANGED <<minute, maxAttempts, copies, signedIn, chosen, firstChanges, wrongs>>

CheckPassword(h) == copies[h].input = copies[h].row.password

\* Mutant of Failure: the lockout is taken in another unit.
FailureInSeconds(h) ==
  LET copy == copies[h].row
      failed == copy.failed + 1
  IN [copy EXCEPT
        !.failed = failed,
        !.lockedUntil = IF failed >= copies[h].max /\ getLockoutMinutes > 0
                        THEN copies[h].read + 60 * getLockoutMinutes
                        ELSE @]

\* Mutant of Failure: the account locks one failure late.
FailureAfterMaximum(h) ==
  LET copy == copies[h].row
      failed == copy.failed + 1
  IN [copy EXCEPT
        !.failed = failed,
        !.lockedUntil = IF failed > copies[h].max /\ getLockoutMinutes > 0
                        THEN copies[h].read + getLockoutMinutes
                        ELSE @]

\* One more failure; the one that reaches the maximum locks the account, counting
\* from the time the request began.
Failure(h) ==
  LET copy == copies[h].row
      failed == copy.failed + 1
  IN [copy EXCEPT
        !.failed = failed,
        !.lockedUntil = IF failed >= copies[h].max /\ getLockoutMinutes > 0
                        THEN copies[h].read + getLockoutMinutes
                        ELSE @]

\* The last of the recorded times, as many as the maximum and one more.
Latest(s) ==
  IF Len(s) > maxAttempts + 1 THEN SubSeq(s, Len(s) - maxAttempts, Len(s)) ELSE s

WrongPassword(h) ==
  /\ doing[h] = "check"
  /\ ~CheckPassword(h)
  /\ SaveRow(Failure(h))
  /\ Ended(h)
  /\ wrongs' = IF disturbed' THEN <<>> ELSE Latest(Append(wrongs, copies[h].read))
  /\ UNCHANGED <<minute, maxAttempts, signedIn, chosen, firstChanges>>

RightPassword(h) ==
  /\ doing[h] = "check"
  /\ CheckPassword(h)
  /\ doing' = [doing EXCEPT ![h] = IF copies[h].row.legacy THEN "rehash" ELSE "succeed"]
  /\ copies' = [copies EXCEPT ![h].row.legacy = FALSE]
  /\ UNCHANGED <<minute, maxAttempts, row, signedIn, history>>

\* A password that is not a bcrypt hash is replaced by one.
SaveRehashed(h) ==
  /\ doing[h] = "rehash"
  /\ SaveRow(copies[h].row)
  /\ doing' = [doing EXCEPT ![h] = "succeed"]
  /\ UNCHANGED <<minute, maxAttempts, copies, signedIn, chosen, firstChanges, wrongs>>

Success(h) ==
  [copies[h].row EXCEPT
     !.failed = 0, !.lockedUntil = NotLocked, !.logins = More(@)]

SaveSuccess(h) ==
  /\ doing[h] = "succeed"
  /\ SaveRow(Success(h))
  /\ Ended(h)
  /\ signedIn' = TRUE
  /\ wrongs' = <<>>
  /\ UNCHANGED <<minute, maxAttempts, chosen, firstChanges>>

-----------------------------------------------------------------------------
(***************************************************************************)
(* The handlers that change the account, handlers.go.  The row is loaded   *)
(* by requireAuth, or by the handler itself at the first login.            *)
(***************************************************************************)
\* changePasswordAPIHandler: the current password must be that of the loaded row.
changePassword(h, current, new) ==
  /\ doing[h] = "idle"
  /\ signedIn
  /\ current = row.password
  /\ Begin(h, "changePassword",
           ChangeLocals([row EXCEPT !.password = new, !.legacy = FALSE], new))
  /\ UNCHANGED <<minute, maxAttempts, row, signedIn>>

\* Mutant of firstLoginChange: the change does not count as a login.
firstLoginChangeUncounted(h, new) ==
  /\ doing[h] = "idle"
  /\ signedIn
  /\ row.logins = 1
  /\ Begin(h, "firstLogin",
           ChangeLocals([row EXCEPT !.password = new, !.legacy = FALSE], new))
  /\ UNCHANGED <<minute, maxAttempts, row, signedIn>>

\* firstLoginChangeAPIHandler is for the first login only, and counts as another.
firstLoginChange(h, new) ==
  /\ doing[h] = "idle"
  /\ signedIn
  /\ row.logins = 1
  /\ Begin(h, "firstLogin",
           ChangeLocals([row EXCEPT !.password = new, !.legacy = FALSE,
                                    !.logins = More(@)], new))
  /\ UNCHANGED <<minute, maxAttempts, row, signedIn>>

\* Mutant of updateProfile: the profile is saved with a password of its own.
updateProfileAfresh(h) ==
  /\ doing[h] = "idle"
  /\ signedIn
  /\ Begin(h, "profile",
           ChangeLocals([row EXCEPT !.password = DefaultPassword], DefaultPassword))
  /\ UNCHANGED <<minute, maxAttempts, row, signedIn>>

\* updateProfileAPIHandler and updatePreferencesAPIHandler change columns that are
\* not modelled, and save them all.
updateProfile(h) ==
  /\ doing[h] = "idle"
  /\ signedIn
  /\ Begin(h, "profile", ChangeLocals(row, DefaultPassword))
  /\ UNCHANGED <<minute, maxAttempts, row, signedIn>>

SavePassword(h) ==
  /\ doing[h] \in {"changePassword", "firstLogin"}
  /\ \/ /\ Saved(copies[h].row)
        /\ chosen' = IF disturbed THEN chosen ELSE copies[h].input
        /\ firstChanges' = IF doing[h] = "firstLogin" /\ ~disturbed /\ firstChanges < 2
                           THEN firstChanges + 1 ELSE firstChanges
     \/ SaveFailed /\ UNCHANGED <<chosen, firstChanges>>
  /\ Ended(h)
  /\ UNCHANGED <<minute, maxAttempts, signedIn, wrongs>>

SaveProfile(h) ==
  /\ doing[h] = "profile"
  /\ SaveRow(copies[h].row)
  /\ Ended(h)
  /\ UNCHANGED <<minute, maxAttempts, signedIn, chosen, firstChanges, wrongs>>

\* systemConfigHandler sets max_login_attempts; the failures recorded so far were
\* counted against another maximum.
systemConfigMaximum(m) ==
  /\ signedIn
  /\ maxAttempts' = m
  /\ wrongs' = <<>>
  /\ disturbed' = (disturbed \/ \E h \in Requesters : doing[h] # "idle")
  /\ UNCHANGED <<minute, row, doing, copies, signedIn, chosen, firstChanges>>

MinutePasses ==
  /\ minute < MaxMinute
  /\ minute' = minute + 1
  /\ UNCHANGED <<maxAttempts, row, doing, copies, signedIn, history>>

Request(h) ==
  \/ \E password \in Passwords : Login(h, password)
  \/ Refused(h)
  \/ SaveUnlocked(h)
  \/ WrongPassword(h)
  \/ RightPassword(h)
  \/ SaveRehashed(h)
  \/ SaveSuccess(h)
  \/ \E current, new \in Passwords : changePassword(h, current, new)
  \/ \E new \in Passwords : firstLoginChange(h, new)
  \/ updateProfile(h)
  \/ SavePassword(h)
  \/ SaveProfile(h)

AccountsNext ==
  \/ \E h \in Requesters : Request(h)
  \/ \E m \in Maxima : systemConfigMaximum(m)
  \/ MinutePasses

AccountsSpec == AccountsInit /\ [][AccountsNext]_accountsVars

-----------------------------------------------------------------------------
\* However requests overlap and whichever saves are lost, the row hangs together:
\* it is locked only with failures enough to lock it, so no account is left locked
\* with its count cleared or counts beyond the greatest maximum (auth.go:161-199).
\* Copies that wait to be saved hang together too.
Coherent(r) ==
  /\ \A m \in Maxima : (\A n \in Maxima : n <= m) => r.failed <= m
  /\ r.lockedUntil # NotLocked => \E m \in Maxima : r.failed >= m
LockedIsCounted ==
  /\ Coherent(row)
  /\ \A h \in Requesters : Coherent(copies[h].row)

\* While requests do not overlap, no lockout time sees more wrong passwords read
\* than the maximum, whether the count was reset by time or the row was saved by
\* other requests in between (auth.go:161-188).  Success and a new maximum start
\* the count anew.
WrongsAreSpaced ==
  \A i, j \in DOMAIN wrongs :
    j >= i + maxAttempts => wrongs[j] - wrongs[i] >= getLockoutMinutes

\* While requests do not overlap, the password is the one chosen last: the rehash
\* of a legacy password, the counting of failures and profile updates write it back
\* unchanged (auth.go:190-194, handlers.go:147, 294, 328).
PasswordSticks == ~disturbed => row.password = chosen

\* While requests do not overlap, the change of credentials that asks for no current
\* password is made at most once, ever (handlers.go:184, 232).
FirstLoginOnce == ~disturbed => firstChanges <= 1
=============================================================================
