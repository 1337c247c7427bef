-------------------------- MODULE Accounts_proofs --------------------------
(***************************************************************************)
(* Proofs about Accounts, for any number of handlers and passwords, any    *)
(* maxima from 1 to 20 and any lockout.                                    *)
(***************************************************************************)
EXTENDS Accounts, SequenceTheorems, TLAPS

Lockout == getLockoutMinutes

\* A copy about to be checked has fewer failures than the maximum it was read with.
Counting ==
  \A h \in Requesters :
    doing[h] \in {"unlock", "check"} => copies[h].row.failed < copies[h].max

\* The wrong passwords that r no longer counts were read a lockout before t.
LeftBehind(r, t) ==
  \A i \in DOMAIN wrongs :
    i + r.failed <= Len(wrongs) => wrongs[i] + Lockout <= t

\* A row that counts the maximum is locked for a lockout from the last wrong password.
LockCovers(r) ==
  r.failed >= maxAttempts =>
    \A i \in DOMAIN wrongs :
      r.lockedUntil # NotLocked /\ wrongs[i] + Lockout <= r.lockedUntil

RowInOrder == LeftBehind(row, minute) /\ LockCovers(row)
Past == \A i \in DOMAIN wrongs : wrongs[i] <= minute

\* The copies of requests that are about to save what they loaded.
KeepsCount(h) ==
  doing[h] \in {"check", "rehash", "succeed", "changePassword", "firstLogin", "profile"}
    => /\ copies[h].row.failed = row.failed
       /\ copies[h].row.lockedUntil = row.lockedUntil
KeepsPassword(h) ==
  /\ doing[h] \in {"unlock", "check", "rehash", "succeed", "profile"}
       => copies[h].row.password = row.password
  /\ doing[h] \in {"changePassword", "firstLogin"}
       => copies[h].row.password = copies[h].input
KeepsLogins(h) ==
  /\ doing[h] \in {"unlock", "check", "rehash", "succeed", "changePassword", "profile"}
       => copies[h].row.logins = row.logins
  /\ doing[h] = "firstLogin" => copies[h].row.logins = 2 /\ row.logins = 1

\* A password being checked was read after all recorded ones, and a lockout after
\* those its copy does not count.
Timely(h) ==
  doing[h] \in {"unlock", "check"} =>
    /\ copies[h].max = maxAttempts
    /\ copies[h].read <= minute
    /\ \A i \in DOMAIN wrongs : wrongs[i] <= copies[h].read
    /\ LeftBehind(copies[h].row, copies[h].read)

Keeps(h) == KeepsCount(h) /\ KeepsPassword(h) /\ KeepsLogins(h) /\ Timely(h)

Alone == \A g, h \in Requesters : doing[g] # "idle" /\ doing[h] # "idle" => g = h

Undisturbed ==
  /\ Alone
  /\ RowInOrder
  /\ Past
  /\ \A h \in Requesters : Keeps(h)
  /\ row.password = chosen
  /\ firstChanges <= 1
  /\ firstChanges = 1 => row.logins = 2

\* The inductive invariant.
IInv ==
  /\ AccountsTypeOK
  /\ LockedIsCounted
  /\ Counting
  /\ WrongsAreSpaced
  /\ ~disturbed => Undisturbed

-----------------------------------------------------------------------------
\* The lockout is positive and the copy of an idle handler is well formed.
LEMMA Constants ==
  /\ getLockoutMinutes \in Nat \ {0}
  /\ NoCopy \in Copies
  /\ \A legacy \in BOOLEAN : NewRow(legacy) \in Rows
  /\ \A m \in Maxima : m \in 1..20
<1>1. getLockoutMinutes \in Nat \ {0}
  BY AccountsAssumption DEF getLockoutMinutes
<1>2. \A legacy \in BOOLEAN : NewRow(legacy) \in Rows
  BY AccountsAssumption DEF NewRow, Rows, NotLocked, Many
<1>3. (CHOOSE m \in Maxima : TRUE) \in Maxima
  BY AccountsAssumption
<1>4. NoCopy \in Copies
  <2> DEFINE r == NewRow(FALSE)
  <2>0. r \in Rows
    BY <1>2, Zenon
  <2> HIDE DEF r
  <2>1. \A m \in Maxima :
          [row |-> r, input |-> DefaultPassword, read |-> 0, max |-> m]
            \in Copies
    BY <2>0, AccountsAssumption DEF Copies, Minutes
  <2>2. QED
    BY <2>1, <1>3, Zenon DEF NoCopy, r
<1>5. QED
  BY <1>1, <1>2, <1>4, AccountsAssumption

\* Latest only cuts a sequence at its beginning.
LEMMA LatestCuts ==
  ASSUME AccountsTypeOK, NEW s \in Seq(Minutes)
  PROVE  \E cut \in 0..Len(s) :
           /\ Latest(s) \in Seq(Minutes)
           /\ Len(Latest(s)) = Len(s) - cut
           /\ \A i \in 1..(Len(s) - cut) : Latest(s)[i] = s[i + cut]
<1>1. maxAttempts \in 1..20 /\ Len(s) \in Nat
  BY Constants DEF AccountsTypeOK
<1>2. CASE Len(s) > maxAttempts + 1
  <2> DEFINE cut == Len(s) - maxAttempts - 1
  <2>1. Latest(s) = SubSeq(s, cut + 1, Len(s))
    BY <1>1, <1>2 DEF Latest
  <2>2. \A i \in (cut + 1)..Len(s) : s[i] \in Minutes
    BY <1>1, <1>2
  <2>3. cut \in 0..Len(s) /\ cut + 1 \in Int /\ cut + 1 <= Len(s)
    BY <1>1, <1>2
  <2> HIDE DEF cut
  <2>4. /\ SubSeq(s, cut + 1, Len(s)) \in Seq(Minutes)
        /\ Len(SubSeq(s, cut + 1, Len(s))) = Len(s) - (cut + 1) + 1
        /\ \A i \in 1..(Len(s) - (cut + 1) + 1) :
             SubSeq(s, cut + 1, Len(s))[i] = s[cut + 1 + i - 1]
    BY <2>2, <2>3, <1>1, SubSeqProperties
  <2>5. /\ Len(Latest(s)) = Len(s) - cut
        /\ \A i \in 1..(Len(s) - cut) : Latest(s)[i] = s[i + cut]
    BY <2>1, <2>3, <2>4, <1>1
  <2>6. QED
    BY <2>1, <2>3, <2>4, <2>5
<1>3. CASE ~(Len(s) > maxAttempts + 1)
  <2>1. Latest(s) = s
    BY <1>3 DEF Latest
  <2>2. WITNESS 0 \in 0..Len(s)
  <2>3. QED
    BY <2>1, <1>1
<1>4. QED
  BY <1>2, <1>3

\* The same for a sequence known by another name.
LEMMA CutsNamed ==
  ASSUME AccountsTypeOK, NEW s \in Seq(Minutes), NEW w, w = Latest(s)
  PROVE  \E cut \in 0..Len(s) :
           /\ w \in Seq(Minutes)
           /\ Len(w) = Len(s) - cut
           /\ \A i \in 1..(Len(s) - cut) : w[i] = s[i + cut]
BY LatestCuts, Zenon

-----------------------------------------------------------------------------
(***************************************************************************)
(* Types.                                                                  *)
(***************************************************************************)
\* A request that begins with values of their types keeps the types,
LEMMA BeginType ==
  ASSUME AccountsTypeOK, NEW h \in Requesters, NEW label \in Stages, NEW locals \in Copies,
         Begin(h, label, locals), UNCHANGED <<minute, maxAttempts, row, signedIn>>
  PROVE  AccountsTypeOK'
<1>1. /\ doing' \in [Requesters -> Stages]
      /\ copies' \in [Requesters -> Copies]
      /\ disturbed' \in BOOLEAN
  BY DEF AccountsTypeOK, Begin
<1>2. chosen' \in Passwords /\ firstChanges' \in 0..2 /\ wrongs' \in Seq(Minutes)
  <2>1. Forget \/ UNCHANGED <<chosen, firstChanges, wrongs>>
    BY Zenon DEF Begin
  <2>2. CASE Forget
    BY <2>2, AccountsAssumption DEF Forget
  <2>3. CASE UNCHANGED <<chosen, firstChanges, wrongs>>
    BY <2>3 DEF AccountsTypeOK
  <2>4. QED
    BY <2>1, <2>2, <2>3
<1>3. QED
  BY <1>1, <1>2 DEF AccountsTypeOK

\* ... so does one that ends,
LEMMA DoneType ==
  ASSUME AccountsTypeOK, NEW h \in Requesters, Ended(h)
  PROVE  doing' \in [Requesters -> Stages] /\ copies' \in [Requesters -> Copies]
BY Constants DEF AccountsTypeOK, Ended, Stages

\* ... and one that saves.
LEMMA SaveType ==
  ASSUME AccountsTypeOK, NEW copy \in Rows, SaveRow(copy)
  PROVE  row' \in Rows /\ disturbed' \in BOOLEAN
BY DEF AccountsTypeOK, SaveRow, Saved, SaveFailed

\* A row with other columns of their types is a row.
LEMMA Updates ==
  ASSUME NEW r \in Rows, NEW f \in 0..20, NEW n \in 0..Many,
         NEW u \in {NotLocked} \cup 0..(MaxMinute + getLockoutMinutes)
  PROVE  /\ [r EXCEPT !.failed = f, !.lockedUntil = u] \in Rows
         /\ [r EXCEPT !.failed = f, !.lockedUntil = u, !.logins = n] \in Rows
BY DEF Rows

\* The rows that requests compute are rows.
LEMMA Computed ==
  ASSUME AccountsTypeOK
  PROVE  /\ Unlocked \in Rows
         /\ \A password \in Passwords : [row EXCEPT !.password = password,
                                                    !.legacy = FALSE] \in Rows
         /\ \A h \in Requesters : Success(h) \in Rows
         /\ \A h \in Requesters :
              doing[h] = "check" /\ Counting => Failure(h) \in Rows
<1>1. row \in Rows /\ \A h \in Requesters : copies[h].row \in Rows
  BY DEF AccountsTypeOK, Copies
<1>2. Unlocked \in Rows
  <2>1. 0 \in 0..20 /\ NotLocked \in {NotLocked} \cup 0..(MaxMinute + getLockoutMinutes)
    OBVIOUS
  <2>2. 0 \in 0..Many
    BY DEF Many
  <2>3. QED
    BY <1>1, <2>1, <2>2, Updates, Zenon DEF Unlocked
<1>3. \A password \in Passwords : [row EXCEPT !.password = password,
                                              !.legacy = FALSE] \in Rows
  BY <1>1 DEF Rows
<1>4. ASSUME NEW h \in Requesters
      PROVE  Success(h) \in Rows
  <2>1. More(copies[h].row.logins) \in 0..Many
    BY <1>1 DEF More, Many, Rows
  <2>2. 0 \in 0..20 /\ NotLocked \in {NotLocked} \cup 0..(MaxMinute + getLockoutMinutes)
    OBVIOUS
  <2>3. QED
    BY <1>1, <2>1, <2>2, Updates, Zenon DEF Success
<1>5. ASSUME NEW h \in Requesters, doing[h] = "check", Counting
      PROVE  Failure(h) \in Rows
  <2> DEFINE r == copies[h].row
             f == r.failed + 1
             u == IF f >= copies[h].max /\ getLockoutMinutes > 0
                  THEN copies[h].read + getLockoutMinutes ELSE r.lockedUntil
  <2>1. r \in Rows /\ copies[h].read \in Minutes /\ copies[h].max \in Maxima
    BY DEF AccountsTypeOK, Copies
  <2>2. r.failed < copies[h].max
    BY <1>5 DEF Counting
  <2>3. f \in 0..20
    BY <2>1, <2>2, Constants DEF Rows
  <2>4. u \in {NotLocked} \cup 0..(MaxMinute + getLockoutMinutes)
    BY <2>1, Constants, AccountsAssumption DEF Rows, Minutes
  <2>5. Failure(h) = [r EXCEPT !.failed = f, !.lockedUntil = u]
    BY DEF Failure
  <2> HIDE DEF r, f, u
  <2>6. 0 \in 0..Many
    BY DEF Many
  <2>7. [r EXCEPT !.failed = f, !.lockedUntil = u] \in Rows
    BY <2>1, <2>3, <2>4, <2>6, Updates, Zenon
  <2>8. QED
    BY <2>5, <2>7, Zenon
<1>6. QED
  BY <1>2, <1>3, <1>4, <1>5

\* Every step keeps the types; that failures stay in range needs Counting.
LEMMA TypeStep ==
  ASSUME AccountsTypeOK, Counting, [AccountsNext]_accountsVars
  PROVE  AccountsTypeOK'
<1> USE DEF history
<1>1. ASSUME NEW h \in Requesters, NEW password \in Passwords, Login(h, password)
      PROVE  AccountsTypeOK'
  <2>1. CASE Begin(h, "refused", NoCopy)
    BY <1>1, <2>1, BeginType, Constants DEF Login, Stages
  <2>2. CASE Begin(h, "unlock", LoginLocals(Unlocked, password))
    <3>1. LoginLocals(Unlocked, password) \in Copies
      BY Computed DEF LoginLocals, Copies, AccountsTypeOK
    <3>2. QED
      BY <1>1, <2>2, <3>1, BeginType DEF Login, Stages
  <2>3. CASE Begin(h, "check", LoginLocals(row, password))
    <3>1. LoginLocals(row, password) \in Copies
      BY DEF LoginLocals, Copies, AccountsTypeOK
    <3>2. QED
      BY <1>1, <2>3, <3>1, BeginType DEF Login, Stages
  <2>4. QED
    BY <1>1, <2>1, <2>2, <2>3 DEF Login
<1>2. ASSUME NEW h \in Requesters, Refused(h)
      PROVE  AccountsTypeOK'
  BY <1>2, DoneType DEF Refused, AccountsTypeOK
<1>3. ASSUME NEW h \in Requesters, SaveUnlocked(h) \/ SaveRehashed(h)
      PROVE  AccountsTypeOK'
  <2>1. copies[h].row \in Rows
    BY DEF AccountsTypeOK, Copies
  <2>2. row' \in Rows /\ disturbed' \in BOOLEAN
    BY <1>3, <2>1, SaveType DEF SaveUnlocked, SaveRehashed
  <2>3. doing' \in [Requesters -> Stages]
    BY <1>3 DEF SaveUnlocked, SaveRehashed, AccountsTypeOK, Stages
  <2>4. QED
    BY <1>3, <2>2, <2>3 DEF SaveUnlocked, SaveRehashed, AccountsTypeOK
<1>4. ASSUME NEW h \in Requesters, WrongPassword(h)
      PROVE  AccountsTypeOK'
  <2>1. Failure(h) \in Rows
    BY <1>4, Computed DEF WrongPassword
  <2>2. row' \in Rows /\ disturbed' \in BOOLEAN
    BY <1>4, <2>1, SaveType DEF WrongPassword
  <2>3. Latest(Append(wrongs, copies[h].read)) \in Seq(Minutes)
    <3>1. Append(wrongs, copies[h].read) \in Seq(Minutes)
      BY DEF AccountsTypeOK, Copies
    <3>2. QED
      BY <3>1, LatestCuts
  <2>4. wrongs' \in Seq(Minutes)
    BY <1>4, <2>3 DEF WrongPassword
  <2>5. QED
    BY <1>4, <2>2, <2>4, DoneType DEF WrongPassword, AccountsTypeOK
<1>5. ASSUME NEW h \in Requesters, RightPassword(h)
      PROVE  AccountsTypeOK'
  <2>1. doing' \in [Requesters -> Stages]
    BY <1>5 DEF RightPassword, AccountsTypeOK, Stages
  <2>2. [copies[h] EXCEPT !.row.legacy = FALSE] \in Copies
    BY DEF AccountsTypeOK, Copies, Rows
  <2>3. copies' \in [Requesters -> Copies]
    BY <1>5, <2>2 DEF RightPassword, AccountsTypeOK
  <2>4. QED
    BY <1>5, <2>1, <2>3 DEF RightPassword, AccountsTypeOK
<1>6. ASSUME NEW h \in Requesters, SaveSuccess(h)
      PROVE  AccountsTypeOK'
  <2>1. row' \in Rows /\ disturbed' \in BOOLEAN
    BY <1>6, Computed, SaveType DEF SaveSuccess
  <2>2. QED
    BY <1>6, <2>1, DoneType DEF SaveSuccess, AccountsTypeOK
<1>7. \A copy \in Rows, input \in Passwords : ChangeLocals(copy, input) \in Copies
  BY Constants DEF ChangeLocals, Copies
<1>8. ASSUME NEW h \in Requesters, NEW current \in Passwords, NEW new \in Passwords,
             changePassword(h, current, new)
      PROVE  AccountsTypeOK'
  BY <1>8, <1>7, Computed, BeginType DEF changePassword, Stages
<1>9. ASSUME NEW h \in Requesters, NEW new \in Passwords, firstLoginChange(h, new)
      PROVE  AccountsTypeOK'
  <2>1. [row EXCEPT !.password = new, !.legacy = FALSE, !.logins = More(@)] \in Rows
    <3>1. More(row.logins) \in 0..Many
      BY DEF AccountsTypeOK, Rows, More, Many
    <3>2. \A n \in 0..Many :
            [row EXCEPT !.password = new, !.legacy = FALSE, !.logins = n] \in Rows
      BY DEF AccountsTypeOK, Rows
    <3>3. QED
      BY <3>1, <3>2, Zenon
  <2>2. QED
    BY <1>9, <2>1, <1>7, BeginType DEF firstLoginChange, Stages
<1>10. ASSUME NEW h \in Requesters, updateProfile(h)
       PROVE  AccountsTypeOK'
  <2>1. ChangeLocals(row, DefaultPassword) \in Copies
    BY <1>7, AccountsAssumption DEF AccountsTypeOK
  <2>2. QED
    BY <1>10, <2>1, BeginType DEF updateProfile, Stages
<1>11. ASSUME NEW h \in Requesters, SavePassword(h)
       PROVE  AccountsTypeOK'
  <2>1. copies[h].row \in Rows /\ copies[h].input \in Passwords
    BY DEF AccountsTypeOK, Copies
  <2>2. row' \in Rows /\ disturbed' \in BOOLEAN
    BY <1>11, <2>1, SaveType DEF SavePassword, SaveRow
  <2>3. chosen' \in Passwords /\ firstChanges' \in 0..2
    BY <1>11, <2>1 DEF SavePassword, AccountsTypeOK
  <2>4. QED
    BY <1>11, <2>2, <2>3, DoneType DEF SavePassword, AccountsTypeOK
<1>12. ASSUME NEW h \in Requesters, SaveProfile(h)
       PROVE  AccountsTypeOK'
  <2>1. copies[h].row \in Rows
    BY DEF AccountsTypeOK, Copies
  <2>2. row' \in Rows /\ disturbed' \in BOOLEAN
    BY <1>12, <2>1, SaveType DEF SaveProfile
  <2>3. QED
    BY <1>12, <2>2, DoneType DEF SaveProfile, AccountsTypeOK
<1>13. ASSUME NEW m \in Maxima, systemConfigMaximum(m)
       PROVE  AccountsTypeOK'
  <2>1. disturbed' \in BOOLEAN
    BY <1>13, Zenon DEF systemConfigMaximum
  <2>2. QED
    BY <1>13, <2>1 DEF systemConfigMaximum, AccountsTypeOK
<1>14. CASE MinutePasses
  BY <1>14, AccountsAssumption DEF MinutePasses, AccountsTypeOK, Minutes
<1>15. CASE UNCHANGED accountsVars
  BY <1>15 DEF accountsVars, AccountsTypeOK
<1>16. QED
  BY <1>1, <1>2, <1>3, <1>4, <1>5, <1>6, <1>8, <1>9, <1>10, <1>11, <1>12, <1>13,
     <1>14, <1>15 DEF AccountsNext, Request

-----------------------------------------------------------------------------
(***************************************************************************)
(* What the parts of an action do.                                         *)
(***************************************************************************)
\* Begin moves one handler and gives it its copy.
LEMMA BeginEffect ==
  ASSUME AccountsTypeOK, NEW h \in Requesters, NEW label, NEW locals, Begin(h, label, locals)
  PROVE  /\ doing'[h] = label /\ copies'[h] = locals
         /\ \A g \in Requesters \ {h} : doing'[g] = doing[g] /\ copies'[g] = copies[g]
BY DEF AccountsTypeOK, Begin

\* Ended makes the handler idle and leaves the others alone.
LEMMA DoneEffect ==
  ASSUME AccountsTypeOK, NEW h \in Requesters, Ended(h)
  PROVE  /\ doing'[h] = "idle" /\ copies'[h] = NoCopy
         /\ \A g \in Requesters \ {h} : doing'[g] = doing[g] /\ copies'[g] = copies[g]
BY DEF AccountsTypeOK, Ended

\* The types of counts, maxima and copies.
LEMMA Numbers ==
  ASSUME AccountsTypeOK
  PROVE  /\ maxAttempts \in Maxima /\ maxAttempts \in 1..20
         /\ row.failed \in 0..20
         /\ \A h \in Requesters :
              /\ copies[h].row \in Rows
              /\ copies[h].row.failed \in 0..20
              /\ copies[h].max \in Maxima /\ copies[h].max \in 1..20
              /\ copies[h].read \in Minutes
<1>1. row \in Rows /\ copies \in [Requesters -> Copies] /\ maxAttempts \in Maxima
  BY DEF AccountsTypeOK
<1>2. \A r \in Rows : r.failed \in 0..20
  BY DEF Rows
<1>3. \A h \in Requesters : /\ copies[h].row \in Rows /\ copies[h].max \in Maxima
                          /\ copies[h].read \in Minutes
  BY <1>1 DEF Copies
<1>4. \A m \in Maxima : m \in 1..20
  BY Constants
<1>5. QED
  BY <1>1, <1>2, <1>3, <1>4

\* Minutes are numbers, and the lockout does not change.
LEMMA TimesAreNumbers ==
  ASSUME AccountsTypeOK
  PROVE  /\ minute \in Nat /\ \A i \in DOMAIN wrongs : wrongs[i] \in Nat /\ i \in Nat
         /\ Len(wrongs) \in Nat
         /\ \A h \in Requesters : copies[h].read \in Nat
         /\ Lockout \in Nat /\ Lockout' = Lockout
<1>1. \A t \in Minutes : t \in Nat
  BY AccountsAssumption DEF Minutes
<1>2. /\ \A i \in DOMAIN wrongs : wrongs[i] \in Minutes /\ i \in Nat
      /\ Len(wrongs) \in Nat /\ minute \in Minutes
  BY DEF AccountsTypeOK
<1>3. \A h \in Requesters : copies[h].read \in Minutes
  BY Numbers
<1>4. Lockout \in Nat /\ Lockout' = Lockout
  BY Constants DEF Lockout, getLockoutMinutes
<1>5. QED
  BY <1>1, <1>2, <1>3, <1>4

\* The copy of an idle handler has no failures and no lock.
LEMMA IdleFields ==
  NoCopy.row.failed = 0 /\ NoCopy.row.lockedUntil = NotLocked
BY DEF NoCopy, NewRow

\* Unlocking clears the lock and keeps password and logins.
LEMMA UnlockedFields ==
  ASSUME AccountsTypeOK
  PROVE  /\ Unlocked.failed = 0 /\ Unlocked.lockedUntil = NotLocked
         /\ Unlocked.password = row.password /\ Unlocked.logins = row.logins
BY DEF Unlocked, AccountsTypeOK, Rows

\* Success clears the lock and counts a login.
LEMMA SuccessFields ==
  ASSUME AccountsTypeOK, NEW h \in Requesters
  PROVE  /\ Success(h).failed = 0 /\ Success(h).lockedUntil = NotLocked
         /\ Success(h).password = copies[h].row.password
         /\ Success(h).logins = More(copies[h].row.logins)
<1>1. copies[h].row \in Rows
  BY DEF AccountsTypeOK, Copies
<1> DEFINE r == copies[h].row
           n == More(r.logins)
<1> HIDE DEF n
<1>2. Success(h) = [r EXCEPT !.failed = 0, !.lockedUntil = NotLocked, !.logins = n]
  BY Zenon DEF Success, n
<1> HIDE DEF r
<1>3. r \in Rows
  BY <1>1 DEF r
<1>4. /\ Success(h).failed = 0 /\ Success(h).lockedUntil = NotLocked
      /\ Success(h).password = r.password /\ Success(h).logins = n
  BY <1>2, <1>3 DEF Rows
<1>5. QED
  BY <1>4 DEF r, n

\* A failure counts, locks at the maximum, and keeps password and logins.
LEMMA FailureFields ==
  ASSUME AccountsTypeOK, NEW h \in Requesters
  PROVE  /\ Failure(h).failed = copies[h].row.failed + 1
         /\ Failure(h).failed >= copies[h].max
              => Failure(h).lockedUntil = copies[h].read + Lockout
         /\ ~(Failure(h).failed >= copies[h].max)
              => Failure(h).lockedUntil = copies[h].row.lockedUntil
         /\ Failure(h).password = copies[h].row.password
         /\ Failure(h).logins = copies[h].row.logins
<1> DEFINE r == copies[h].row
           f == r.failed + 1
           u == IF f >= copies[h].max /\ getLockoutMinutes > 0
                THEN copies[h].read + getLockoutMinutes ELSE r.lockedUntil
<1>1. r \in Rows
  BY DEF AccountsTypeOK, Copies
<1>2. Failure(h) = [r EXCEPT !.failed = f, !.lockedUntil = u]
  BY DEF Failure
<1>3. /\ f >= copies[h].max => u = copies[h].read + getLockoutMinutes
      /\ ~(f >= copies[h].max) => u = r.lockedUntil
  BY Constants
<1> HIDE DEF r, f, u
<1>4. /\ Failure(h).failed = f /\ Failure(h).lockedUntil = u
      /\ Failure(h).password = r.password /\ Failure(h).logins = r.logins
  BY <1>1, <1>2 DEF Rows
<1>5. QED
  BY <1>3, <1>4 DEF r, f, Lockout

\* A changed password leaves count and lock as they were.
LEMMA ChosenFields ==
  ASSUME AccountsTypeOK, NEW new, NEW n
  PROVE  LET changed == [row EXCEPT !.password = new, !.legacy = FALSE]
             counted == [row EXCEPT !.password = new, !.legacy = FALSE, !.logins = n]
         IN /\ changed.password = new /\ counted.password = new
            /\ changed.failed = row.failed /\ counted.failed = row.failed
            /\ changed.lockedUntil = row.lockedUntil
            /\ counted.lockedUntil = row.lockedUntil
            /\ changed.logins = row.logins /\ counted.logins = n
BY DEF AccountsTypeOK, Rows

\* What a handler takes with it.
LEMMA LocalsFields ==
  ASSUME NEW copy, NEW input
  PROVE  /\ LoginLocals(copy, input).row = copy
         /\ LoginLocals(copy, input).input = input
         /\ LoginLocals(copy, input).read = minute
         /\ LoginLocals(copy, input).max = maxAttempts
         /\ ChangeLocals(copy, input).row = copy
         /\ ChangeLocals(copy, input).input = input
BY DEF LoginLocals, ChangeLocals, NoCopy

-----------------------------------------------------------------------------
(***************************************************************************)
(* The lock and the count.                                                 *)
(***************************************************************************)
\* Coherence depends on two columns only.
LEMMA SameCoherence ==
  ASSUME NEW r, NEW s, Coherent(r), s.failed = r.failed, s.lockedUntil = r.lockedUntil
  PROVE  Coherent(s)
BY DEF Coherent

\* A row without failures and lock is coherent.
LEMMA ClearCoherence ==
  ASSUME NEW r, r.failed = 0, r.lockedUntil = NotLocked
  PROVE  Coherent(r)
BY Constants DEF Coherent

\* A failure is added below the maximum only, and locks when it reaches it.
LEMMA FailureCoherence ==
  ASSUME AccountsTypeOK, Counting, NEW h \in Requesters, doing[h] = "check",
         Coherent(copies[h].row)
  PROVE  Coherent(Failure(h))
<1> DEFINE r == copies[h].row
           m == copies[h].max
<1>1. r.failed \in Nat /\ r.failed < m /\ m \in Maxima /\ m \in Nat
  BY Numbers DEF Counting
<1>2. /\ Failure(h).failed = r.failed + 1
      /\ ~(Failure(h).failed >= m) => Failure(h).lockedUntil = r.lockedUntil
  BY FailureFields
<1>3. \A n \in Maxima : n \in Nat
  BY Constants
<1> HIDE DEF r, m
<1>4. ASSUME NEW n \in Maxima, \A o \in Maxima : o <= n
      PROVE  Failure(h).failed <= n
  <2>1. m <= n /\ n \in Nat
    BY <1>1, <1>3, <1>4
  <2>2. r.failed + 1 <= n
    BY <1>1, <2>1
  <2>3. QED
    BY <1>2, <2>2
<1>5. ASSUME Failure(h).lockedUntil # NotLocked
      PROVE  \E n \in Maxima : Failure(h).failed >= n
  <2>1. CASE Failure(h).failed >= m
    BY <1>1, <2>1
  <2>2. CASE ~(Failure(h).failed >= m)
    <3>1. PICK n \in Maxima : r.failed >= n
      BY <1>2, <1>5, <2>2 DEF Coherent, r
    <3>2. QED
      BY <1>1, <1>2, <1>3, <3>1
  <2>3. QED
    BY <2>1, <2>2
<1>6. QED
  BY <1>4, <1>5 DEF Coherent

\* A request begins with a coherent copy, and one to be checked below the maximum.
LEMMA BeginCounted ==
  ASSUME AccountsTypeOK, LockedIsCounted, Counting, NEW h \in Requesters, NEW label, NEW locals,
         Begin(h, label, locals), row' = row, Coherent(locals.row),
         label \in {"unlock", "check"} => locals.row.failed < locals.max
  PROVE  LockedIsCounted' /\ Counting'
BY BeginEffect DEF LockedIsCounted, Coherent, Counting

\* A request that ends with a coherent row keeps the lock and the count together.
LEMMA DoneCounted ==
  ASSUME AccountsTypeOK, LockedIsCounted, Counting, NEW h \in Requesters, Ended(h),
         Coherent(row')
  PROVE  LockedIsCounted' /\ Counting'
<1>1. Coherent(NoCopy.row)
  BY IdleFields, ClearCoherence
<1>2. QED
  BY <1>1, DoneEffect DEF LockedIsCounted, Coherent, Counting

\* Every save writes a coherent row, or none.
LEMMA CountStep ==
  ASSUME AccountsTypeOK, LockedIsCounted, Counting, [AccountsNext]_accountsVars
  PROVE  LockedIsCounted' /\ Counting'
<1> USE DEF history
<1>c. Coherent(row) /\ \A h \in Requesters : Coherent(copies[h].row)
  BY DEF LockedIsCounted
<1>1. ASSUME NEW h \in Requesters, NEW password \in Passwords, Login(h, password)
      PROVE  LockedIsCounted' /\ Counting'
  <2>1. CASE Begin(h, "refused", NoCopy)
    BY <1>1, <2>1, BeginCounted, IdleFields, ClearCoherence DEF Login
  <2>2. CASE Begin(h, "unlock", LoginLocals(Unlocked, password))
    <3>1. Coherent(Unlocked) /\ Unlocked.failed < maxAttempts
      BY UnlockedFields, ClearCoherence, Constants DEF AccountsTypeOK
    <3>2. QED
      BY <1>1, <2>2, <3>1, BeginCounted, LocalsFields DEF Login
  <2>3. CASE ~TooMany /\ Begin(h, "check", LoginLocals(row, password))
    <3>1. row.failed < maxAttempts
      BY <2>3, Numbers DEF TooMany
    <3>2. QED
      BY <1>1, <1>c, <2>3, <3>1, BeginCounted, LocalsFields DEF Login
  <2>4. QED
    BY <1>1, <2>1, <2>2, <2>3 DEF Login
<1>2. ASSUME NEW h \in Requesters, Refused(h)
      PROVE  LockedIsCounted' /\ Counting'
  BY <1>2, <1>c, DoneCounted DEF Refused
<1>3. ASSUME NEW h \in Requesters, SaveUnlocked(h) \/ SaveRehashed(h)
      PROVE  LockedIsCounted' /\ Counting'
  <2>1. Coherent(row') /\ copies' = copies
    BY <1>3, <1>c DEF SaveUnlocked, SaveRehashed, SaveRow, Saved, SaveFailed
  <2>2. \A g \in Requesters :
          doing'[g] \in {"unlock", "check"} => doing[g] \in {"unlock", "check"}
    BY <1>3 DEF SaveUnlocked, SaveRehashed, AccountsTypeOK
  <2>3. QED
    BY <1>c, <2>1, <2>2 DEF LockedIsCounted, Coherent, Counting
<1>4. ASSUME NEW h \in Requesters, WrongPassword(h)
      PROVE  LockedIsCounted' /\ Counting'
  <2>1. Coherent(row')
    BY <1>4, <1>c, FailureCoherence DEF WrongPassword, SaveRow, Saved, SaveFailed
  <2>2. QED
    BY <1>4, <2>1, DoneCounted DEF WrongPassword
<1>5. ASSUME NEW h \in Requesters, RightPassword(h)
      PROVE  LockedIsCounted' /\ Counting'
  <2>1. \A g \in Requesters : /\ copies'[g].row.failed = copies[g].row.failed
                            /\ copies'[g].row.lockedUntil = copies[g].row.lockedUntil
                            /\ copies'[g].max = copies[g].max
    BY <1>5 DEF RightPassword, AccountsTypeOK, Copies, Rows
  <2>2. \A g \in Requesters : doing'[g] \in {"unlock", "check"} => doing'[g] = doing[g]
    BY <1>5 DEF RightPassword, AccountsTypeOK
  <2>3. row' = row
    BY <1>5 DEF RightPassword
  <2>4. QED
    BY <1>c, <2>1, <2>2, <2>3, SameCoherence DEF LockedIsCounted, Coherent, Counting
<1>6. ASSUME NEW h \in Requesters, SaveSuccess(h)
      PROVE  LockedIsCounted' /\ Counting'
  <2>1. Coherent(row')
    BY <1>6, <1>c, SuccessFields, ClearCoherence
       DEF SaveSuccess, SaveRow, Saved, SaveFailed
  <2>2. QED
    BY <1>6, <2>1, DoneCounted DEF SaveSuccess
<1>7. ASSUME NEW h \in Requesters, NEW current \in Passwords, NEW new \in Passwords,
             changePassword(h, current, new)
      PROVE  LockedIsCounted' /\ Counting'
  <2> DEFINE copy == [row EXCEPT !.password = new, !.legacy = FALSE]
  <2>0. copy.failed = row.failed /\ copy.lockedUntil = row.lockedUntil
    BY ChosenFields
  <2> HIDE DEF copy
  <2>1. Coherent(copy)
    BY <1>c, <2>0, SameCoherence
  <2>2. Begin(h, "changePassword", ChangeLocals(copy, new)) /\ row' = row
    BY <1>7 DEF changePassword, copy
  <2>3. QED
    BY <2>1, <2>2, BeginCounted, LocalsFields
<1>8. ASSUME NEW h \in Requesters, NEW new \in Passwords, firstLoginChange(h, new)
      PROVE  LockedIsCounted' /\ Counting'
  <2> DEFINE n == More(row.logins)
             copy == [row EXCEPT !.password = new, !.legacy = FALSE, !.logins = n]
  <2> HIDE DEF n
  <2>0. copy.failed = row.failed /\ copy.lockedUntil = row.lockedUntil
    BY ChosenFields
  <2>1. Coherent(copy)
    <3> HIDE DEF copy
    <3>1. QED
      BY <1>c, <2>0, SameCoherence
  <2>2. Begin(h, "firstLogin", ChangeLocals(copy, new)) /\ row' = row
    BY <1>8 DEF firstLoginChange, n
  <2> HIDE DEF copy
  <2>3. QED
    BY <2>1, <2>2, BeginCounted, LocalsFields
<1>9. ASSUME NEW h \in Requesters, updateProfile(h)
      PROVE  LockedIsCounted' /\ Counting'
  BY <1>9, <1>c, BeginCounted, LocalsFields DEF updateProfile
<1>10. ASSUME NEW h \in Requesters, SavePassword(h) \/ SaveProfile(h)
       PROVE  LockedIsCounted' /\ Counting'
  <2>1. Coherent(row')
    BY <1>10, <1>c DEF SavePassword, SaveProfile, SaveRow, Saved, SaveFailed
  <2>2. QED
    BY <1>10, <2>1, DoneCounted DEF SavePassword, SaveProfile
<1>11. ASSUME NEW m \in Maxima, systemConfigMaximum(m)
       PROVE  LockedIsCounted' /\ Counting'
  BY <1>11 DEF systemConfigMaximum, LockedIsCounted, Coherent, Counting
<1>12. CASE MinutePasses
  BY <1>12 DEF MinutePasses, LockedIsCounted, Coherent, Counting
<1>13. CASE UNCHANGED accountsVars
  BY <1>13 DEF accountsVars, LockedIsCounted, Coherent, Counting
<1>14. QED
  BY <1>1, <1>2, <1>3, <1>4, <1>5, <1>6, <1>7, <1>8, <1>9, <1>10, <1>11, <1>12, <1>13
     DEF AccountsNext, Request

-----------------------------------------------------------------------------
(***************************************************************************)
(* Undisturbed requests.                                                   *)
(***************************************************************************)
\* The heart of the matter: a wrong password read in time keeps the record spaced,
\* and leaves behind only what was read a lockout before it.
LEMMA Recorded ==
  ASSUME AccountsTypeOK, Counting, WrongsAreSpaced, NEW h \in Requesters, doing[h] = "check",
         Timely(h), maxAttempts' = maxAttempts,
         wrongs' = Latest(Append(wrongs, copies[h].read))
  PROVE  /\ WrongsAreSpaced'
         /\ \A i \in DOMAIN wrongs' :
              /\ wrongs'[i] <= copies[h].read
              /\ i + copies[h].row.failed + 1 <= Len(wrongs')
                   => wrongs'[i] + Lockout <= copies[h].read
<1> DEFINE t == copies[h].read
           f == copies[h].row.failed
           n == Len(wrongs)
           s == Append(wrongs, t)
           m == maxAttempts
<1>1. /\ wrongs \in Seq(Minutes) /\ t \in Minutes /\ s \in Seq(Minutes)
      /\ n \in Nat /\ Len(s) = n + 1 /\ DOMAIN wrongs = 1..n
      /\ s[n + 1] = t /\ \A i \in 1..n : s[i] = wrongs[i] /\ s[i] \in Minutes
  BY Numbers DEF AccountsTypeOK
<1>2. m \in 1..20 /\ f \in 0..20 /\ f < m /\ copies[h].max = m
  BY Numbers DEF Counting, Timely
<1>3. /\ \A i \in 1..n : wrongs[i] <= t
      /\ \A i \in 1..n : i + f <= n => wrongs[i] + Lockout <= t
  BY <1>1 DEF Timely, LeftBehind
<1>4. \A i \in Minutes : i \in Nat
  BY AccountsAssumption DEF Minutes
<1>5. Lockout \in Nat
  BY Constants DEF Lockout
<1>0. PICK w : w = wrongs'
  OBVIOUS
<1>6. PICK cut \in 0..Len(s) :
        /\ w \in Seq(Minutes)
        /\ Len(w) = Len(s) - cut
        /\ \A i \in 1..(Len(s) - cut) : w[i] = s[i + cut]
  <2>1. w = Latest(s) /\ s \in Seq(Minutes)
    BY <1>1, <1>0
  <2> HIDE DEF s
  <2>2. QED
    BY <2>1, CutsNamed
<1>7. /\ Len(w) = n + 1 - cut /\ cut \in 0..(n + 1)
      /\ DOMAIN w = 1..(n + 1 - cut) /\ cut \in Nat
  <2> HIDE DEF s, n
  <2>1. QED
    BY <1>1, <1>6
<1>8. \A i, j \in 1..n : j >= i + m => wrongs[j] - wrongs[i] >= Lockout
  BY <1>1 DEF WrongsAreSpaced, Lockout
<1> HIDE DEF t, f, n, s, m
<1>9. \A i \in 1..(n + 1) :
        /\ s[i] \in Nat
        /\ s[i] <= t
        /\ i + f <= n => s[i] + Lockout <= t
  <2> TAKE i \in 1..(n + 1)
  <2>1. CASE i \in 1..n
    <3>1. s[i] = wrongs[i] /\ wrongs[i] \in Nat
      BY <1>1, <1>4, <2>1
    <3>2. wrongs[i] <= t /\ (i + f <= n => wrongs[i] + Lockout <= t)
      BY <1>3, <2>1
    <3>3. QED
      BY <3>1, <3>2
  <2>2. CASE i = n + 1
    <3>1. s[i] = t /\ t \in Nat
      BY <1>1, <1>4, <2>2
    <3>2. ~(i + f <= n)
      BY <1>1, <1>2, <2>2
    <3>3. QED
      BY <3>1, <3>2
  <2>3. QED
    BY <1>1, <2>1, <2>2
<1>10. ASSUME NEW i \in 1..(n + 1), NEW j \in 1..(n + 1), j >= i + m
       PROVE  s[j] - s[i] >= Lockout
  <2>1. i \in 1..n
    BY <1>1, <1>2, <1>10
  <2>2. CASE j \in 1..n
    BY <1>1, <1>8, <1>10, <2>1, <2>2
  <2>3. CASE j = n + 1
    <3>1. i + f <= n
      BY <1>1, <1>2, <1>10, <2>3
    <3>2. s[i] + Lockout <= t /\ s[i] \in Nat /\ s[j] = t
      BY <1>1, <1>9, <2>3, <3>1
    <3>3. QED
      BY <1>1, <1>4, <1>5, <3>2
  <2>4. QED
    BY <1>1, <2>2, <2>3
<1>11. \A i \in 1..(n + 1 - cut) : i + cut \in 1..(n + 1) /\ w[i] = s[i + cut]
  BY <1>1, <1>6, <1>7
<1>12. ASSUME NEW i \in DOMAIN w, NEW j \in DOMAIN w, j >= i + m
       PROVE  w[j] - w[i] >= Lockout
  <2>1. /\ i + cut \in 1..(n + 1) /\ j + cut \in 1..(n + 1)
        /\ w[i] = s[i + cut] /\ w[j] = s[j + cut]
    BY <1>7, <1>11
  <2>2. j + cut >= (i + cut) + m
    BY <1>1, <1>2, <1>7, <1>12
  <2>3. QED
    BY <1>10, <2>1, <2>2
<1>13. WrongsAreSpaced'
  BY <1>12, <1>0 DEF WrongsAreSpaced, Lockout, m, getLockoutMinutes
<1>14. ASSUME NEW i \in DOMAIN w
       PROVE  /\ w[i] <= t
              /\ i + f + 1 <= Len(w) => w[i] + Lockout <= t
  <2>1. i \in Nat /\ i + cut \in 1..(n + 1) /\ w[i] = s[i + cut]
    BY <1>1, <1>7, <1>11
  <2>2. i + f + 1 <= Len(w) => (i + cut) + f <= n
    BY <1>1, <1>2, <1>6, <1>7, <2>1
  <2>3. QED
    BY <1>9, <2>1, <2>2
<1>15. QED
  BY <1>13, <1>14, <1>0 DEF t, f

\* A request alone is all that there is to look at.
LEMMA AloneIsEnough ==
  ASSUME NEW h \in Requesters, \A g \in Requesters \ {h} : doing'[g] = "idle", Keeps(h)'
  PROVE  Alone' /\ \A g \in Requesters : Keeps(g)'
BY DEF Alone, Keeps, KeepsCount, KeepsPassword, KeepsLogins, Timely

\* An idle handler promises nothing.
LEMMA IdleKeeps ==
  ASSUME NEW h \in Requesters, doing'[h] = "idle"
  PROVE  Keeps(h)'
BY DEF Keeps, KeepsCount, KeepsPassword, KeepsLogins, Timely

\* The columns and the record that make the row be in order.
LEMMA OrderKept ==
  ASSUME AccountsTypeOK, RowInOrder, Past,
         row'.failed = row.failed, row'.lockedUntil = row.lockedUntil,
         minute' \in Minutes, minute' >= minute, UNCHANGED <<maxAttempts, wrongs>>
  PROVE  RowInOrder' /\ Past'
<1>1. /\ \A i \in DOMAIN wrongs : wrongs[i] \in Nat
      /\ minute \in Nat /\ minute' \in Nat /\ Lockout \in Nat /\ Lockout' = Lockout
  BY Constants, AccountsAssumption DEF AccountsTypeOK, Minutes, Lockout, getLockoutMinutes
<1>2. QED
  BY <1>1 DEF RowInOrder, Past, LeftBehind, LockCovers

\* An empty record is in order with every row.
LEMMA OrderAfresh ==
  ASSUME wrongs' = <<>>
  PROVE  WrongsAreSpaced' /\ RowInOrder' /\ Past'
BY DEF WrongsAreSpaced, RowInOrder, Past, LeftBehind, LockCovers

\* A request that begins undisturbed is the only one.
LEMMA BeginUndisturbed ==
  ASSUME AccountsTypeOK, Undisturbed, NEW h \in Requesters, NEW label, NEW locals,
         Begin(h, label, locals), UNCHANGED <<minute, maxAttempts, row, signedIn>>,
         ~disturbed', Keeps(h)'
  PROVE  Undisturbed' /\ UNCHANGED <<chosen, firstChanges, wrongs>>
<1>1. UNCHANGED <<chosen, firstChanges, wrongs>>
  BY Zenon DEF Begin
<1>2. \A g \in Requesters \ {h} : doing[g] = "idle"
  BY Zenon DEF Begin, Others
<1>3. \A g \in Requesters \ {h} : doing'[g] = "idle"
  BY <1>2, BeginEffect
<1>4. Alone' /\ \A g \in Requesters : Keeps(g)'
  BY <1>3, AloneIsEnough
<1>5. RowInOrder' /\ Past'
  <2>1. minute' \in Minutes /\ minute' >= minute
    BY AccountsAssumption DEF AccountsTypeOK, Minutes
  <2>2. RowInOrder /\ Past
    BY DEF Undisturbed
  <2>3. row'.failed = row.failed /\ row'.lockedUntil = row.lockedUntil
    OBVIOUS
  <2>4. QED
    BY <1>1, <2>1, <2>2, <2>3, OrderKept
<1>6. QED
  BY <1>1, <1>4, <1>5 DEF Undisturbed

\* Nor does another one come in between.
LEMMA OthersIdle ==
  ASSUME Undisturbed, NEW h \in Requesters, doing[h] # "idle"
  PROVE  \A g \in Requesters \ {h} : doing[g] = "idle"
BY DEF Undisturbed, Alone

\* A request alone that ends with the row in order leaves nothing disturbed.
LEMMA DoneUndisturbed ==
  ASSUME AccountsTypeOK, Undisturbed, NEW h \in Requesters, doing[h] # "idle", Ended(h),
         RowInOrder', Past', row'.password = chosen', firstChanges' <= 1,
         firstChanges' = 1 => row'.logins = 2
  PROVE  Undisturbed'
<1>1. \A g \in Requesters \ {h} : doing'[g] = "idle"
  BY OthersIdle, DoneEffect
<1>2. Keeps(h)'
  BY DoneEffect, IdleKeeps
<1>3. Alone' /\ \A g \in Requesters : Keeps(g)'
  BY <1>1, <1>2, AloneIsEnough
<1>4. QED
  BY <1>3 DEF Undisturbed

\* A step after which nothing has been disturbed, of a state where nothing was.
LEMMA UndisturbedStep ==
  ASSUME IInv, [AccountsNext]_accountsVars, ~disturbed'
  PROVE  Undisturbed'
<1> USE DEF history
<1> SUFFICES ASSUME Undisturbed
             PROVE  Undisturbed'
  <2>1. ~disturbed
    BY DEF AccountsNext, accountsVars, Request, Login, Refused, SaveUnlocked, WrongPassword,
           RightPassword, SaveRehashed, SaveSuccess, changePassword,
           firstLoginChange, updateProfile, SavePassword, SaveProfile, systemConfigMaximum,
           MinutePasses, Begin, SaveRow, Saved, SaveFailed
  <2>2. QED
    BY <2>1 DEF IInv
<1>t. AccountsTypeOK /\ Counting /\ WrongsAreSpaced
  BY DEF IInv
<1>k. \A h \in Requesters : Keeps(h)
  BY DEF Undisturbed
<1>o. RowInOrder /\ Past /\ row.password = chosen /\ firstChanges <= 1
      /\ (firstChanges = 1 => row.logins = 2)
  BY DEF Undisturbed
<1>1. ASSUME NEW h \in Requesters, NEW password \in Passwords, Login(h, password)
      PROVE  Undisturbed'
  <2>1. CASE Begin(h, "refused", NoCopy)
    <3>1. Keeps(h)'
      BY <1>t, <2>1, BeginEffect
         DEF Keeps, KeepsCount, KeepsPassword, KeepsLogins, Timely
    <3>2. QED
      BY <1>1, <1>t, <2>1, <3>1, BeginUndisturbed DEF Login
  <2>2. CASE TooMany /\ ~Locked
             /\ Begin(h, "unlock", LoginLocals(Unlocked, password))
    <3>1. /\ doing'[h] = "unlock" /\ copies'[h].row = Unlocked /\ copies'[h].read = minute
          /\ copies'[h].max = maxAttempts
      BY <1>t, <2>2, BeginEffect, LocalsFields
    <3>2. UNCHANGED <<minute, row, maxAttempts, wrongs>>
      BY <1>1, <2>2, Zenon DEF Login, Begin
    <3>3. \A i \in DOMAIN wrongs : wrongs[i] <= minute /\ wrongs[i] + Lockout <= minute
      <4>1. /\ \A i \in DOMAIN wrongs : wrongs[i] \in Nat
            /\ minute \in Nat /\ Lockout \in Nat
            /\ row.lockedUntil \in Int
        BY <1>t, Constants, AccountsAssumption
           DEF AccountsTypeOK, Minutes, Lockout, Rows, NotLocked
      <4>2. \A i \in DOMAIN wrongs :
              row.lockedUntil # NotLocked /\ wrongs[i] + Lockout <= row.lockedUntil
        BY <1>o, <2>2 DEF RowInOrder, LockCovers, TooMany
      <4>3. QED
        BY <1>o, <2>2, <4>1, <4>2 DEF Past, Locked
    <3>4. Timely(h)'
      BY <1>t, <3>1, <3>2, <3>3, AccountsAssumption
         DEF Timely, LeftBehind, Lockout, getLockoutMinutes, AccountsTypeOK, Minutes
    <3>5. Keeps(h)'
      BY <1>t, <3>1, <3>2, <3>4, UnlockedFields
         DEF Keeps, KeepsCount, KeepsPassword, KeepsLogins
    <3>6. QED
      BY <1>1, <1>t, <2>2, <3>5, BeginUndisturbed DEF Login
  <2>3. CASE Begin(h, "check", LoginLocals(row, password))
    <3>1. /\ doing'[h] = "check" /\ copies'[h].row = row /\ copies'[h].read = minute
          /\ copies'[h].max = maxAttempts
      BY <1>t, <2>3, BeginEffect, LocalsFields
    <3>2. UNCHANGED <<minute, row, maxAttempts, wrongs>>
      BY <1>1, <2>3, Zenon DEF Login, Begin
    <3>3. Timely(h)'
      BY <1>t, <1>o, <3>1, <3>2, AccountsAssumption
         DEF Timely, LeftBehind, Lockout, getLockoutMinutes, AccountsTypeOK, Minutes, RowInOrder,
             Past
    <3>4. Keeps(h)'
      BY <3>1, <3>2, <3>3 DEF Keeps, KeepsCount, KeepsPassword, KeepsLogins
    <3>5. QED
      BY <1>1, <1>t, <2>3, <3>4, BeginUndisturbed DEF Login
  <2>4. QED
    BY <1>1, <2>1, <2>2, <2>3 DEF Login
<1>2. ASSUME NEW h \in Requesters, Refused(h)
      PROVE  Undisturbed'
  <2>1. RowInOrder' /\ Past'
    BY <1>2, <1>t, <1>o, OrderKept, AccountsAssumption DEF Refused, AccountsTypeOK, Minutes
  <2>2. QED
    BY <1>2, <1>t, <1>o, <2>1, DoneUndisturbed DEF Refused
<1>3. ASSUME NEW h \in Requesters, SaveUnlocked(h)
      PROVE  Undisturbed'
  <2>1. /\ doing[h] = "unlock" /\ row' = copies[h].row
        /\ UNCHANGED <<minute, maxAttempts, copies, signedIn, chosen, firstChanges, wrongs>>
    BY <1>3 DEF SaveUnlocked, SaveRow, Saved, SaveFailed
  <2>2. doing'[h] = "check" /\ \A g \in Requesters \ {h} : doing'[g] = doing[g]
    BY <1>3, <1>t DEF SaveUnlocked, AccountsTypeOK
  <2>3. Timely(h)'
    BY <1>k, <2>1, <2>2 DEF Keeps, Timely, LeftBehind, Lockout, getLockoutMinutes
  <2>4. Keeps(h)'
    BY <1>k, <2>1, <2>2, <2>3 DEF Keeps, KeepsCount, KeepsPassword, KeepsLogins
  <2>5. Alone' /\ \A g \in Requesters : Keeps(g)'
    BY <2>1, <2>2, <2>4, OthersIdle, AloneIsEnough
  <2>6. RowInOrder' /\ Past'
    <3>1. /\ copies[h].max = maxAttempts /\ copies[h].read <= minute
          /\ copies[h].row.failed < maxAttempts
          /\ LeftBehind(copies[h].row, copies[h].read)
      BY <1>k, <1>t, <2>1 DEF Keeps, Timely, Counting
    <3>2. /\ \A i \in DOMAIN wrongs : wrongs[i] \in Nat
          /\ minute \in Nat /\ copies[h].read \in Nat /\ Lockout \in Nat
          /\ Lockout' = Lockout /\ maxAttempts \in Nat /\ copies[h].row.failed \in Nat
      <4>1. maxAttempts \in Nat /\ copies[h].row.failed \in Nat
        <5>1. maxAttempts \in 1..20 /\ copies[h].row.failed \in 0..20
          BY <1>t, Numbers
        <5>2. QED
          BY <5>1
      <4>2. QED
        BY <1>t, <4>1, TimesAreNumbers
    <3>3. LockCovers(row)' /\ Past'
      BY <1>o, <2>1, <3>1, <3>2 DEF LockCovers, Past
    <3>4. LeftBehind(row, minute)'
      BY <2>1, <3>1, <3>2 DEF LeftBehind
    <3>5. QED
      BY <3>3, <3>4 DEF RowInOrder
  <2>7. row'.password = row.password /\ row'.logins = row.logins
    BY <1>k, <2>1 DEF Keeps, KeepsPassword, KeepsLogins
  <2>8. QED
    BY <1>o, <2>1, <2>5, <2>6, <2>7 DEF Undisturbed
<1>4. ASSUME NEW h \in Requesters, WrongPassword(h)
      PROVE  Undisturbed'
  <2>1. /\ doing[h] = "check" /\ row' = Failure(h) /\ Ended(h)
        /\ UNCHANGED <<minute, maxAttempts, chosen, firstChanges>>
        /\ wrongs' = Latest(Append(wrongs, copies[h].read))
    BY <1>4 DEF WrongPassword, SaveRow, Saved, SaveFailed
  <2>2. /\ copies[h].max = maxAttempts /\ copies[h].read <= minute
        /\ copies[h].row.password = row.password /\ copies[h].row.logins = row.logins
    BY <1>k, <2>1 DEF Keeps, Timely, KeepsPassword, KeepsLogins
  <2>3. \A i \in DOMAIN wrongs' :
          /\ wrongs'[i] <= copies[h].read
          /\ i + copies[h].row.failed + 1 <= Len(wrongs')
               => wrongs'[i] + Lockout <= copies[h].read
    BY <1>k, <1>t, <2>1, Recorded DEF Keeps
  <2>4. /\ row'.failed = copies[h].row.failed + 1
        /\ row'.failed >= maxAttempts => row'.lockedUntil = copies[h].read + Lockout
        /\ row'.password = row.password /\ row'.logins = row.logins
    BY <1>t, <2>1, <2>2, FailureFields
  <2>5. /\ \A i \in DOMAIN wrongs' : wrongs'[i] \in Nat /\ i \in Nat
        /\ Len(wrongs') \in Nat /\ minute \in Nat /\ copies[h].read \in Nat
        /\ Lockout \in Nat /\ Lockout' = Lockout /\ copies[h].row.failed \in Nat
    <3>1. wrongs' \in Seq(Minutes)
      BY <1>t, TypeStep DEF AccountsTypeOK
    <3>2. \A i \in DOMAIN wrongs' : wrongs'[i] \in Minutes /\ i \in Nat
      BY <3>1
    <3>3. \A t \in Minutes : t \in Nat
      BY AccountsAssumption DEF Minutes
    <3>4. Len(wrongs') \in Nat
      BY <3>1
    <3>5. QED
      <4>1. copies[h].row.failed \in 0..20
        BY <1>t, Numbers
      <4>2. copies[h].row.failed \in Nat
        BY <4>1
      <4>3. QED
        BY <1>t, <3>2, <3>3, <3>4, <4>2, TimesAreNumbers
  <2>6. LeftBehind(row, minute)'
    BY <2>1, <2>2, <2>3, <2>4, <2>5 DEF LeftBehind
  <2>7. LockCovers(row)'
    BY <2>1, <2>3, <2>4, <2>5 DEF LockCovers, NotLocked
  <2>8. Past'
    BY <2>1, <2>2, <2>3, <2>5 DEF Past
  <2>9. QED
    BY <1>o, <1>t, <2>1, <2>4, <2>6, <2>7, <2>8, DoneUndisturbed DEF RowInOrder
<1>5. ASSUME NEW h \in Requesters, RightPassword(h)
      PROVE  Undisturbed'
  <2>1. /\ doing[h] = "check"
        /\ UNCHANGED <<minute, maxAttempts, row, chosen, firstChanges, wrongs>>
    BY <1>5 DEF RightPassword
  <2>2. /\ doing'[h] \in {"rehash", "succeed"}
        /\ \A g \in Requesters \ {h} : doing'[g] = doing[g]
    BY <1>5, <1>t DEF RightPassword, AccountsTypeOK
  <2>3. /\ copies'[h].row.failed = copies[h].row.failed
        /\ copies'[h].row.lockedUntil = copies[h].row.lockedUntil
        /\ copies'[h].row.password = copies[h].row.password
        /\ copies'[h].row.logins = copies[h].row.logins
    BY <1>5, <1>t DEF RightPassword, AccountsTypeOK, Copies, Rows
  <2>4. Keeps(h)'
    BY <1>k, <2>1, <2>2, <2>3
       DEF Keeps, KeepsCount, KeepsPassword, KeepsLogins, Timely
  <2>5. Alone' /\ \A g \in Requesters : Keeps(g)'
    BY <2>1, <2>2, <2>4, OthersIdle, AloneIsEnough
  <2>6. RowInOrder' /\ Past'
    BY <1>t, <1>o, <2>1, OrderKept, AccountsAssumption DEF AccountsTypeOK, Minutes
  <2>7. QED
    BY <1>o, <2>1, <2>5, <2>6 DEF Undisturbed
<1>6. ASSUME NEW h \in Requesters, SaveRehashed(h)
      PROVE  Undisturbed'
  <2>1. /\ doing[h] = "rehash" /\ row' = copies[h].row
        /\ UNCHANGED <<minute, maxAttempts, copies, signedIn, chosen, firstChanges, wrongs>>
    BY <1>6 DEF SaveRehashed, SaveRow, Saved, SaveFailed
  <2>2. doing'[h] = "succeed" /\ \A g \in Requesters \ {h} : doing'[g] = doing[g]
    BY <1>6, <1>t DEF SaveRehashed, AccountsTypeOK
  <2>3. /\ row'.failed = row.failed /\ row'.lockedUntil = row.lockedUntil
        /\ row'.password = row.password /\ row'.logins = row.logins
    BY <1>k, <2>1 DEF Keeps, KeepsCount, KeepsPassword, KeepsLogins
  <2>4. Keeps(h)'
    BY <2>1, <2>2 DEF Keeps, KeepsCount, KeepsPassword, KeepsLogins, Timely
  <2>5. Alone' /\ \A g \in Requesters : Keeps(g)'
    BY <2>1, <2>2, <2>4, OthersIdle, AloneIsEnough
  <2>6. RowInOrder' /\ Past'
    BY <1>t, <1>o, <2>1, <2>3, OrderKept, AccountsAssumption DEF AccountsTypeOK, Minutes
  <2>7. QED
    BY <1>o, <2>1, <2>3, <2>5, <2>6 DEF Undisturbed
<1>7. ASSUME NEW h \in Requesters, SaveSuccess(h)
      PROVE  Undisturbed'
  <2>1. /\ doing[h] = "succeed" /\ row' = Success(h) /\ Ended(h) /\ wrongs' = <<>>
        /\ UNCHANGED <<chosen, firstChanges>>
    BY <1>7 DEF SaveSuccess, SaveRow, Saved, SaveFailed
  <2>2. row'.password = row.password /\ row'.logins = More(row.logins)
    BY <1>k, <1>t, <2>1, SuccessFields DEF Keeps, KeepsPassword, KeepsLogins
  <2>3. row.logins = 2 => row'.logins = 2
    BY <2>2 DEF More, Many
  <2>4. QED
    BY <1>o, <1>t, <2>1, <2>2, <2>3, OrderAfresh, DoneUndisturbed
<1>8. ASSUME NEW h \in Requesters, NEW current \in Passwords, NEW new \in Passwords,
             changePassword(h, current, new)
      PROVE  Undisturbed'
  <2> DEFINE copy == [row EXCEPT !.password = new, !.legacy = FALSE]
  <2>1. /\ copy.failed = row.failed /\ copy.lockedUntil = row.lockedUntil
        /\ copy.password = new /\ copy.logins = row.logins
    BY <1>t, ChosenFields
  <2> HIDE DEF copy
  <2>2. Begin(h, "changePassword", ChangeLocals(copy, new))
        /\ UNCHANGED <<minute, maxAttempts, row, signedIn>>
    BY <1>8 DEF changePassword, copy
  <2>3. /\ doing'[h] = "changePassword" /\ copies'[h].row = copy /\ copies'[h].input = new
    BY <1>t, <2>2, BeginEffect, LocalsFields
  <2>4. Keeps(h)'
    BY <2>1, <2>2, <2>3 DEF Keeps, KeepsCount, KeepsPassword, KeepsLogins, Timely
  <2>5. QED
    BY <1>t, <2>2, <2>4, BeginUndisturbed
<1>9. ASSUME NEW h \in Requesters, NEW new \in Passwords, firstLoginChange(h, new)
      PROVE  Undisturbed'
  <2> DEFINE n == More(row.logins)
             copy == [row EXCEPT !.password = new, !.legacy = FALSE, !.logins = n]
  <2>1. row.logins = 1 /\ n = 2
    BY <1>9 DEF firstLoginChange, More, Many
  <2> HIDE DEF n
  <2>2. /\ copy.failed = row.failed /\ copy.lockedUntil = row.lockedUntil
        /\ copy.password = new /\ copy.logins = n
    BY <1>t, ChosenFields
  <2>3. Begin(h, "firstLogin", ChangeLocals(copy, new))
        /\ UNCHANGED <<minute, maxAttempts, row, signedIn>>
    BY <1>9 DEF firstLoginChange, n
  <2> HIDE DEF copy
  <2>4. /\ doing'[h] = "firstLogin" /\ copies'[h].row = copy /\ copies'[h].input = new
    BY <1>t, <2>3, BeginEffect, LocalsFields
  <2>5. Keeps(h)'
    BY <2>1, <2>2, <2>3, <2>4 DEF Keeps, KeepsCount, KeepsPassword, KeepsLogins, Timely
  <2>6. QED
    BY <1>t, <2>3, <2>5, BeginUndisturbed
<1>10. ASSUME NEW h \in Requesters, updateProfile(h)
       PROVE  Undisturbed'
  <2>1. Begin(h, "profile", ChangeLocals(row, DefaultPassword))
        /\ UNCHANGED <<minute, maxAttempts, row, signedIn>>
    BY <1>10 DEF updateProfile
  <2>2. doing'[h] = "profile" /\ copies'[h].row = row
    BY <1>t, <2>1, BeginEffect, LocalsFields
  <2>3. Keeps(h)'
    BY <2>1, <2>2 DEF Keeps, KeepsCount, KeepsPassword, KeepsLogins, Timely
  <2>4. QED
    BY <1>t, <2>1, <2>3, BeginUndisturbed
<1>11. ASSUME NEW h \in Requesters, SavePassword(h)
       PROVE  Undisturbed'
  <2>1. /\ doing[h] \in {"changePassword", "firstLogin"}
        /\ row' = copies[h].row /\ Ended(h) /\ ~disturbed
        /\ chosen' = copies[h].input
        /\ UNCHANGED <<minute, maxAttempts, wrongs>>
        /\ firstChanges' = IF doing[h] = "firstLogin" /\ ~disturbed /\ firstChanges < 2
                           THEN firstChanges + 1 ELSE firstChanges
    BY <1>11 DEF SavePassword, Saved, SaveFailed
  <2>2. row'.failed = row.failed /\ row'.lockedUntil = row.lockedUntil
        /\ row'.password = copies[h].input
    BY <1>k, <2>1 DEF Keeps, KeepsCount, KeepsPassword
  <2>3. RowInOrder' /\ Past'
    BY <1>t, <1>o, <2>1, <2>2, OrderKept, AccountsAssumption DEF AccountsTypeOK, Minutes
  <2>4. firstChanges' <= 1 /\ (firstChanges' = 1 => row'.logins = 2)
    <3>1. CASE doing[h] = "changePassword"
      <4>1. row'.logins = row.logins
        BY <1>k, <2>1, <3>1 DEF Keeps, KeepsLogins
      <4>2. QED
        BY <1>o, <2>1, <3>1, <4>1
    <3>2. CASE doing[h] = "firstLogin"
      <4>1. row'.logins = 2 /\ row.logins = 1
        BY <1>k, <2>1, <3>2 DEF Keeps, KeepsLogins
      <4>2. firstChanges = 0
        BY <1>o, <1>t, <4>1 DEF AccountsTypeOK
      <4>3. QED
        BY <2>1, <4>1, <4>2
    <3>3. QED
      BY <2>1, <3>1, <3>2
  <2>5. QED
    BY <1>t, <2>1, <2>2, <2>3, <2>4, DoneUndisturbed
<1>12. ASSUME NEW h \in Requesters, SaveProfile(h)
       PROVE  Undisturbed'
  <2>1. /\ doing[h] = "profile" /\ row' = copies[h].row /\ Ended(h)
        /\ UNCHANGED <<minute, maxAttempts, chosen, firstChanges, wrongs>>
    BY <1>12 DEF SaveProfile, SaveRow, Saved, SaveFailed
  <2>2. /\ row'.failed = row.failed /\ row'.lockedUntil = row.lockedUntil
        /\ row'.password = row.password /\ row'.logins = row.logins
    BY <1>k, <2>1 DEF Keeps, KeepsCount, KeepsPassword, KeepsLogins
  <2>3. RowInOrder' /\ Past'
    BY <1>t, <1>o, <2>1, <2>2, OrderKept, AccountsAssumption DEF AccountsTypeOK, Minutes
  <2>4. QED
    BY <1>o, <1>t, <2>1, <2>2, <2>3, DoneUndisturbed
<1>13. ASSUME NEW m \in Maxima, systemConfigMaximum(m)
       PROVE  Undisturbed'
  <2>1. \A h \in Requesters : doing'[h] = "idle"
    BY <1>13, Zenon DEF systemConfigMaximum
  <2>2. wrongs' = <<>> /\ UNCHANGED <<row, chosen, firstChanges>>
    BY <1>13 DEF systemConfigMaximum
  <2>3. \A h \in Requesters : Keeps(h)'
    BY <2>1, IdleKeeps
  <2>4. QED
    BY <1>o, <2>1, <2>2, <2>3, OrderAfresh DEF Undisturbed, Alone
<1>14. CASE MinutePasses
  <2>1. UNCHANGED <<maxAttempts, row, doing, copies, chosen, firstChanges, wrongs>>
        /\ minute' = minute + 1 /\ minute' \in Minutes /\ minute \in Nat
    BY <1>14, <1>t, AccountsAssumption DEF MinutePasses, AccountsTypeOK, Minutes
  <2>2. RowInOrder' /\ Past'
    BY <1>t, <1>o, <2>1, OrderKept
  <2>3. \A h \in Requesters : copies[h].read \in Nat
    BY <1>t, Numbers, AccountsAssumption DEF Minutes
  <2>4. \A h \in Requesters : Keeps(h)'
    BY <1>k, <2>1, <2>3
       DEF Keeps, KeepsCount, KeepsPassword, KeepsLogins, Timely, LeftBehind, Lockout,
           getLockoutMinutes
  <2>5. QED
    BY <1>o, <2>1, <2>2, <2>4 DEF Undisturbed, Alone
<1>15. CASE UNCHANGED accountsVars
  BY <1>15 DEF accountsVars, Undisturbed, Alone, RowInOrder, Past, LeftBehind, LockCovers, Keeps,
               KeepsCount, KeepsPassword, KeepsLogins, Timely, Lockout, getLockoutMinutes
<1>16. QED
  BY <1>1, <1>2, <1>3, <1>4, <1>5, <1>6, <1>7, <1>8, <1>9, <1>10, <1>11, <1>12, <1>13,
     <1>14, <1>15 DEF AccountsNext, Request

\* The record of wrong passwords stays spaced in disturbed steps too.
LEMMA SpacedStep ==
  ASSUME IInv, [AccountsNext]_accountsVars
  PROVE  WrongsAreSpaced'
<1> USE DEF history
<1>t. AccountsTypeOK /\ Counting /\ WrongsAreSpaced
  BY DEF IInv
<1>1. CASE UNCHANGED <<maxAttempts, wrongs>>
  BY <1>t, <1>1 DEF WrongsAreSpaced, getLockoutMinutes
<1>2. CASE wrongs' = <<>>
  BY <1>2, OrderAfresh
<1>3. ASSUME NEW h \in Requesters, WrongPassword(h)
      PROVE  WrongsAreSpaced'
  <2>1. CASE disturbed'
    BY <1>2, <1>3, <2>1 DEF WrongPassword
  <2>2. CASE ~disturbed'
    <3>1. ~disturbed
      BY <1>3, <2>2 DEF WrongPassword, SaveRow, Saved, SaveFailed
    <3>2. Timely(h)
      BY <3>1 DEF IInv, Undisturbed, Keeps
    <3>3. QED
      BY <1>3, <1>t, <2>2, <3>2, Recorded DEF WrongPassword
  <2>3. QED
    BY <2>1, <2>2
<1>4. ASSUME NEW h \in Requesters, NEW label, NEW locals, Begin(h, label, locals)
      PROVE  wrongs' = <<>> \/ UNCHANGED wrongs
  BY <1>4, Zenon DEF Begin, Forget
<1>5. ASSUME NEW h \in Requesters, Request(h), ~WrongPassword(h)
      PROVE  wrongs' = <<>> \/ UNCHANGED <<maxAttempts, wrongs>>
  <2>1. CASE \E password \in Passwords : Login(h, password)
    BY <1>4, <2>1 DEF Login
  <2>2. CASE \E current, new \in Passwords : changePassword(h, current, new)
    BY <1>4, <2>2 DEF changePassword
  <2>3. CASE \E new \in Passwords : firstLoginChange(h, new)
    BY <1>4, <2>3 DEF firstLoginChange
  <2>4. CASE updateProfile(h)
    BY <1>4, <2>4 DEF updateProfile
  <2>5. CASE \/ Refused(h) \/ SaveUnlocked(h) \/ RightPassword(h) \/ SaveRehashed(h)
             \/ SaveSuccess(h) \/ SavePassword(h) \/ SaveProfile(h)
    BY <2>5 DEF Refused, SaveUnlocked, RightPassword, SaveRehashed, SaveSuccess,
                SavePassword, SaveProfile
  <2>6. QED
    BY <1>5, <2>1, <2>2, <2>3, <2>4, <2>5 DEF Request
<1>6. CASE (\E m \in Maxima : systemConfigMaximum(m)) \/ MinutePasses \/ UNCHANGED accountsVars
  BY <1>1, <1>2, <1>6 DEF systemConfigMaximum, MinutePasses, accountsVars
<1>7. QED
  BY <1>1, <1>2, <1>3, <1>5, <1>6 DEF AccountsNext

\* At the start nothing has been recorded and nobody is being served.
LEMMA Initially ==
  ASSUME AccountsInit
  PROVE  IInv
<1>1. row \in Rows /\ row.failed = 0 /\ row.lockedUntil = NotLocked
      /\ row.password = DefaultPassword
  <2>1. PICK legacy \in BOOLEAN : row = NewRow(legacy)
    BY Zenon DEF AccountsInit
  <2>2. NewRow(legacy) \in Rows
    BY Constants, Zenon
  <2>3. /\ NewRow(legacy).failed = 0 /\ NewRow(legacy).lockedUntil = NotLocked
        /\ NewRow(legacy).password = DefaultPassword
    BY DEF NewRow
  <2>4. QED
    BY <2>1, <2>2, <2>3, Zenon
<1>2. \A h \in Requesters : doing[h] = "idle" /\ copies[h] = NoCopy
  BY DEF AccountsInit
<1>3. AccountsTypeOK
  <2>1. minute \in Minutes /\ maxAttempts \in Maxima /\ chosen \in Passwords
        /\ firstChanges \in 0..2 /\ wrongs \in Seq(Minutes)
    BY AccountsAssumption DEF AccountsInit, Minutes
  <2>2. doing \in [Requesters -> Stages] /\ copies \in [Requesters -> Copies]
    BY Constants DEF AccountsInit, Stages
  <2>3. signedIn \in BOOLEAN /\ disturbed \in BOOLEAN
    BY DEF AccountsInit
  <2>4. QED
    BY <1>1, <2>1, <2>2, <2>3 DEF AccountsTypeOK
<1>4. LockedIsCounted
  BY <1>1, <1>2, IdleFields, ClearCoherence DEF LockedIsCounted
<1>5. Counting
  BY <1>2 DEF Counting
<1>6. WrongsAreSpaced /\ RowInOrder /\ Past
  BY DEF AccountsInit, WrongsAreSpaced, RowInOrder, Past, LeftBehind, LockCovers
<1>7. Undisturbed
  BY <1>1, <1>2, <1>6
     DEF AccountsInit, Undisturbed, Alone, Keeps, KeepsCount, KeepsPassword, KeepsLogins, Timely
<1>8. QED
  BY <1>3, <1>4, <1>5, <1>6, <1>7 DEF IInv

-----------------------------------------------------------------------------
(***************************************************************************)
(* Theorems.                                                               *)
(***************************************************************************)
\* The invariant from which the others follow: the types, the coherence of row and
\* copies, and what undisturbed requests know of the row they loaded (auth.go:142-216,
\* handlers.go:122-335).
THEOREM Inductive == AccountsSpec => []IInv
<1>1. AccountsInit => IInv
  BY Initially
<1>2. IInv /\ [AccountsNext]_accountsVars => IInv'
  <2>1. ASSUME IInv, [AccountsNext]_accountsVars
        PROVE  IInv'
    <3>1. AccountsTypeOK /\ LockedIsCounted /\ Counting
      BY <2>1 DEF IInv
    <3>2. AccountsTypeOK' /\ LockedIsCounted' /\ Counting'
      BY <2>1, <3>1, TypeStep, CountStep
    <3>3. WrongsAreSpaced'
      BY <2>1, SpacedStep
    <3>4. ~disturbed' => Undisturbed'
      BY <2>1, UndisturbedStep
    <3>5. QED
      BY <3>2, <3>3, <3>4 DEF IInv
  <2>2. QED
    BY <2>1
<1>3. QED
  BY <1>1, <1>2, PTL DEF AccountsSpec

\* Every value stays in its type; in particular no count passes 20, the largest
\* maximum that systemConfigHandler accepts (auth.go:122-133).
THEOREM TypeCorrect == AccountsSpec => []AccountsTypeOK
<1>1. IInv => AccountsTypeOK
  BY DEF IInv
<1>2. QED
  BY <1>1, Inductive, PTL

\* However requests overlap and whichever saves are lost, no account is locked without
\* the failures that lock it, and none counts more than the largest maximum
\* (auth.go:161-199).
THEOREM LocksAreCounted == AccountsSpec => []LockedIsCounted
<1>1. IInv => LockedIsCounted
  BY DEF IInv
<1>2. QED
  BY <1>1, Inductive, PTL

\* Without overlaps and lost saves, no lockout time sees more wrong passwords than the
\* maximum (auth.go:161-188).
THEOREM WrongsSpaced == AccountsSpec => []WrongsAreSpaced
<1>1. IInv => WrongsAreSpaced
  BY DEF IInv
<1>2. QED
  BY <1>1, Inductive, PTL

\* Without overlaps and lost saves, the password chosen last is the password
\* (auth.go:190-194, handlers.go:147).
THEOREM PasswordsStick == AccountsSpec => []PasswordSticks
<1>1. IInv => PasswordSticks
  BY DEF IInv, Undisturbed, PasswordSticks
<1>2. QED
  BY <1>1, Inductive, PTL

\* Without overlaps and lost saves, the change that asks for no current password is
\* made at most once (handlers.go:184, 232).
THEOREM FirstLoginChangedOnce == AccountsSpec => []FirstLoginOnce
<1>1. IInv => FirstLoginOnce
  BY DEF IInv, Undisturbed, FirstLoginOnce
<1>2. QED
  BY <1>1, Inductive, PTL
=============================================================================
