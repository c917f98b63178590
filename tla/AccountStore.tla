----------------------------- MODULE AccountStore -----------------------------
(***************************************************************************)
(* What the account services promise of the two account tables, whatever   *)
(* their calls of the store: every operation takes effect at one moment,   *)
(* on the row as it is at that moment, and a guess at a password counts    *)
(* only while the account is active and not locked.                        *)
(***************************************************************************)
EXTENDS Integers

CONSTANTS
  Admins, Users, Passwords, MaxFailed, LockPeriod,
  Resets     \* may administrators set a password they do not know?

VARIABLES
  now,   \* the clock
  rows   \* the account tables

Init ==
  /\ now = 0
  /\ \E pw \in [Admins \cup Users -> Passwords] :
       rows = [a \in Admins \cup Users |->
         [hash |-> pw[a], active |-> TRUE, failed |-> 0, lockedUntil |-> 0]]

\* Someone tries to log in.
RightGuess(a) ==
  rows' = [rows EXCEPT ![a].failed = 0, ![a].lockedUntil = 0]

WrongGuess(a) ==
  rows' = [rows EXCEPT
    ![a].failed = @ + 1,
    ![a].lockedUntil = IF rows[a].failed + 1 >= MaxFailed THEN now + LockPeriod ELSE @]

Guess(a, pw) ==
  /\ a \in DOMAIN rows /\ rows[a].active /\ now >= rows[a].lockedUntil
  /\ IF pw = rows[a].hash THEN RightGuess(a) ELSE WrongGuess(a)
  /\ UNCHANGED now

SetPassword(u, new) ==
  /\ u \in DOMAIN rows
  /\ rows' = [rows EXCEPT ![u].hash = new]
  /\ UNCHANGED now

\* A user changes the password, and knows it.
ChangePassword(u, pw, new) == SetPassword(u, new) /\ pw = rows[u].hash

ResetPassword(u, new) == Resets /\ SetPassword(u, new)

SetActive(u, flag) ==
  /\ u \in DOMAIN rows
  /\ rows' = [rows EXCEPT ![u].active = flag]
  /\ UNCHANGED now

Delete(u) ==
  /\ u \in DOMAIN rows
  /\ rows' = [x \in DOMAIN rows \ {u} |-> rows[x]]
  /\ UNCHANGED now

Tick == now' = now + 1 /\ UNCHANGED rows

Next ==
  \/ \E a \in Admins \cup Users, pw \in Passwords : Guess(a, pw)
  \/ \E u \in Users :
       \/ \E pw, new \in Passwords : ChangePassword(u, pw, new)
       \/ \E new \in Passwords : ResetPassword(u, new)
       \/ \E flag \in BOOLEAN : SetActive(u, flag)
       \/ Delete(u)
  \/ Tick

Spec == Init /\ [][Next]_<<now, rows>>
=============================================================================
