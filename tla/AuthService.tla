----------------------------- MODULE AuthService -----------------------------
(***************************************************************************)
(* Accounts and sessions: AuthService (src/server/service/auth.go), the    *)
(* account updates of UserService (src/server/service/user.go) and the     *)
(* in-memory store they work on (src/server/store/memory.go).              *)
(*                                                                         *)
(* The store guards each of its calls with one mutex and hands out copies, *)
(* so a call is atomic and nothing spans two calls.  Every operation that  *)
(* reads a row, changes its copy and writes the whole copy back is two     *)
(* actions here, and any number of requests run them concurrently, one per *)
(* member of Requests (an http.Server goroutine each).                     *)
(***************************************************************************)
EXTENDS Integers, Functions

CONSTANTS
  Admins, Users,   \* the row ids of the two account tables
  Requests,        \* the request goroutines
  Passwords,
  SessionIds,      \* what generateSessionID can return, each at most once
  Kinds,           \* the kinds of login identifier clients use
  Ops,             \* the operations clients call
  MaxFailed,       \* 5 failed attempts
  LockPeriod,      \* 30 minutes
  SessionLife,     \* defaultSessionDuration
  MaxTime          \* bound: the clock stops here

Accounts == Admins \cup Users

AllOps == {"login", "change", "reset", "setActive", "profile", "delete",
           "validate", "logout", "logoutAll"}

ASSUME TablesAssumption == Admins \cap Users = {}
ASSUME KindsAssumption  == Kinds \subseteq {"name", "id"}
ASSUME OpsAssumption    == Ops \subseteq AllOps
ASSUME LimitsAssumption ==
  /\ MaxFailed \in Nat \ {0}
  /\ LockPeriod \in Nat \ {0}
  /\ SessionLife \in Nat
  /\ MaxTime \in Nat

VARIABLES
  now,       \* the clock
  accounts,  \* the admins and users maps
  sessions,  \* the sessions map
  issued,    \* every session id generated so far
  pc,        \* where each request stands
  call,      \* the arguments of each request
  copy,      \* the row or session each request has read
  stored     \* history: every password an account has had in the store

store   == <<now, accounts, sessions, issued>>
control == <<pc, call, copy>>
vars    == <<now, accounts, sessions, issued, pc, call, copy, stored>>

-----------------------------------------------------------------------------
(* Types *)

NoLock == 0    \* time.Time{}
Clock  == 0 .. MaxTime

\* The fields of model.Admin and model.User the services decide on.  A hash is
\* the password it verifies.
Row == [hash : Passwords, active : BOOLEAN, failed : Nat, lockedUntil : Nat]

\* model.Session, with the password its login presented (history).
Session == [account : Accounts, expiresAt : Nat, lastActivity : Clock, proof : Passwords]

LoginCalls    == [op : {"login"}, account : Accounts, pw : Passwords, kind : Kinds]
ChangeCalls   == [op : {"change"}, account : Users, pw : Passwords, new : Passwords]
ResetCalls    == [op : {"reset"}, account : Users, new : Passwords]
ActiveCalls   == [op : {"setActive"}, account : Users, active : BOOLEAN]
ProfileCalls  == [op : {"profile"}, account : Users]
DeleteCalls   == [op : {"delete"}, account : Users]
ValidateCalls == [op : {"validate"}, sid : SessionIds]

Calls == UNION {LoginCalls, ChangeCalls, ResetCalls, ActiveCalls, ProfileCalls,
                DeleteCalls, ValidateCalls}

NoCall == [op |-> "none"]
NoCopy == [hash |-> "none"]

\* "rejected": the answer ErrInvalidCredentials is on its way to the client.
Labels == {"idle", "verify", "session", "write", "revoke", "remove", "touch",
           "rejected"}

TypeOK ==
  /\ now \in Clock
  /\ DOMAIN accounts \subseteq Accounts
  /\ accounts \in [DOMAIN accounts -> Row]
  /\ issued \subseteq SessionIds
  /\ DOMAIN sessions \subseteq issued
  /\ sessions \in [DOMAIN sessions -> Session]
  /\ pc \in [Requests -> Labels]
  /\ call \in [Requests -> Calls \cup {NoCall}]
  /\ copy \in [Requests -> Row \cup Session \cup {NoCopy}]
  /\ stored \in [Accounts -> SUBSET Passwords]

\* Both tables populated, nobody logged in.
Init ==
  /\ now = 0
  /\ \E pw \in [Accounts -> Passwords] :
       /\ accounts = [a \in Accounts |->
            [hash |-> pw[a], active |-> TRUE, failed |-> 0, lockedUntil |-> NoLock]]
       /\ stored = [a \in Accounts |-> {pw[a]}]
  /\ sessions = <<>>
  /\ issued = {}
  /\ pc = [r \in Requests |-> "idle"]
  /\ call = [r \in Requests |-> NoCall]
  /\ copy = [r \in Requests |-> NoCopy]

-----------------------------------------------------------------------------
(* The store *)

Exists(a) == a \in DOMAIN accounts

\* Mutant: the write inserts a missing row.
UpdateRowUpserts(a, row) ==
  [x \in DOMAIN accounts \cup {a} |-> IF x = a THEN row ELSE accounts[x]]

\* UpdateUser and UpdateAdmin: replace the whole row, refuse a missing one.
UpdateRow(a, row) ==
  IF Exists(a) THEN [accounts EXCEPT ![a] = row] ELSE accounts

\* Mutants: the write inserts a missing session; it keeps the caller's stamp.
UpdateSessionUpserts(sid, s) ==
  [x \in DOMAIN sessions \cup {sid} |->
     IF x = sid THEN [s EXCEPT !.lastActivity = now] ELSE sessions[x]]
UpdateSessionKeepsStamp(sid, s) ==
  IF sid \in DOMAIN sessions THEN [sessions EXCEPT ![sid] = s] ELSE sessions

\* UpdateSession: replace the session, refuse a missing one, stamp the activity
\* inside the lock.
UpdateSession(sid, s) ==
  IF sid \in DOMAIN sessions
  THEN [sessions EXCEPT ![sid] = [s EXCEPT !.lastActivity = now]]
  ELSE sessions

\* DeleteSession and DeleteUserSessions.
WithoutSessions(S) == Restrict(sessions, DOMAIN sessions \ S)
SessionsOf(u) == {sid \in DOMAIN sessions : sessions[sid].account = u}

-----------------------------------------------------------------------------
(* Control of a request *)

\* A request arrives and makes its first store call, which leaves it at label
\* l with the copy x.
Begin(r, c, l, x) ==
  /\ pc[r] = "idle"
  /\ c.op \in Ops
  /\ call' = [call EXCEPT ![r] = c]
  /\ pc' = [pc EXCEPT ![r] = l]
  /\ copy' = [copy EXCEPT ![r] = x]

\* A request whose first store call makes it return an error: nothing changes.
Refuse(r, c) ==
  /\ pc[r] = "idle"
  /\ c.op \in Ops
  /\ UNCHANGED vars

\* On to label l; what was read is not used again.
Proceed(r, l) ==
  /\ pc' = [pc EXCEPT ![r] = l]
  /\ copy' = [copy EXCEPT ![r] = NoCopy]
  /\ UNCHANGED call

Return(r) ==
  /\ pc' = [pc EXCEPT ![r] = "idle"]
  /\ call' = [call EXCEPT ![r] = NoCall]
  /\ copy' = [copy EXCEPT ![r] = NoCopy]

-----------------------------------------------------------------------------
(* Login: Authenticate, then CreateSession *)

Locked(row) == row.lockedUntil # NoLock /\ now < row.lockedUntil

\* The switch on the identifier's type has cases for username and email only:
\* a numeric id reads neither table.
LooksUp(c) == c.kind = "name" /\ Exists(c.account)

LoginUnknown(r, c) ==
  /\ ~LooksUp(c)
  /\ Begin(r, c, "rejected", NoCopy)
  /\ UNCHANGED <<store, stored>>

\* Mutant: a locked account is answered like a wrong password.
LoginLockedGeneric(r, c) ==
  /\ LooksUp(c) /\ Locked(accounts[c.account])
  /\ Begin(r, c, "rejected", NoCopy)
  /\ UNCHANGED <<store, stored>>

LoginLocked(r, c) ==
  /\ LooksUp(c) /\ Locked(accounts[c.account])
  /\ Refuse(r, c)

LoginDisabled(r, c) ==
  /\ LooksUp(c) /\ ~Locked(accounts[c.account])
  /\ ~accounts[c.account].active
  /\ Refuse(r, c)

\* Mutant: the check of the lock is gone.
LoginReadLocked(r, c) ==
  /\ LooksUp(c)
  /\ accounts[c.account].active
  /\ Begin(r, c, "verify", accounts[c.account])
  /\ UNCHANGED <<store, stored>>

LoginRead(r, c) ==
  /\ LooksUp(c) /\ ~Locked(accounts[c.account])
  /\ accounts[c.account].active
  /\ Begin(r, c, "verify", accounts[c.account])
  /\ UNCHANGED <<store, stored>>

VerifyPassword(pw, hash) == pw = hash

\* Mutant: the lock is not cleared with the count.
AfterRightKeepsLock(row) == [row EXCEPT !.failed = 0]

\* What a right password writes back: the row as read, its counters reset.
AfterRight(row) == [row EXCEPT !.failed = 0, !.lockedUntil = NoLock]

\* Mutants: the threshold off by one; a lock that adds up instead of restarting.
AfterWrongOneMore(row) ==
  [row EXCEPT
     !.failed = row.failed + 1,
     !.lockedUntil = IF row.failed >= MaxFailed THEN now + LockPeriod ELSE @]
AfterWrongExtends(row) ==
  [row EXCEPT
     !.failed = row.failed + 1,
     !.lockedUntil = IF row.failed + 1 >= MaxFailed
                     THEN now + LockPeriod + row.lockedUntil ELSE @]

\* What a wrong one writes back: one more failure, and a lock at the threshold.
AfterWrong(row) ==
  [row EXCEPT
     !.failed = row.failed + 1,
     !.lockedUntil = IF row.failed + 1 >= MaxFailed THEN now + LockPeriod ELSE @]

\* The answer ErrInvalidCredentials has gone out.
LoginRejected(r) ==
  /\ pc[r] = "rejected"
  /\ Return(r)
  /\ UNCHANGED <<store, stored>>

\* The error of the write is ignored: a row deleted meanwhile stays deleted and
\* the login goes on.
LoginRight(r) ==
  /\ pc[r] = "verify"
  /\ VerifyPassword(call[r].pw, copy[r].hash)
  /\ accounts' = UpdateRow(call[r].account, AfterRight(copy[r]))
  /\ Proceed(r, "session")
  /\ UNCHANGED <<now, sessions, issued, stored>>

\* Mutant: a missing return after a wrong password.
LoginWrongFallsThrough(r) ==
  /\ pc[r] = "verify"
  /\ ~VerifyPassword(call[r].pw, copy[r].hash)
  /\ accounts' = UpdateRow(call[r].account, AfterWrong(copy[r]))
  /\ Proceed(r, "session")
  /\ UNCHANGED <<now, sessions, issued, stored>>

LoginWrong(r) ==
  /\ pc[r] = "verify"
  /\ ~VerifyPassword(call[r].pw, copy[r].hash)
  /\ accounts' = UpdateRow(call[r].account, AfterWrong(copy[r]))
  /\ Proceed(r, "rejected")
  /\ UNCHANGED <<now, sessions, issued, stored>>

NewSession(c) ==
  [account |-> c.account, expiresAt |-> now + SessionLife, lastActivity |-> now,
   proof |-> c.pw]

CreateSession(r) ==
  /\ pc[r] = "session"
  /\ \E sid \in SessionIds \ issued :
       /\ sessions' = [s \in DOMAIN sessions \cup {sid} |->
                         IF s = sid THEN NewSession(call[r]) ELSE sessions[s]]
       /\ issued' = issued \cup {sid}
  /\ Return(r)
  /\ UNCHANGED <<now, accounts, stored>>

-----------------------------------------------------------------------------
(* Sessions: ValidateSession, InvalidateSession, InvalidateAllUserSessions *)

ValidateMissing(r, c) ==
  /\ c.sid \notin DOMAIN sessions
  /\ Refuse(r, c)

ValidateExpired(r, c) ==
  /\ c.sid \in DOMAIN sessions
  /\ now > sessions[c.sid].expiresAt
  /\ Refuse(r, c)

ValidateRead(r, c) ==
  /\ c.sid \in DOMAIN sessions
  /\ now <= sessions[c.sid].expiresAt
  /\ Begin(r, c, "touch", [sessions[c.sid] EXCEPT !.lastActivity = now])
  /\ UNCHANGED <<store, stored>>

ValidateTouch(r) ==
  /\ pc[r] = "touch"
  /\ sessions' = UpdateSession(call[r].sid, copy[r])
  /\ Return(r)
  /\ UNCHANGED <<now, accounts, issued, stored>>

\* One store call, no copy: the whole request is one action.
Logout(sid) ==
  /\ "logout" \in Ops
  /\ sid \in DOMAIN sessions
  /\ sessions' = WithoutSessions({sid})
  /\ UNCHANGED <<now, accounts, issued, control, stored>>

InvalidateAllUserSessions(u) ==
  /\ "logoutAll" \in Ops
  /\ sessions' = WithoutSessions(SessionsOf(u))
  /\ UNCHANGED <<now, accounts, issued, control, stored>>

-----------------------------------------------------------------------------
(* Account updates: read the row, write the whole row back *)

UserMissing(r, c) ==
  /\ ~Exists(c.account)
  /\ Refuse(r, c)

\* ChangePassword with a wrong current password.
ChangeRefused(r, c) ==
  /\ Exists(c.account)
  /\ ~VerifyPassword(c.pw, accounts[c.account].hash)
  /\ Refuse(r, c)

ChangeRead(r, c) ==
  /\ Exists(c.account)
  /\ VerifyPassword(c.pw, accounts[c.account].hash)
  /\ Begin(r, c, "write", accounts[c.account])
  /\ UNCHANGED <<store, stored>>

\* UpdatePassword, SetUserActive, and the profile-only UpdateUser, VerifyEmail
\* and UpdateStorageUsed.
UpdateRead(r, c) ==
  /\ Exists(c.account)
  /\ Begin(r, c, "write", accounts[c.account])
  /\ UNCHANGED <<store, stored>>

\* Mutants: a profile update that forgets the failed attempts; one that rebuilds
\* the row as a new one is; a change that never reaches the hash.
EditedForgetsFailures(c, row) ==
  CASE c.op = "change"    -> [row EXCEPT !.hash = c.new]
    [] c.op = "setActive" -> [row EXCEPT !.active = c.active]
    [] c.op = "profile"   -> [row EXCEPT !.failed = 0, !.lockedUntil = NoLock]
    [] OTHER              -> row
EditedRebuildsRow(c, row) ==
  CASE c.op = "change"    -> [row EXCEPT !.hash = c.new]
    [] c.op = "setActive" -> [row EXCEPT !.active = c.active]
    [] c.op = "profile"   -> [row EXCEPT !.active = TRUE]
    [] OTHER              -> row
EditedKeepsHash(c, row) ==
  IF c.op = "setActive" THEN [row EXCEPT !.active = c.active] ELSE row

\* What each operation changes in its copy.
Edited(c, row) ==
  CASE c.op \in {"change", "reset"} -> [row EXCEPT !.hash = c.new]
    [] c.op = "setActive"           -> [row EXCEPT !.active = c.active]
    [] OTHER                        -> row

UpdateWrite(r) ==
  LET c == call[r] IN
  /\ pc[r] = "write"
  /\ accounts' = UpdateRow(c.account, Edited(c, copy[r]))
  /\ stored' = IF Exists(c.account)
               THEN [stored EXCEPT ![c.account] = @ \cup {Edited(c, copy[r]).hash}]
               ELSE stored
  /\ IF c.op = "change" /\ Exists(c.account)
     THEN Proceed(r, "revoke")
     ELSE Return(r)
  /\ UNCHANGED <<now, sessions, issued>>

\* Mutant: the sessions are left alone.
ChangeRevokeNothing(r) ==
  /\ pc[r] = "revoke"
  /\ Return(r)
  /\ UNCHANGED <<store, stored>>

\* ChangePassword: "Invalidate all sessions for security".
ChangeRevoke(r) ==
  /\ pc[r] = "revoke"
  /\ sessions' = WithoutSessions(SessionsOf(call[r].account))
  /\ Return(r)
  /\ UNCHANGED <<now, accounts, issued, stored>>

\* DeleteUser: the row goes, the sessions stay.
DeleteRead(r, c) ==
  /\ Exists(c.account)
  /\ Begin(r, c, "remove", accounts[c.account])
  /\ UNCHANGED <<store, stored>>

DeleteWrite(r) ==
  /\ pc[r] = "remove"
  /\ accounts' = Restrict(accounts, DOMAIN accounts \ {call[r].account})
  /\ Return(r)
  /\ UNCHANGED <<now, sessions, issued, stored>>

Tick ==
  /\ now < MaxTime
  /\ now' = now + 1
  /\ UNCHANGED <<accounts, sessions, issued, control, stored>>

-----------------------------------------------------------------------------

LoginStep(r) ==
  \/ \E c \in LoginCalls :
       LoginUnknown(r, c) \/ LoginLocked(r, c) \/ LoginDisabled(r, c) \/ LoginRead(r, c)
  \/ LoginRight(r) \/ LoginWrong(r) \/ LoginRejected(r) \/ CreateSession(r)

ValidateStep(r) ==
  \/ \E c \in ValidateCalls :
       ValidateMissing(r, c) \/ ValidateExpired(r, c) \/ ValidateRead(r, c)
  \/ ValidateTouch(r)

UpdateStep(r) ==
  \/ \E c \in ChangeCalls : UserMissing(r, c) \/ ChangeRefused(r, c) \/ ChangeRead(r, c)
  \/ \E c \in ResetCalls \cup ActiveCalls \cup ProfileCalls :
       UserMissing(r, c) \/ UpdateRead(r, c)
  \/ UpdateWrite(r) \/ ChangeRevoke(r)

DeleteStep(r) ==
  \/ \E c \in DeleteCalls : UserMissing(r, c) \/ DeleteRead(r, c)
  \/ DeleteWrite(r)

Next ==
  \/ \E r \in Requests :
       LoginStep(r) \/ ValidateStep(r) \/ UpdateStep(r) \/ DeleteStep(r)
  \/ \E sid \in SessionIds : Logout(sid)
  \/ \E u \in Users : InvalidateAllUserSessions(u)
  \/ Tick

Spec == Init /\ [][Next]_vars

\* The session ids and the live sessions, as the abstract store sees them.
Lifecycle == INSTANCE SessionLifecycle WITH live <- DOMAIN sessions

-----------------------------------------------------------------------------
(* Properties *)

\* A row carries a lock exactly when its failure count has reached the
\* threshold, although the two fields are written from stale copies.
LockFromCount ==
  \A a \in DOMAIN accounts :
    accounts[a].failed >= MaxFailed <=> accounts[a].lockedUntil # NoLock

\* No lock ever outlasts one lock period from now.
LockHorizon ==
  \A a \in DOMAIN accounts : accounts[a].lockedUntil <= now + LockPeriod

\* Every live session was opened with a password its own account has had in the
\* store, never with a guess and never with another account's password.
SessionProvenance ==
  \A sid \in DOMAIN sessions : sessions[sid].proof \in stored[sessions[sid].account]

\* A deleted user does not come back through the write of a request that had
\* read the row before.
DeletedStaysDeleted ==
  [][DOMAIN accounts' \subseteq DOMAIN accounts]_vars

\* The session store keeps the promise of SessionLifecycle: in particular the
\* write of a validation that began before a logout does not bring the session
\* back.
SessionsOnlyIssuedOnce == Lifecycle!Spec

\* A session's last activity never goes back, however the validations of two
\* requests overlap.
ActivityMonotonic ==
  [][\A sid \in DOMAIN sessions \cap DOMAIN sessions' :
       sessions'[sid].lastActivity >= sessions[sid].lastActivity]_vars

\* A change of password leaves no session behind that was opened with another
\* password than the current one ("Invalidate all sessions for security").
SessionMatchesPassword ==
  \A sid \in DOMAIN sessions :
    LET u == sessions[sid].account IN
      Exists(u) =>
        \/ sessions[sid].proof = accounts[u].hash
        \/ \E r \in Requests : pc[r] = "revoke" /\ call[r].account = u

\* A login by user name or e-mail address is told that the credentials are invalid
\* only if the password is not the current one (auth.go 151-157 and 191-198; a lock
\* or a disabled account is answered otherwise). A login by user id never gets as
\* far as the password, against auth.go:103 and IDEA.md:231, which name the user id
\* among the identifiers a login accepts (auth.go 122-127 and 162-167).
RightPasswordAdmitted ==
  \A r \in Requests :
    /\ (pc[r] = "rejected" /\ call[r].kind = "name" /\ Exists(call[r].account))
         => call[r].pw # accounts[call[r].account].hash
    /\ pc[r] \in {"verify", "session"} => call[r].kind = "name"

-----------------------------------------------------------------------------
(* The inductive invariant *)

\* What every row satisfies, in the store or as the copy of a request, at time
\* t, where hashes are the passwords its account has had so far.
SoundRow(row, t, hashes) ==
  /\ row \in Row
  /\ row.hash \in hashes
  /\ row.failed >= MaxFailed <=> row.lockedUntil # NoLock
  /\ row.lockedUntil <= t + LockPeriod

SoundSession(s, had) == s \in Session /\ s.proof \in had[s.account]

\* What a request knows at each label: a stale copy was sound when it was read,
\* and what has been stored once stays in the history.
Holds(r) == SoundRow(copy[r], now, stored[call[r].account])

RequestInv(r) ==
  /\ pc[r] = "verify" => call[r] \in LoginCalls /\ Holds(r)
  /\ pc[r] = "session" =>
       call[r] \in LoginCalls /\ call[r].pw \in stored[call[r].account]
  /\ pc[r] = "write" =>
       /\ call[r] \in ChangeCalls \cup ResetCalls \cup ActiveCalls \cup ProfileCalls
       /\ Holds(r)
  /\ pc[r] = "revoke" => call[r] \in ChangeCalls
  /\ pc[r] = "remove" => call[r] \in DeleteCalls
  /\ pc[r] = "touch" => call[r] \in ValidateCalls /\ SoundSession(copy[r], stored)

AccountsInv == \A a \in DOMAIN accounts : SoundRow(accounts[a], now, stored[a])
SessionsInv == \A sid \in DOMAIN sessions : SoundSession(sessions[sid], stored)

AuthInv ==
  /\ TypeOK
  /\ AccountsInv
  /\ SessionsInv
  /\ \A r \in Requests : RequestInv(r)
=============================================================================
