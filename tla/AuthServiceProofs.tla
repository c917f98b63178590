-------------------------- MODULE AuthServiceProofs --------------------------
(***************************************************************************)
(* For every population, every threshold and any number of concurrent      *)
(* requests: the store stays well formed, locks follow from counts, every  *)
(* session was opened with a password of its account, deleted users stay   *)
(* deleted, and the session store implements SessionLifecycle.             *)
(*                                                                         *)
(* The argument is AuthInv.  A request holds a copy of a row that others   *)
(* may have replaced; the copy was sound when it was read, and soundness   *)
(* is stable: the clock only goes forward and the history of an account's  *)
(* passwords only grows.  So the write of a stale copy keeps the store     *)
(* sound, although it may undo what another request wrote.                 *)
(***************************************************************************)
EXTENDS AuthService, TLAPS

-----------------------------------------------------------------------------
(* Rows *)

\* Soundness survives the passing of time and a longer history.
LEMMA SoundRowStable ==
  ASSUME NEW row, NEW t \in Nat, NEW u \in Nat, t <= u, NEW S, NEW T, S \subseteq T,
         SoundRow(row, t, S)
  PROVE  SoundRow(row, u, T)
  BY LimitsAssumption DEF SoundRow, Row

\* A right password clears the count and the lock together.
LEMMA AfterRightSound ==
  ASSUME NEW row, NEW S, now \in Nat, SoundRow(row, now, S)
  PROVE  SoundRow(AfterRight(row), now, S)
<1>1. row \in Row
  BY DEF SoundRow
<1>2. /\ AfterRight(row) \in Row
      /\ AfterRight(row).hash = row.hash
      /\ AfterRight(row).failed = 0
      /\ AfterRight(row).lockedUntil = NoLock
  BY <1>1 DEF AfterRight, Row, NoLock
<1> QED
  BY <1>2, LimitsAssumption DEF SoundRow, NoLock

\* A wrong one sets the lock in the write that makes the count reach the
\* threshold.
LEMMA AfterWrongSound ==
  ASSUME NEW row, NEW S, now \in Nat, SoundRow(row, now, S)
  PROVE  SoundRow(AfterWrong(row), now, S)
<1> DEFINE until == IF row.failed + 1 >= MaxFailed
                    THEN now + LockPeriod ELSE row.lockedUntil
<1>1. row \in Row /\ row.failed \in Nat /\ row.lockedUntil \in Nat
  BY DEF SoundRow, Row
<1>2. until \in Nat /\ row.failed + 1 \in Nat
  BY <1>1, LimitsAssumption
<1>3. AfterWrong(row) = [row EXCEPT !.failed = row.failed + 1, !.lockedUntil = until]
  BY <1>1 DEF AfterWrong, Row
<1> DEFINE count == row.failed + 1
<1> HIDE DEF until, count
<1>4. /\ AfterWrong(row) \in Row
      /\ AfterWrong(row).hash = row.hash
      /\ AfterWrong(row).failed = count
      /\ AfterWrong(row).lockedUntil = until
  <2>1. count \in Nat /\ AfterWrong(row) = [row EXCEPT !.failed = count, !.lockedUntil = until]
    BY <1>2, <1>3 DEF count
  <2> QED
    BY <1>1, <1>2, <2>1 DEF Row
<1>5. row.failed + 1 >= MaxFailed <=> until # NoLock
  <2>1. row.failed >= MaxFailed <=> row.lockedUntil # NoLock
    BY DEF SoundRow
  <2> QED
    BY <1>1, <2>1, LimitsAssumption DEF until, NoLock
<1>6. until <= now + LockPeriod
  BY LimitsAssumption, <1>1 DEF until, SoundRow
<1> QED
  BY <1>4, <1>5, <1>6 DEF SoundRow, count

\* An account update changes the hash or the flag, never the counters.
LEMMA EditedSound ==
  ASSUME NEW c \in ChangeCalls \cup ResetCalls \cup ActiveCalls \cup ProfileCalls,
         NEW row, NEW S, now \in Nat, SoundRow(row, now, S)
  PROVE  SoundRow(Edited(c, row), now, S \cup {Edited(c, row).hash})
<1>1. row \in Row
  BY DEF SoundRow
<1>2. /\ Edited(c, row) \in Row
      /\ Edited(c, row).failed = row.failed
      /\ Edited(c, row).lockedUntil = row.lockedUntil
  <2>1. CASE c \in ChangeCalls \cup ResetCalls
    <3>1. c.op \in {"change", "reset"} /\ c.new \in Passwords
      BY <2>1 DEF ChangeCalls, ResetCalls
    <3>2. Edited(c, row) = [row EXCEPT !.hash = c.new]
      BY <3>1 DEF Edited
    <3> QED
      BY <1>1, <3>1, <3>2 DEF Row
  <2>2. CASE c \in ActiveCalls
    <3>1. c.op = "setActive" /\ c.active \in BOOLEAN
      BY <2>2 DEF ActiveCalls
    <3>2. Edited(c, row) = [row EXCEPT !.active = c.active]
      BY <3>1 DEF Edited
    <3> QED
      BY <1>1, <3>1, <3>2 DEF Row
  <2>3. CASE c \in ProfileCalls
    <3>1. c.op = "profile"
      BY <2>3 DEF ProfileCalls
    <3>2. Edited(c, row) = row
      BY <3>1 DEF Edited
    <3> QED
      BY <1>1, <3>2 DEF Row
  <2> QED
    BY <2>1, <2>2, <2>3
<1> QED
  BY <1>2 DEF SoundRow

-----------------------------------------------------------------------------
(* Requests *)

\* The parts of TypeOK that Begin, Proceed and Return determine.
ControlTyped ==
  /\ pc \in [Requests -> Labels]
  /\ call \in [Requests -> Calls \cup {NoCall}]
  /\ copy \in [Requests -> Row \cup Session \cup {NoCopy}]

\* Only request r moved in this step.
OnlyMoves(r) ==
  \A q \in Requests \ {r} : pc'[q] = pc[q] /\ call'[q] = call[q] /\ copy'[q] = copy[q]

LEMMA BeginStep ==
  ASSUME TypeOK, NEW r \in Requests, NEW c \in Calls, NEW l \in Labels,
         NEW x \in Row \cup Session \cup {NoCopy}, Begin(r, c, l, x)
  PROVE  /\ ControlTyped' /\ OnlyMoves(r)
         /\ pc'[r] = l /\ call'[r] = c /\ copy'[r] = x
  BY DEF TypeOK, ControlTyped, OnlyMoves, Begin

LEMMA ProceedStep ==
  ASSUME TypeOK, NEW r \in Requests, NEW l \in Labels, Proceed(r, l)
  PROVE  /\ ControlTyped' /\ OnlyMoves(r)
         /\ pc'[r] = l /\ call'[r] = call[r]
  BY DEF TypeOK, ControlTyped, OnlyMoves, Proceed

LEMMA ReturnStep ==
  ASSUME TypeOK, NEW r \in Requests, Return(r)
  PROVE  ControlTyped' /\ OnlyMoves(r) /\ pc'[r] = "idle"
  BY DEF TypeOK, ControlTyped, OnlyMoves, Return, Labels

\* Time went on and the history grew.
Later == /\ now <= now'
         /\ \A a \in Accounts : stored[a] \subseteq stored'[a]

\* The account a request is about.
LEMMA CallAccount ==
  ASSUME NEW c \in LoginCalls \cup ChangeCalls \cup ResetCalls \cup ActiveCalls
                    \cup ProfileCalls \cup DeleteCalls
  PROVE  c.account \in Accounts /\ c \in Calls
  BY DEF LoginCalls, ChangeCalls, ResetCalls, ActiveCalls, ProfileCalls,
         DeleteCalls, Calls, Accounts

\* What a request that does not move knew stays true.
LEMMA RequestStable ==
  ASSUME TypeOK, now' \in Clock, Later, NEW q \in Requests, RequestInv(q),
         pc'[q] = pc[q], call'[q] = call[q], copy'[q] = copy[q]
  PROVE  RequestInv(q)'
<1> DEFINE a == call[q].account
<1>1. now \in Nat /\ now' \in Nat
  BY LimitsAssumption DEF TypeOK, Clock
<1>2. CASE pc[q] = "verify" \/ pc[q] = "write"
  <2>1. a \in Accounts
    BY <1>2, CallAccount DEF RequestInv
  <2>2. SoundRow(copy[q], now, stored[a])
    BY <1>2 DEF RequestInv, Holds
  <2>3. SoundRow(copy[q], now', stored'[a])
    BY <1>1, <2>1, <2>2, SoundRowStable DEF Later
  <2>4. Holds(q)'
    BY <2>3 DEF Holds
  <2> QED
    BY <1>2, <2>4 DEF RequestInv
<1>3. CASE pc[q] = "session"
  <2>1. a \in Accounts
    BY <1>3, CallAccount DEF RequestInv
  <2> QED
    BY <1>3, <2>1 DEF RequestInv, Later
<1>4. CASE pc[q] = "touch"
  <2>1. copy[q].account \in Accounts /\ SoundSession(copy[q], stored)
    BY <1>4 DEF RequestInv, SoundSession, Session
  <2>2. SoundSession(copy[q], stored)'
    BY <2>1 DEF SoundSession, Later
  <2> QED
    BY <1>4, <2>2 DEF RequestInv
<1>5. CASE pc[q] \notin {"verify", "write", "session", "touch"}
  BY <1>5 DEF RequestInv
<1> QED
  BY <1>2, <1>3, <1>4, <1>5

\* A step of r keeps what every other request knows.
LEMMA OthersStable ==
  ASSUME AuthInv, now' \in Clock, Later, NEW r \in Requests, OnlyMoves(r), RequestInv(r)'
  PROVE  \A q \in Requests : RequestInv(q)'
<1> SUFFICES ASSUME NEW q \in Requests, q # r PROVE RequestInv(q)'
  OBVIOUS
<1> QED
  BY RequestStable DEF AuthInv, OnlyMoves

\* Accounts and sessions that a step leaves alone stay sound.
LEMMA AccountsStable ==
  ASSUME AuthInv, now' \in Clock, Later, UNCHANGED accounts
  PROVE  AccountsInv'
<1>1. now \in Nat /\ now' \in Nat
  BY LimitsAssumption DEF AuthInv, TypeOK, Clock
<1>2. ASSUME NEW a \in DOMAIN accounts PROVE SoundRow(accounts[a], now', stored'[a])
  <2>1. a \in Accounts /\ SoundRow(accounts[a], now, stored[a])
    BY DEF AuthInv, TypeOK, AccountsInv
  <2> QED
    BY <1>1, <2>1, SoundRowStable DEF Later
<1> QED
  BY <1>2 DEF AccountsInv

LEMMA SessionStable ==
  ASSUME Later, NEW x, SoundSession(x, stored)
  PROVE  SoundSession(x, stored')
<1>1. x.account \in Accounts
  BY DEF SoundSession, Session
<1> QED
  BY <1>1 DEF SoundSession, Later

\* A row written back over an existing one, or dropped with it.
LEMMA UpdateRowSound ==
  ASSUME AuthInv, NEW a \in Accounts, NEW row, now' = now, Later,
         SoundRow(row, now, stored'[a]), accounts' = UpdateRow(a, row)
  PROVE  /\ DOMAIN accounts' = DOMAIN accounts
         /\ accounts' \in [DOMAIN accounts' -> Row]
         /\ AccountsInv'
<1>1. row \in Row
  BY DEF SoundRow
<1>2. DOMAIN accounts' = DOMAIN accounts
  BY DEF UpdateRow
<1>3. ASSUME NEW b \in DOMAIN accounts
      PROVE  SoundRow(accounts'[b], now, stored'[b])
  <2>1. CASE b = a
    BY <2>1 DEF UpdateRow, Exists
  <2>2. CASE b # a
    <3>1. accounts'[b] = accounts[b]
      BY <2>2 DEF UpdateRow
    <3>2. b \in Accounts /\ SoundRow(accounts[b], now, stored[b]) /\ now \in Nat
      BY LimitsAssumption DEF AuthInv, TypeOK, AccountsInv, Clock
    <3> QED
      BY <3>1, <3>2, SoundRowStable DEF Later
  <2> QED
    BY <2>1, <2>2
<1>4. accounts' \in [DOMAIN accounts' -> Row]
  BY <1>1 DEF UpdateRow, AuthInv, TypeOK
<1> QED
  BY <1>2, <1>3, <1>4 DEF AccountsInv

\* Some sessions deleted, the others as they were.
LEMMA WithoutSessionsSound ==
  ASSUME AuthInv, NEW S, Later, sessions' = WithoutSessions(S)
  PROVE  /\ DOMAIN sessions' \subseteq DOMAIN sessions
         /\ sessions' \in [DOMAIN sessions' -> Session]
         /\ SessionsInv'
<1>1. sessions' = [x \in DOMAIN sessions \ S |-> sessions[x]]
  BY DEF WithoutSessions, Restrict
<1>2. ASSUME NEW x \in DOMAIN sessions' PROVE SoundSession(sessions'[x], stored')
  <2>1. x \in DOMAIN sessions /\ sessions'[x] = sessions[x]
    BY <1>1
  <2>2. SoundSession(sessions[x], stored)
    BY <2>1 DEF AuthInv, SessionsInv
  <2> QED
    BY <2>1, <2>2, SessionStable
<1>3. DOMAIN sessions' \subseteq DOMAIN sessions
  BY <1>1
<1>4. sessions' \in [DOMAIN sessions' -> Session]
  BY <1>1 DEF AuthInv, TypeOK
<1> QED
  BY <1>2, <1>3, <1>4 DEF SessionsInv

\* A session written back over the one that was read.
LEMMA UpdateSessionSound ==
  ASSUME AuthInv, NEW sid, NEW x, Later, SoundSession(x, stored), now \in Clock,
         sessions' = UpdateSession(sid, x)
  PROVE  /\ DOMAIN sessions' = DOMAIN sessions
         /\ sessions' \in [DOMAIN sessions' -> Session]
         /\ SessionsInv'
<1> DEFINE y == [x EXCEPT !.lastActivity = now]
<1>1. x \in Session
  BY DEF SoundSession
<1>2. y \in Session /\ y.proof = x.proof /\ y.account = x.account
  BY <1>1 DEF Session
<1>3. SoundSession(y, stored)
  BY <1>2 DEF SoundSession
<1> HIDE DEF y
<1>4. sessions' = IF sid \in DOMAIN sessions THEN [sessions EXCEPT ![sid] = y] ELSE sessions
  BY DEF UpdateSession, y
<1>5. DOMAIN sessions' = DOMAIN sessions
  BY <1>4
<1>6. ASSUME NEW z \in DOMAIN sessions PROVE SoundSession(sessions'[z], stored')
  <2>1. SoundSession(sessions[z], stored)
    BY DEF AuthInv, SessionsInv
  <2>2. sessions'[z] = y \/ sessions'[z] = sessions[z]
    BY <1>4
  <2> QED
    BY <1>3, <2>1, <2>2, SessionStable
<1>7. sessions' \in [DOMAIN sessions' -> Session]
  BY <1>2, <1>4 DEF AuthInv, TypeOK
<1> QED
  BY <1>5, <1>6, <1>7 DEF SessionsInv

\* The parts of TypeOK that are neither the clock's nor a request's.
StoreTyped ==
  /\ DOMAIN accounts \subseteq Accounts
  /\ accounts \in [DOMAIN accounts -> Row]
  /\ issued \subseteq SessionIds
  /\ DOMAIN sessions \subseteq issued
  /\ sessions \in [DOMAIN sessions -> Session]
  /\ stored \in [Accounts -> SUBSET Passwords]

\* A refused request changes nothing.
LEMMA UnchangedSound ==
  ASSUME AuthInv, UNCHANGED vars
  PROVE  AuthInv'
  BY DEF AuthInv, TypeOK, AccountsInv, SessionsInv, RequestInv, Holds, vars

\* What a step of request r has to show.
LEMMA StepOfRequest ==
  ASSUME AuthInv, NEW r \in Requests, now' = now, Later, OnlyMoves(r), RequestInv(r)',
         ControlTyped', StoreTyped', AccountsInv', SessionsInv'
  PROVE  AuthInv'
<1>1. now' \in Clock
  BY DEF AuthInv, TypeOK
<1>2. \A q \in Requests : RequestInv(q)'
  BY <1>1, OthersStable
<1> QED
  BY <1>1, <1>2 DEF AuthInv, TypeOK, StoreTyped, ControlTyped

\* A step of request r that only reads the store.
LEMMA StepThatReads ==
  ASSUME AuthInv, NEW r \in Requests, UNCHANGED <<store, stored>>, OnlyMoves(r),
         RequestInv(r)', ControlTyped'
  PROVE  AuthInv'
<1>1. now' = now /\ now' \in Clock /\ now \in Int
  BY LimitsAssumption DEF AuthInv, TypeOK, store, Clock
<1>2. Later
  BY <1>1 DEF Later, store
<1>3. AccountsInv'
  BY <1>1, <1>2, AccountsStable DEF store
<1>4. SessionsInv'
  BY DEF AuthInv, SessionsInv, store
<1>5. StoreTyped'
  BY DEF AuthInv, TypeOK, StoreTyped, store
<1> QED
  BY <1>1, <1>2, <1>3, <1>4, <1>5, StepOfRequest

-----------------------------------------------------------------------------
(* The steps *)

LEMMA LoginStepSound ==
  ASSUME AuthInv, NEW r \in Requests, LoginStep(r)
  PROVE  AuthInv'
<1>0. TypeOK /\ RequestInv(r) /\ now \in Nat /\ now \in Clock
  BY LimitsAssumption DEF AuthInv, TypeOK, Clock
<1>1. ASSUME NEW c \in LoginCalls, LoginUnknown(r, c) PROVE AuthInv'
  <2>1. c \in Calls
    BY CallAccount
  <2>2. ControlTyped' /\ OnlyMoves(r) /\ pc'[r] = "rejected"
    BY <1>0, <1>1, <2>1, BeginStep DEF LoginUnknown, Labels
  <2>3. RequestInv(r)'
    BY <2>2 DEF RequestInv
  <2> QED
    BY <1>1, <2>2, <2>3, StepThatReads DEF LoginUnknown
<1>2. ASSUME NEW c \in LoginCalls, LoginLocked(r, c) \/ LoginDisabled(r, c)
      PROVE  AuthInv'
  BY <1>2, UnchangedSound DEF LoginLocked, LoginDisabled, Refuse
<1>3. ASSUME NEW c \in LoginCalls, LoginRead(r, c) PROVE AuthInv'
  <2>1. c \in Calls /\ c.account \in DOMAIN accounts
    BY <1>3, CallAccount DEF LoginRead, LooksUp, Exists
  <2>2. SoundRow(accounts[c.account], now, stored[c.account])
    BY <2>1 DEF AuthInv, AccountsInv
  <2>3. accounts[c.account] \in Row
    BY <2>2 DEF SoundRow
  <2>4. /\ ControlTyped' /\ OnlyMoves(r)
        /\ pc'[r] = "verify" /\ call'[r] = c /\ copy'[r] = accounts[c.account]
    BY <1>0, <1>3, <2>1, <2>3, BeginStep DEF LoginRead, Labels
  <2>5. UNCHANGED <<store, stored>> /\ now' = now /\ stored' = stored
    BY <1>3 DEF LoginRead, store
  <2>6. Holds(r)'
    BY <2>2, <2>4, <2>5 DEF Holds
  <2>7. RequestInv(r)'
    BY <2>4, <2>6 DEF RequestInv
  <2> QED
    BY <2>4, <2>5, <2>7, StepThatReads
<1>4. CASE LoginRight(r)
  <2>1. /\ call[r] \in LoginCalls /\ call[r].account \in Accounts
        /\ SoundRow(copy[r], now, stored[call[r].account])
    BY <1>0, <1>4, CallAccount DEF LoginRight, RequestInv, Holds
  <2>2. now' = now /\ UNCHANGED <<sessions, issued, stored>> /\ Later
    BY <1>0, <1>4 DEF LoginRight, Later
  <2>3. SoundRow(AfterRight(copy[r]), now, stored'[call[r].account])
    BY <1>0, <2>1, <2>2, AfterRightSound
  <2>4. /\ DOMAIN accounts' = DOMAIN accounts
        /\ accounts' \in [DOMAIN accounts' -> Row]
        /\ AccountsInv'
    BY <1>4, <2>1, <2>2, <2>3, UpdateRowSound DEF LoginRight
  <2>5. ControlTyped' /\ OnlyMoves(r) /\ pc'[r] = "session" /\ call'[r] = call[r]
    BY <1>0, <1>4, ProceedStep DEF LoginRight, Labels
  <2>6. RequestInv(r)'
    BY <1>4, <2>1, <2>2, <2>5 DEF LoginRight, VerifyPassword, SoundRow, RequestInv
  <2>7. StoreTyped'
    BY <1>0, <2>2, <2>4 DEF StoreTyped, TypeOK
  <2>8. SessionsInv'
    BY <2>2 DEF AuthInv, SessionsInv
  <2> QED
    BY <2>2, <2>4, <2>5, <2>6, <2>7, <2>8, StepOfRequest
<1>5. CASE LoginWrong(r)
  <2>1. /\ call[r] \in LoginCalls /\ call[r].account \in Accounts
        /\ SoundRow(copy[r], now, stored[call[r].account])
    BY <1>0, <1>5, CallAccount DEF LoginWrong, RequestInv, Holds
  <2>2. now' = now /\ UNCHANGED <<sessions, issued, stored>> /\ Later
    BY <1>0, <1>5 DEF LoginWrong, Later
  <2>3. SoundRow(AfterWrong(copy[r]), now, stored'[call[r].account])
    BY <1>0, <2>1, <2>2, AfterWrongSound
  <2>4. /\ DOMAIN accounts' = DOMAIN accounts
        /\ accounts' \in [DOMAIN accounts' -> Row]
        /\ AccountsInv'
    BY <1>5, <2>1, <2>2, <2>3, UpdateRowSound DEF LoginWrong
  <2>5. ControlTyped' /\ OnlyMoves(r) /\ pc'[r] = "rejected"
    BY <1>0, <1>5, ProceedStep DEF LoginWrong, Labels
  <2>6. RequestInv(r)'
    BY <2>5 DEF RequestInv
  <2>7. StoreTyped'
    BY <1>0, <2>2, <2>4 DEF StoreTyped, TypeOK
  <2>8. SessionsInv'
    BY <2>2 DEF AuthInv, SessionsInv
  <2> QED
    BY <2>2, <2>4, <2>5, <2>6, <2>7, <2>8, StepOfRequest
<1>6. CASE LoginRejected(r)
  <2>1. ControlTyped' /\ OnlyMoves(r) /\ pc'[r] = "idle"
    BY <1>0, <1>6, ReturnStep DEF LoginRejected
  <2>2. RequestInv(r)'
    BY <2>1 DEF RequestInv
  <2> QED
    BY <1>6, <2>1, <2>2, StepThatReads DEF LoginRejected
<1>7. CASE CreateSession(r)
  <2> DEFINE s == NewSession(call[r])
  <2>1. PICK sid \in SessionIds \ issued :
          /\ sessions' = [x \in DOMAIN sessions \cup {sid} |->
                            IF x = sid THEN s ELSE sessions[x]]
          /\ issued' = issued \cup {sid}
    BY <1>7 DEF CreateSession
  <2>2. /\ call[r] \in LoginCalls /\ call[r].account \in Accounts
        /\ call[r].pw \in stored[call[r].account] /\ call[r].pw \in Passwords
    BY <1>0, <1>7, CallAccount DEF CreateSession, RequestInv, LoginCalls
  <2>3. now + SessionLife \in Nat
    BY <1>0, LimitsAssumption
  <2>4. s \in Session /\ s.proof = call[r].pw /\ s.account = call[r].account
    BY <1>0, <2>2, <2>3 DEF NewSession, Session
  <2>5. SoundSession(s, stored)
    BY <2>2, <2>4 DEF SoundSession
  <2> HIDE DEF s
  <2>6. now' = now /\ UNCHANGED <<accounts, stored>> /\ Later
    BY <1>0, <1>7 DEF CreateSession, Later
  <2>7. DOMAIN sessions' = DOMAIN sessions \cup {sid}
    BY <2>1
  <2>8. SessionsInv'
    <3> SUFFICES ASSUME NEW x \in DOMAIN sessions'
                 PROVE  SoundSession(sessions'[x], stored')
      BY DEF SessionsInv
    <3>1. SoundSession(sessions'[x], stored)
      BY <2>1, <2>5, <2>7 DEF AuthInv, SessionsInv
    <3> QED
      BY <2>6, <3>1
  <2>9. sessions' \in [DOMAIN sessions' -> Session]
    BY <1>0, <2>1, <2>4 DEF TypeOK
  <2>10. ControlTyped' /\ OnlyMoves(r) /\ pc'[r] = "idle"
    BY <1>0, <1>7, ReturnStep DEF CreateSession
  <2>11. RequestInv(r)'
    BY <2>10 DEF RequestInv
  <2>12. StoreTyped'
    BY <1>0, <2>1, <2>6, <2>7, <2>9 DEF StoreTyped, TypeOK
  <2>13. AccountsInv'
    BY <2>6 DEF AuthInv, AccountsInv
  <2> QED
    BY <2>6, <2>8, <2>10, <2>11, <2>12, <2>13, StepOfRequest
<1> QED
  BY <1>1, <1>2, <1>3, <1>4, <1>5, <1>6, <1>7 DEF LoginStep

LEMMA ValidateStepSound ==
  ASSUME AuthInv, NEW r \in Requests, ValidateStep(r)
  PROVE  AuthInv'
<1>0. TypeOK /\ RequestInv(r) /\ now \in Nat /\ now \in Clock
  BY LimitsAssumption DEF AuthInv, TypeOK, Clock
<1>1. ASSUME NEW c \in ValidateCalls, ValidateMissing(r, c) \/ ValidateExpired(r, c)
      PROVE  AuthInv'
  BY <1>1, UnchangedSound DEF ValidateMissing, ValidateExpired, Refuse
<1>2. ASSUME NEW c \in ValidateCalls, ValidateRead(r, c) PROVE AuthInv'
  <2> DEFINE x == [sessions[c.sid] EXCEPT !.lastActivity = now]
  <2>1. SoundSession(sessions[c.sid], stored) /\ sessions[c.sid] \in Session
    BY <1>2 DEF ValidateRead, AuthInv, SessionsInv, SoundSession
  <2>2. x \in Session /\ SoundSession(x, stored)
    BY <1>0, <2>1 DEF SoundSession, Session
  <2>3. Begin(r, c, "touch", x) /\ UNCHANGED <<store, stored>> /\ stored' = stored
    BY <1>2 DEF ValidateRead
  <2> HIDE DEF x
  <2>4. c \in Calls
    BY DEF Calls
  <2>5. /\ ControlTyped' /\ OnlyMoves(r)
        /\ pc'[r] = "touch" /\ call'[r] = c /\ copy'[r] = x
    BY <1>0, <2>2, <2>3, <2>4, BeginStep DEF Labels
  <2>6. RequestInv(r)'
    BY <2>2, <2>3, <2>5 DEF RequestInv
  <2> QED
    BY <2>3, <2>5, <2>6, StepThatReads
<1>3. CASE ValidateTouch(r)
  <2>1. SoundSession(copy[r], stored)
    BY <1>0, <1>3 DEF ValidateTouch, RequestInv
  <2>2. now' = now /\ UNCHANGED <<accounts, issued, stored>> /\ Later
    BY <1>0, <1>3 DEF ValidateTouch, Later
  <2>3. sessions' = UpdateSession(call[r].sid, copy[r])
    BY <1>3 DEF ValidateTouch
  <2>4. /\ DOMAIN sessions' = DOMAIN sessions
        /\ sessions' \in [DOMAIN sessions' -> Session]
        /\ SessionsInv'
    BY <1>0, <2>1, <2>2, <2>3, UpdateSessionSound
  <2>5. ControlTyped' /\ OnlyMoves(r) /\ pc'[r] = "idle"
    BY <1>0, <1>3, ReturnStep DEF ValidateTouch
  <2>6. RequestInv(r)'
    BY <2>5 DEF RequestInv
  <2>7. StoreTyped' /\ AccountsInv'
    BY <1>0, <2>2, <2>4 DEF StoreTyped, TypeOK, AuthInv, AccountsInv
  <2> QED
    BY <2>2, <2>4, <2>5, <2>6, <2>7, StepOfRequest
<1> QED
  BY <1>1, <1>2, <1>3 DEF ValidateStep

LEMMA UpdateStepSound ==
  ASSUME AuthInv, NEW r \in Requests, UpdateStep(r)
  PROVE  AuthInv'
<1>0. TypeOK /\ RequestInv(r) /\ now \in Nat /\ now \in Clock
  BY LimitsAssumption DEF AuthInv, TypeOK, Clock
<1> DEFINE Updates == ChangeCalls \cup ResetCalls \cup ActiveCalls \cup ProfileCalls
<1>1. ASSUME NEW c \in Updates, UserMissing(r, c) \/ ChangeRefused(r, c) PROVE AuthInv'
  BY <1>1, UnchangedSound DEF UserMissing, ChangeRefused, Refuse
<1>2. ASSUME NEW c \in Updates, ChangeRead(r, c) \/ UpdateRead(r, c) PROVE AuthInv'
  <2>1. c \in Calls /\ c.account \in DOMAIN accounts
    BY <1>2, CallAccount DEF ChangeRead, UpdateRead, Exists
  <2>2. SoundRow(accounts[c.account], now, stored[c.account])
    BY <2>1 DEF AuthInv, AccountsInv
  <2>3. accounts[c.account] \in Row
    BY <2>2 DEF SoundRow
  <2>4. /\ ControlTyped' /\ OnlyMoves(r)
        /\ pc'[r] = "write" /\ call'[r] = c /\ copy'[r] = accounts[c.account]
    BY <1>0, <1>2, <2>1, <2>3, BeginStep DEF ChangeRead, UpdateRead, Labels
  <2>5. UNCHANGED <<store, stored>> /\ now' = now /\ stored' = stored
    BY <1>2 DEF ChangeRead, UpdateRead, store
  <2>6. Holds(r)'
    BY <2>2, <2>4, <2>5 DEF Holds
  <2>7. RequestInv(r)'
    BY <2>4, <2>6 DEF RequestInv
  <2> QED
    BY <2>4, <2>5, <2>7, StepThatReads
<1>3. CASE UpdateWrite(r)
  <2> DEFINE c == call[r]
             row == Edited(c, copy[r])
  <2>1. c \in Updates /\ c.account \in Accounts /\ SoundRow(copy[r], now, stored[c.account])
    BY <1>0, <1>3, CallAccount DEF UpdateWrite, RequestInv, Holds
  <2>2. SoundRow(row, now, stored[c.account] \cup {row.hash})
    BY <1>0, <2>1, EditedSound
  <2>3. row \in Row /\ row.hash \in Passwords
    BY <2>2 DEF SoundRow, Row
  <2>4. /\ accounts' = UpdateRow(c.account, row)
        /\ stored' = IF Exists(c.account)
                     THEN [stored EXCEPT ![c.account] = @ \cup {row.hash}]
                     ELSE stored
        /\ now' = now /\ UNCHANGED <<sessions, issued>>
    BY <1>3 DEF UpdateWrite
  <2>5. (c.op = "change" /\ Proceed(r, "revoke")) \/ Return(r)
    BY <1>3 DEF UpdateWrite
  <2> HIDE DEF row
  <2>6. stored' \in [Accounts -> SUBSET Passwords] /\ Later
    <3>1. stored \in [Accounts -> SUBSET Passwords] /\ c.account \in Accounts
      BY <1>0, <2>1 DEF TypeOK
    <3>2. now <= now'
      BY <1>0, <2>4
    <3>3. CASE Exists(c.account)
      <4>1. stored' = [stored EXCEPT ![c.account] = @ \cup {row.hash}]
        BY <2>4, <3>3
      <4>2. stored' \in [Accounts -> SUBSET Passwords]
        BY <2>3, <3>1, <4>1
      <4>3. \A a \in Accounts : stored[a] \subseteq stored'[a]
        BY <3>1, <4>1
      <4> QED
        BY <3>2, <4>2, <4>3 DEF Later
    <3>4. CASE ~Exists(c.account)
      BY <2>4, <3>1, <3>2, <3>4 DEF Later
    <3> QED
      BY <3>3, <3>4
  <2>7. /\ DOMAIN accounts' = DOMAIN accounts
        /\ accounts' \in [DOMAIN accounts' -> Row]
        /\ AccountsInv'
    <3>1. CASE Exists(c.account)
      <4>1. stored'[c.account] = stored[c.account] \cup {row.hash}
        BY <1>0, <2>1, <2>4, <3>1 DEF TypeOK
      <4> QED
        BY <2>1, <2>2, <2>4, <2>6, <4>1, UpdateRowSound
    <3>2. CASE ~Exists(c.account)
      <4>1. accounts' = accounts
        BY <2>4, <3>2 DEF UpdateRow
      <4> QED
        BY <1>0, <2>4, <2>6, <4>1, AccountsStable DEF TypeOK
    <3> QED
      BY <3>1, <3>2
  <2>8. ControlTyped' /\ OnlyMoves(r) /\ RequestInv(r)'
    <3>1. CASE c.op = "change" /\ Proceed(r, "revoke")
      <4>1. c \in ChangeCalls
        BY <2>1, <3>1 DEF ChangeCalls, ResetCalls, ActiveCalls, ProfileCalls
      <4>2. ControlTyped' /\ OnlyMoves(r) /\ pc'[r] = "revoke" /\ call'[r] = c
        BY <1>0, <3>1, ProceedStep DEF Labels
      <4> QED
        BY <4>1, <4>2 DEF RequestInv
    <3>2. CASE Return(r)
      <4>1. ControlTyped' /\ OnlyMoves(r) /\ pc'[r] = "idle"
        BY <1>0, <3>2, ReturnStep
      <4> QED
        BY <4>1 DEF RequestInv
    <3> QED
      BY <2>5, <3>1, <3>2
  <2>9. SessionsInv'
    <3> SUFFICES ASSUME NEW x \in DOMAIN sessions PROVE SoundSession(sessions[x], stored')
      BY <2>4 DEF SessionsInv
    <3> QED
      BY <2>6, SessionStable DEF AuthInv, SessionsInv
  <2>10. StoreTyped'
    BY <1>0, <2>4, <2>6, <2>7 DEF StoreTyped, TypeOK
  <2> QED
    BY <2>4, <2>6, <2>7, <2>8, <2>9, <2>10, StepOfRequest
<1>4. CASE ChangeRevoke(r)
  <2>1. now' = now /\ UNCHANGED <<accounts, issued, stored>> /\ Later
    BY <1>0, <1>4 DEF ChangeRevoke, Later
  <2>2. sessions' = WithoutSessions(SessionsOf(call[r].account))
    BY <1>4 DEF ChangeRevoke
  <2>3. /\ DOMAIN sessions' \subseteq DOMAIN sessions
        /\ sessions' \in [DOMAIN sessions' -> Session]
        /\ SessionsInv'
    BY <2>1, <2>2, WithoutSessionsSound
  <2>4. ControlTyped' /\ OnlyMoves(r) /\ pc'[r] = "idle"
    BY <1>0, <1>4, ReturnStep DEF ChangeRevoke
  <2>5. RequestInv(r)'
    BY <2>4 DEF RequestInv
  <2>6. StoreTyped' /\ AccountsInv'
    BY <1>0, <2>1, <2>3 DEF StoreTyped, TypeOK, AuthInv, AccountsInv
  <2> QED
    BY <2>1, <2>3, <2>4, <2>5, <2>6, StepOfRequest
<1> QED
  BY <1>1, <1>2, <1>3, <1>4 DEF UpdateStep

LEMMA DeleteStepSound ==
  ASSUME AuthInv, NEW r \in Requests, DeleteStep(r)
  PROVE  AuthInv'
<1>0. TypeOK /\ RequestInv(r) /\ now \in Nat /\ now \in Clock
  BY LimitsAssumption DEF AuthInv, TypeOK, Clock
<1>1. ASSUME NEW c \in DeleteCalls, UserMissing(r, c) PROVE AuthInv'
  BY <1>1, UnchangedSound DEF UserMissing, Refuse
<1>2. ASSUME NEW c \in DeleteCalls, DeleteRead(r, c) PROVE AuthInv'
  <2>1. c \in Calls /\ accounts[c.account] \in Row
    BY <1>0, <1>2, CallAccount DEF DeleteRead, Exists, TypeOK
  <2>2. ControlTyped' /\ OnlyMoves(r) /\ pc'[r] = "remove" /\ call'[r] = c
    BY <1>0, <1>2, <2>1, BeginStep DEF DeleteRead, Labels
  <2>3. RequestInv(r)'
    BY <2>2 DEF RequestInv
  <2> QED
    BY <1>2, <2>2, <2>3, StepThatReads DEF DeleteRead
<1>3. CASE DeleteWrite(r)
  <2>1. now' = now /\ UNCHANGED <<sessions, issued, stored>> /\ Later
    BY <1>0, <1>3 DEF DeleteWrite, Later
  <2>2. accounts' = [a \in DOMAIN accounts \ {call[r].account} |-> accounts[a]]
    BY <1>3 DEF DeleteWrite, Restrict
  <2>3. AccountsInv'
    BY <2>1, <2>2 DEF AuthInv, AccountsInv
  <2>4. StoreTyped' /\ SessionsInv'
    BY <1>0, <2>1, <2>2 DEF StoreTyped, TypeOK, AuthInv, SessionsInv
  <2>5. ControlTyped' /\ OnlyMoves(r) /\ pc'[r] = "idle"
    BY <1>0, <1>3, ReturnStep DEF DeleteWrite
  <2>6. RequestInv(r)'
    BY <2>5 DEF RequestInv
  <2> QED
    BY <2>1, <2>3, <2>4, <2>5, <2>6, StepOfRequest
<1> QED
  BY <1>1, <1>2, <1>3 DEF DeleteStep

\* Steps that belong to no pending request: a logout, or a tick of the clock.
LEMMA LogoutSound ==
  ASSUME AuthInv, NEW S, sessions' = WithoutSessions(S),
         UNCHANGED <<now, accounts, issued, control, stored>>
  PROVE  AuthInv'
<1>1. Later /\ TypeOK
  BY LimitsAssumption DEF Later, AuthInv, TypeOK, Clock
<1>2. /\ DOMAIN sessions' \subseteq DOMAIN sessions
      /\ sessions' \in [DOMAIN sessions' -> Session]
      /\ SessionsInv'
  BY <1>1, WithoutSessionsSound
<1>3. TypeOK'
  BY <1>1, <1>2 DEF TypeOK, control
<1>4. AccountsInv' /\ \A r \in Requests : RequestInv(r)'
  BY DEF AuthInv, AccountsInv, RequestInv, Holds, control
<1> QED
  BY <1>2, <1>3, <1>4 DEF AuthInv

LEMMA TickSound ==
  ASSUME AuthInv, Tick
  PROVE  AuthInv'
<1>1. now' \in Clock /\ Later
  BY LimitsAssumption DEF AuthInv, TypeOK, Tick, Clock, Later
<1>2. TypeOK'
  BY <1>1 DEF AuthInv, TypeOK, Tick, control
<1>3. AccountsInv'
  BY <1>1, AccountsStable DEF Tick
<1>4. SessionsInv'
  BY DEF AuthInv, SessionsInv, Tick
<1>5. ASSUME NEW r \in Requests PROVE RequestInv(r)'
  BY <1>1, RequestStable DEF AuthInv, Tick, control
<1> QED
  BY <1>2, <1>3, <1>4, <1>5 DEF AuthInv

-----------------------------------------------------------------------------
(* The theorems *)

LEMMA InitSound == Init => AuthInv
<1> SUFFICES ASSUME Init PROVE AuthInv
  OBVIOUS
<1>1. PICK pw \in [Accounts -> Passwords] :
        /\ accounts = [a \in Accounts |->
             [hash |-> pw[a], active |-> TRUE, failed |-> 0, lockedUntil |-> NoLock]]
        /\ stored = [a \in Accounts |-> {pw[a]}]
  BY DEF Init
<1>2. now = 0 /\ 0 \in Clock
  BY LimitsAssumption DEF Init, Clock
<1>3. AccountsInv
  BY <1>1, <1>2, LimitsAssumption DEF AccountsInv, SoundRow, Row, NoLock
<1>4. DOMAIN sessions = {}
  BY DEF Init
<1>5. sessions \in [{} -> Session]
  BY DEF Init
<1>6. TypeOK
  BY <1>1, <1>2, <1>4, <1>5 DEF Init, TypeOK, Row, NoLock, Labels
<1>7. \A r \in Requests : RequestInv(r)
  BY DEF Init, RequestInv
<1> QED
  BY <1>3, <1>4, <1>6, <1>7 DEF AuthInv, SessionsInv

LEMMA NextSound == AuthInv /\ [Next]_vars => AuthInv'
<1> SUFFICES ASSUME AuthInv, [Next]_vars PROVE AuthInv'
  OBVIOUS
<1>1. CASE UNCHANGED vars
  BY <1>1, UnchangedSound
<1>2. ASSUME NEW r \in Requests,
             LoginStep(r) \/ ValidateStep(r) \/ UpdateStep(r) \/ DeleteStep(r)
      PROVE  AuthInv'
  BY <1>2, LoginStepSound, ValidateStepSound, UpdateStepSound, DeleteStepSound
<1>3. ASSUME NEW sid \in SessionIds, Logout(sid) PROVE AuthInv'
  BY <1>3, LogoutSound DEF Logout
<1>4. ASSUME NEW u \in Users, InvalidateAllUserSessions(u) PROVE AuthInv'
  BY <1>4, LogoutSound DEF InvalidateAllUserSessions
<1>5. CASE Tick
  BY <1>5, TickSound
<1> QED
  BY <1>1, <1>2, <1>3, <1>4, <1>5 DEF Next

\* The inductive invariant holds at all times.
THEOREM AuthInvHolds == Spec => []AuthInv
  BY InitSound, NextSound, PTL DEF Spec

\* The store and the requests' copies are well formed.
THEOREM AuthTypeCorrect == Spec => []TypeOK
<1>1. AuthInv => TypeOK
  BY DEF AuthInv
<1> QED
  BY <1>1, AuthInvHolds, PTL

\* However the logins on an account interleave, a row is locked exactly when its
\* count has reached the threshold (auth.go, Authenticate).
THEOREM LocksFollowCounts == Spec => []LockFromCount
<1>1. AuthInv => LockFromCount
  BY DEF AuthInv, AccountsInv, SoundRow, LockFromCount
<1> QED
  BY <1>1, AuthInvHolds, PTL

\* No lock written from a stale copy reaches further than one lock period ahead.
THEOREM LocksExpire == Spec => []LockHorizon
<1>1. AuthInv => LockHorizon
  BY DEF AuthInv, AccountsInv, SoundRow, LockHorizon
<1> QED
  BY <1>1, AuthInvHolds, PTL

\* No session is ever opened with a password its account never had.
THEOREM SessionsAreProven == Spec => []SessionProvenance
<1>1. AuthInv => SessionProvenance
  BY DEF AuthInv, SessionsInv, SoundSession, SessionProvenance
<1> QED
  BY <1>1, AuthInvHolds, PTL

\* A deleted user is not resurrected by the write of a request that read it.
THEOREM DeletedUsersStayDeleted == Spec => DeletedStaysDeleted
<1>1. AuthInv /\ [Next]_vars => [DOMAIN accounts' \subseteq DOMAIN accounts]_vars
  <2> SUFFICES ASSUME Next PROVE DOMAIN accounts' \subseteq DOMAIN accounts
    BY DEF vars
  <2>1. ASSUME NEW r \in Requests, LoginStep(r) \/ ValidateStep(r)
        PROVE  DOMAIN accounts' \subseteq DOMAIN accounts
    BY <2>1 DEF LoginStep, LoginUnknown, LoginLocked, LoginDisabled, LoginRead,
       LoginRight, LoginWrong, LoginRejected, CreateSession, Refuse, UpdateRow,
       ValidateStep, ValidateMissing, ValidateExpired, ValidateRead, ValidateTouch,
       store, vars
  <2>2. ASSUME NEW r \in Requests, UpdateStep(r) \/ DeleteStep(r)
        PROVE  DOMAIN accounts' \subseteq DOMAIN accounts
    BY <2>2 DEF UpdateStep, UserMissing, ChangeRefused, ChangeRead, UpdateRead,
       UpdateWrite, ChangeRevoke, DeleteStep, DeleteRead, DeleteWrite, Refuse,
       UpdateRow, Restrict, store, vars
  <2>3. ASSUME NEW sid \in SessionIds, Logout(sid)
        PROVE  DOMAIN accounts' \subseteq DOMAIN accounts
    BY <2>3 DEF Logout
  <2>4. ASSUME NEW u \in Users, InvalidateAllUserSessions(u)
        PROVE  DOMAIN accounts' \subseteq DOMAIN accounts
    BY <2>4 DEF InvalidateAllUserSessions
  <2>5. CASE Tick
    BY <2>5 DEF Tick
  <2> QED
    BY <2>1, <2>2, <2>3, <2>4, <2>5 DEF Next
<1> QED
  BY <1>1, AuthInvHolds, PTL DEF Spec, DeletedStaysDeleted

-----------------------------------------------------------------------------
(* Sessions over time *)

\* What a step can do to a session: nothing, write back the copy of a validation
\* with a new stamp, or open it under an id that was never used.
LEMMA SessionChanges ==
  ASSUME AuthInv, [Next]_vars
  PROVE  /\ now \in Nat /\ now' \in Nat /\ now <= now' /\ issued \subseteq issued'
         /\ \A x \in DOMAIN sessions' :
              \/ x \in DOMAIN sessions /\ sessions'[x] = sessions[x]
              \/ \E r \in Requests :
                   /\ x \in DOMAIN sessions /\ pc[r] = "touch" /\ call[r].sid = x
                   /\ copy[r] \in Session
                   /\ sessions'[x] = [copy[r] EXCEPT !.lastActivity = now]
              \/ \E r \in Requests :
                   /\ x \notin issued /\ pc[r] = "session"
                   /\ sessions'[x] = NewSession(call[r])
<1>1. now \in Nat
  BY LimitsAssumption DEF AuthInv, TypeOK, Clock
<1>2. CASE UNCHANGED <<now, sessions, issued>>
  BY <1>1, <1>2
<1>3. ASSUME NEW S, sessions' = WithoutSessions(S), UNCHANGED <<now, issued>>
      PROVE  /\ now' = now /\ issued' = issued
             /\ \A x \in DOMAIN sessions' : x \in DOMAIN sessions /\ sessions'[x] = sessions[x]
  BY <1>3 DEF WithoutSessions, Restrict
<1>4. ASSUME NEW r \in Requests, CreateSession(r)
      PROVE  /\ now' = now /\ issued \subseteq issued'
             /\ \A x \in DOMAIN sessions' :
                  \/ x \in DOMAIN sessions /\ sessions'[x] = sessions[x]
                  \/ x \notin issued /\ sessions'[x] = NewSession(call[r])
  BY <1>4 DEF CreateSession
<1>5. ASSUME NEW r \in Requests, ValidateTouch(r)
      PROVE  /\ now' = now /\ issued' = issued /\ copy[r] \in Session
             /\ \A x \in DOMAIN sessions' :
                  /\ x \in DOMAIN sessions
                  /\ \/ sessions'[x] = sessions[x]
                     \/ call[r].sid = x /\ sessions'[x] = [copy[r] EXCEPT !.lastActivity = now]
  <2>1. copy[r] \in Session
    BY <1>5 DEF ValidateTouch, AuthInv, RequestInv, SoundSession
  <2> DEFINE y == [copy[r] EXCEPT !.lastActivity = now]
  <2>2. sessions' = IF call[r].sid \in DOMAIN sessions
                    THEN [sessions EXCEPT ![call[r].sid] = y] ELSE sessions
    BY <1>5 DEF ValidateTouch, UpdateSession
  <2> HIDE DEF y
  <2>3. \A x \in DOMAIN sessions' :
          /\ x \in DOMAIN sessions
          /\ sessions'[x] = sessions[x] \/ (call[r].sid = x /\ sessions'[x] = y)
    BY <2>2
  <2> QED
    BY <1>5, <2>1, <2>3 DEF ValidateTouch, y
<1>6. CASE \E r \in Requests : LoginStep(r) /\ ~CreateSession(r)
  BY <1>2, <1>6 DEF LoginStep, LoginUnknown, LoginLocked, LoginDisabled, LoginRead,
     LoginRight, LoginWrong, LoginRejected, Refuse, store, vars
<1>7. CASE \E r \in Requests : ValidateStep(r) /\ ~ValidateTouch(r)
  BY <1>2, <1>7 DEF ValidateStep, ValidateMissing, ValidateExpired, ValidateRead, Refuse,
     store, vars
<1>8. CASE \E r \in Requests : UpdateStep(r) /\ ~ChangeRevoke(r)
  BY <1>2, <1>8 DEF UpdateStep, UserMissing, ChangeRefused, ChangeRead, UpdateRead,
     UpdateWrite, Refuse, store, vars
<1>9. CASE \E r \in Requests : DeleteStep(r)
  BY <1>2, <1>9 DEF DeleteStep, UserMissing, DeleteRead, DeleteWrite, Refuse, store, vars
<1>10. CASE \/ \E r \in Requests : ChangeRevoke(r)
            \/ \E sid \in SessionIds : Logout(sid)
            \/ \E u \in Users : InvalidateAllUserSessions(u)
  <2>1. PICK S : sessions' = WithoutSessions(S) /\ UNCHANGED <<now, issued>>
    BY <1>10 DEF ChangeRevoke, Logout, InvalidateAllUserSessions
  <2> QED
    BY <1>1, <1>3, <2>1
<1>11. CASE Tick
  BY <1>1, <1>11 DEF Tick
<1>12. CASE \E r \in Requests : CreateSession(r)
  <2>1. PICK r \in Requests : CreateSession(r)
    BY <1>12
  <2>2. pc[r] = "session"
    BY <2>1 DEF CreateSession
  <2> QED
    BY <1>1, <1>4, <2>1, <2>2
<1>13. CASE \E r \in Requests : ValidateTouch(r)
  <2>1. PICK r \in Requests : ValidateTouch(r)
    BY <1>13
  <2>2. pc[r] = "touch"
    BY <2>1 DEF ValidateTouch
  <2> QED
    BY <1>1, <1>5, <2>1, <2>2
<1>14. CASE UNCHANGED vars
  BY <1>2, <1>14 DEF vars
<1> QED
  <2>1. CASE \E r \in Requests : LoginStep(r) \/ ValidateStep(r) \/ UpdateStep(r) \/ DeleteStep(r)
    BY <1>6, <1>7, <1>8, <1>9, <1>10, <1>12, <1>13, <2>1
  <2> QED
    BY <1>10, <1>11, <1>14, <2>1 DEF Next

\* However two validations of a session overlap, its last activity never goes
\* back: the store stamps the write inside its lock (memory.go, UpdateSession).
THEOREM ActivityNeverGoesBack == Spec => ActivityMonotonic
<1> DEFINE Past == \A sid \in DOMAIN sessions : sessions[sid].lastActivity <= now
<1>1. Init => Past
  BY DEF Init
<1>2. AuthInv /\ Past /\ [Next]_vars =>
        /\ Past'
        /\ \A sid \in DOMAIN sessions \cap DOMAIN sessions' :
             sessions'[sid].lastActivity >= sessions[sid].lastActivity
  <2> SUFFICES ASSUME AuthInv, Past, [Next]_vars, NEW sid \in DOMAIN sessions'
               PROVE  /\ sessions'[sid].lastActivity <= now'
                      /\ sid \in DOMAIN sessions =>
                           sessions'[sid].lastActivity >= sessions[sid].lastActivity
    OBVIOUS
  <2>1. /\ now \in Nat /\ now' \in Nat /\ now <= now'
        /\ sid \in DOMAIN sessions => sid \in issued
        /\ sid \in DOMAIN sessions =>
             sessions[sid].lastActivity \in Nat /\ sessions[sid].lastActivity <= now
    BY SessionChanges, LimitsAssumption DEF AuthInv, TypeOK, Session, Clock
  <2>2. CASE sid \in DOMAIN sessions /\ sessions'[sid] = sessions[sid]
    BY <2>1, <2>2
  <2>3. ASSUME NEW r \in Requests, copy[r] \in Session,
               sessions'[sid] = [copy[r] EXCEPT !.lastActivity = now]
        PROVE  sessions'[sid].lastActivity = now
    BY <2>3 DEF Session
  <2>4. ASSUME NEW r \in Requests, sessions'[sid] = NewSession(call[r])
        PROVE  sessions'[sid].lastActivity = now
    BY <2>4 DEF NewSession
  <2>5. \/ sid \in DOMAIN sessions /\ sessions'[sid] = sessions[sid]
        \/ sessions'[sid].lastActivity = now
    BY <2>3, <2>4, SessionChanges
  <2> QED
    BY <2>1, <2>2, <2>5
<1>3. AuthInv /\ Past /\ [Next]_vars =>
        [\A sid \in DOMAIN sessions \cap DOMAIN sessions' :
           sessions'[sid].lastActivity >= sessions[sid].lastActivity]_vars
  BY <1>2
<1> QED
  BY <1>1, <1>2, <1>3, AuthInvHolds, PTL DEF Spec, ActivityMonotonic

\* The session store implements SessionLifecycle: a validation that overlaps a
\* logout never brings the session back.
THEOREM ImplementsSessionLifecycle == Spec => SessionsOnlyIssuedOnce
<1>1. Init => Lifecycle!Init
  BY DEF Init, Lifecycle!Init
<1>2. AuthInv /\ [Next]_vars => [Lifecycle!Next]_<<issued, DOMAIN sessions>>
  <2> SUFFICES ASSUME AuthInv, Next, <<issued, DOMAIN sessions>>' # <<issued, DOMAIN sessions>>
               PROVE  Lifecycle!Next
    BY DEF vars
  <2>1. ASSUME NEW S, sessions' = WithoutSessions(S), issued' = issued
        PROVE  Lifecycle!Next
    <3>1. DOMAIN sessions' = DOMAIN sessions \ (S \cap DOMAIN sessions)
      BY <2>1 DEF WithoutSessions, Restrict
    <3>2. Lifecycle!Revoke(S \cap DOMAIN sessions)
      BY <2>1, <3>1 DEF Lifecycle!Revoke
    <3> QED
      BY <3>2 DEF Lifecycle!Next
  <2>2. ASSUME NEW r \in Requests, LoginStep(r) PROVE Lifecycle!Next
    <3>1. CreateSession(r)
      BY <2>2 DEF LoginStep, LoginUnknown, LoginLocked, LoginDisabled, LoginRead,
         LoginRight, LoginWrong, LoginRejected, Refuse, store, vars
    <3>2. PICK sid \in SessionIds \ issued :
            /\ DOMAIN sessions' = DOMAIN sessions \cup {sid}
            /\ issued' = issued \cup {sid}
      BY <3>1 DEF CreateSession
    <3> QED
      BY <3>2 DEF Lifecycle!Next, Lifecycle!Issue
  <2>3. ASSUME NEW r \in Requests, ValidateStep(r) PROVE FALSE
    BY <2>3 DEF ValidateStep, ValidateMissing, ValidateExpired, ValidateRead,
       ValidateTouch, UpdateSession, Refuse, store, vars
  <2>4. ASSUME NEW r \in Requests, UpdateStep(r) PROVE Lifecycle!Next
    BY <2>1, <2>4 DEF UpdateStep, UserMissing, ChangeRefused, ChangeRead, UpdateRead,
       UpdateWrite, ChangeRevoke, Refuse, store, vars
  <2>5. ASSUME NEW r \in Requests, DeleteStep(r) PROVE FALSE
    BY <2>5 DEF DeleteStep, UserMissing, DeleteRead, DeleteWrite, Refuse, store, vars
  <2>6. ASSUME NEW sid \in SessionIds, Logout(sid) PROVE Lifecycle!Next
    BY <2>1, <2>6 DEF Logout
  <2>7. ASSUME NEW u \in Users, InvalidateAllUserSessions(u) PROVE Lifecycle!Next
    BY <2>1, <2>7 DEF InvalidateAllUserSessions
  <2>8. CASE Tick
    BY <2>8 DEF Tick
  <2> QED
    BY <2>2, <2>3, <2>4, <2>5, <2>6, <2>7, <2>8 DEF Next
<1> QED
  BY <1>1, <1>2, AuthInvHolds, PTL DEF Spec, SessionsOnlyIssuedOnce, Lifecycle!Spec
=============================================================================
