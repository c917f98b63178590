-------------------------- MODULE AuthHistoryProofs --------------------------
(***************************************************************************)
(* What the account service would keep if no two requests about one        *)
(* account overlapped (SerialSpec), for every population, any number of    *)
(* requests, and validations and logouts that overlap anything: failed     *)
(* guesses lock an account, a change of password or of the active flag     *)
(* sticks, the right password is admitted, after a change of password no   *)
(* session opened with another one is left, and the rows of the accounts   *)
(* implement AccountStore.                                                 *)
(*                                                                         *)
(* The argument is SerialInv: what a request has read of its account is    *)
(* still true when it writes.  That is the one thing overlapping requests  *)
(* take from the code, so the lost updates of this service are races       *)
(* between two requests about the same account and nothing else.           *)
(***************************************************************************)
EXTENDS AuthHistory, AuthServiceProofs

-----------------------------------------------------------------------------
(* Requests about one account *)

\* A request at one of these labels is about an account.
LEMMA AboutAccount ==
  ASSUME NEW r \in Requests, RequestInv(r), UpToDate(r),
         pc[r] \in {"verify", "session", "write", "revoke", "remove", "rejected"}
  PROVE  OnAccount(r) /\ call[r].account \in Accounts
<1>1. call[r] \in LoginCalls \cup ChangeCalls \cup ResetCalls \cup ActiveCalls
                  \cup ProfileCalls \cup DeleteCalls
  BY DEF RequestInv, UpToDate
<1>2. call[r].op # "validate"
  BY <1>1 DEF LoginCalls, ChangeCalls, ResetCalls, ActiveCalls, ProfileCalls, DeleteCalls
<1> QED
  BY <1>1, <1>2, CallAccount DEF OnAccount

\* What the others know stays true when r, which is about an account, writes or
\* deletes that account's row.
LEMMA OthersUpToDate ==
  ASSUME OneAtATime, \A q \in Requests : RequestInv(q) /\ UpToDate(q),
         NEW r \in Requests, OnAccount(r), OnlyMoves(r),
         \A b \in DOMAIN accounts' :
           b \in DOMAIN accounts /\ (b # call[r].account => accounts'[b] = accounts[b])
  PROVE  \A q \in Requests \ {r} : UpToDate(q)'
<1> SUFFICES ASSUME NEW q \in Requests \ {r} PROVE UpToDate(q)'
  OBVIOUS
<1>1. UNCHANGED <<pc[q], call[q], copy[q]>> /\ UpToDate(q) /\ RequestInv(q)
  BY DEF OnlyMoves
<1>2. CASE pc[q] \in {"verify", "session", "write", "rejected"}
  <2>1. OnAccount(q)
    BY <1>1, <1>2, AboutAccount
  <2>2. call[q].account # call[r].account
    BY <2>1 DEF OneAtATime
  <2> QED
    BY <1>1, <2>2 DEF UpToDate, Exists
<1>3. CASE pc[q] \notin {"verify", "session", "write", "rejected"}
  BY <1>1, <1>3 DEF UpToDate
<1> QED
  BY <1>2, <1>3

\* ... and when no row changes.
LEMMA OthersUntouched ==
  ASSUME \A q \in Requests : UpToDate(q), NEW r \in Requests, OnlyMoves(r),
         UNCHANGED accounts
  PROVE  \A q \in Requests \ {r} : UpToDate(q)'
  BY DEF UpToDate, OnlyMoves, Exists

-----------------------------------------------------------------------------
(* The observer *)

Observed == ObserveIntent /\ ObserveGuesses

\* A step in which no request leaves "verify" or "write" tells it nothing.
LEMMA NothingToObserve ==
  ASSUME HTypeOK, Observed,
         \A q \in Requests : pc[q] \in {"verify", "write"} => pc'[q] = pc[q]
  PROVE  UNCHANGED <<intent, wrong>>
<1>1. \A q \in Requests, u \in Users : ~Writes(q, u)
  BY DEF Writes
<1>2. \A a \in Accounts : ~Verified(a, "session") /\ ~Verified(a, "rejected")
  BY DEF Verified
<1>3. intent' = [u \in Users |-> [hash |-> intent[u].hash, active |-> intent[u].active]]
  BY <1>1 DEF Observed, ObserveIntent
<1>4. \A u \in Users : intent[u] = [hash |-> intent[u].hash, active |-> intent[u].active]
  BY DEF HTypeOK
<1>5. intent' = [u \in Users |-> intent[u]] /\ intent = [u \in Users |-> intent[u]]
  BY <1>3, <1>4 DEF HTypeOK
<1>6. wrong' = [a \in Accounts |-> wrong[a]] /\ wrong = [a \in Accounts |-> wrong[a]]
  BY <1>2 DEF Observed, ObserveGuesses, HTypeOK
<1> QED
  BY <1>5, <1>6

\* The one request that moves is a login that has checked its password.
LEMMA GuessObserved ==
  ASSUME HTypeOK, Observed, NEW r \in Requests, OnlyMoves(r), pc[r] = "verify",
         pc'[r] \in {"session", "rejected"}
  PROVE  /\ intent' = intent
         /\ wrong' \in [Accounts -> 0 .. MaxFailed]
         /\ \A a \in Accounts :
              wrong'[a] = IF a # call[r].account THEN wrong[a]
                          ELSE IF pc'[r] = "session" THEN 0
                          ELSE IF wrong[a] < MaxFailed THEN wrong[a] + 1 ELSE wrong[a]
<1>1. \A q \in Requests, u \in Users : ~Writes(q, u)
  BY DEF Writes, OnlyMoves
<1>2. intent' = [u \in Users |-> [hash |-> intent[u].hash, active |-> intent[u].active]]
  BY <1>1 DEF Observed, ObserveIntent
<1>3. \A u \in Users : intent[u] = [hash |-> intent[u].hash, active |-> intent[u].active]
  BY DEF HTypeOK
<1>4. intent' = intent
  BY <1>2, <1>3 DEF HTypeOK
<1>5. ASSUME NEW a \in Accounts, NEW l \in {"session", "rejected"}
      PROVE  Verified(a, l) <=> pc'[r] = l /\ call[r].account = a
  BY DEF Verified, OnlyMoves
<1>6. \A a \in Accounts :
        wrong'[a] = IF a # call[r].account THEN wrong[a]
                    ELSE IF pc'[r] = "session" THEN 0
                    ELSE IF wrong[a] < MaxFailed THEN wrong[a] + 1 ELSE wrong[a]
  BY <1>5 DEF Observed, ObserveGuesses
<1>7. \A a \in Accounts : wrong'[a] \in 0 .. MaxFailed
  BY <1>6, LimitsAssumption DEF HTypeOK
<1>8. wrong' = [a \in Accounts |-> wrong'[a]]
  BY DEF Observed, ObserveGuesses
<1>9. wrong' \in [Accounts -> 0 .. MaxFailed]
  BY <1>7, <1>8
<1> QED
  BY <1>4, <1>6, <1>9

\* The one request that moves completes an update.
LEMMA WriteObserved ==
  ASSUME HTypeOK, Observed, NEW r \in Requests, OnlyMoves(r), pc[r] = "write",
         pc'[r] # "write"
  PROVE  /\ wrong' = wrong
         /\ intent' = [u \in Users |->
              IF u = call[r].account /\ Exists(u)
              THEN [hash   |-> IF call[r].op \in {"change", "reset"}
                               THEN call[r].new ELSE intent[u].hash,
                    active |-> IF call[r].op = "setActive"
                               THEN call[r].active ELSE intent[u].active]
              ELSE intent[u]]
<1>1. \A a \in Accounts : ~Verified(a, "session") /\ ~Verified(a, "rejected")
  BY DEF Verified, OnlyMoves
<1>2. wrong' = [a \in Accounts |-> wrong[a]] /\ wrong = [a \in Accounts |-> wrong[a]]
  BY <1>1 DEF Observed, ObserveGuesses, HTypeOK
<1>3. ASSUME NEW u \in Users, NEW q \in Requests
      PROVE  Writes(q, u) <=> q = r /\ u = call[r].account /\ Exists(u)
  BY DEF Writes, OnlyMoves
<1>4. ASSUME NEW u \in Users
      PROVE  intent'[u] = IF u = call[r].account /\ Exists(u)
              THEN [hash   |-> IF call[r].op \in {"change", "reset"}
                               THEN call[r].new ELSE intent[u].hash,
                    active |-> IF call[r].op = "setActive"
                               THEN call[r].active ELSE intent[u].active]
              ELSE intent[u]
  <2>1. CASE u = call[r].account /\ Exists(u)
    <3>1. Writes(r, u) /\ (CHOOSE q \in Requests : Writes(q, u)) = r
      BY <1>3, <2>1
    <3>2. \A q \in Requests : Writes(q, u) => q = r
      BY <1>3
    <3> QED
      BY <2>1, <3>1, <3>2 DEF Observed, ObserveIntent
  <2>2. CASE ~(u = call[r].account /\ Exists(u))
    <3>1. \A q \in Requests : ~Writes(q, u)
      BY <1>3, <2>2
    <3>2. intent'[u] = [hash |-> intent[u].hash, active |-> intent[u].active]
      BY <3>1 DEF Observed, ObserveIntent
    <3>3. intent[u] = [hash |-> intent[u].hash, active |-> intent[u].active]
      BY DEF HTypeOK
    <3> QED
      BY <2>2, <3>2, <3>3
  <2> QED
    BY <2>1, <2>2
<1>5. intent' = [u \in Users |-> intent'[u]]
  BY DEF Observed, ObserveIntent
<1> QED
  BY <1>2, <1>4, <1>5

-----------------------------------------------------------------------------
(* What is written *)

LEMMA AfterRightFields ==
  ASSUME NEW row \in Row
  PROVE  /\ AfterRight(row).hash = row.hash /\ AfterRight(row).active = row.active
         /\ AfterRight(row).failed = 0
  BY DEF AfterRight, Row

LEMMA AfterWrongFields ==
  ASSUME NEW row \in Row
  PROVE  /\ AfterWrong(row).hash = row.hash /\ AfterWrong(row).active = row.active
         /\ AfterWrong(row).failed = row.failed + 1
  BY DEF AfterWrong, Row

Updates == ChangeCalls \cup ResetCalls \cup ActiveCalls \cup ProfileCalls

LEMMA EditedFields ==
  ASSUME NEW c \in Updates, NEW row \in Row
  PROVE  /\ Edited(c, row).hash = IF c.op \in {"change", "reset"} THEN c.new ELSE row.hash
         /\ Edited(c, row).active = IF c.op = "setActive" THEN c.active ELSE row.active
         /\ Edited(c, row).failed = row.failed
<1>1. CASE c \in ChangeCalls \cup ResetCalls
  <2>1. c.op \in {"change", "reset"}
    BY <1>1 DEF ChangeCalls, ResetCalls
  <2>2. Edited(c, row) = [row EXCEPT !.hash = c.new]
    BY <2>1 DEF Edited
  <2> QED
    BY <2>1, <2>2 DEF Row
<1>2. CASE c \in ActiveCalls
  <2>1. c.op = "setActive"
    BY <1>2 DEF ActiveCalls
  <2>2. Edited(c, row) = [row EXCEPT !.active = c.active]
    BY <2>1 DEF Edited
  <2> QED
    BY <2>1, <2>2 DEF Row
<1>3. CASE c \in ProfileCalls
  <2>1. c.op = "profile"
    BY <1>3 DEF ProfileCalls
  <2> QED
    BY <2>1 DEF Edited
<1> QED
  BY <1>1, <1>2, <1>3 DEF Updates

\* The store after a row was written.
LEMMA RowWritten ==
  ASSUME TypeOK, NEW a, NEW row, accounts' = UpdateRow(a, row)
  PROVE  /\ DOMAIN accounts' = DOMAIN accounts
         /\ \A b \in DOMAIN accounts :
              accounts'[b] = IF b = a THEN row ELSE accounts[b]
  BY DEF UpdateRow, Exists, TypeOK

-----------------------------------------------------------------------------
(* The steps *)

\* A step of r that neither writes a row nor completes a check of a password.
LEMMA QuietStep ==
  ASSUME SerialInv, Observed, OneAtATime', NEW r \in Requests, OnlyMoves(r),
         UNCHANGED accounts, pc[r] \notin {"verify", "write"}, UpToDate(r)'
  PROVE  SerialInv'
<1>1. UNCHANGED <<intent, wrong>>
  BY NothingToObserve DEF SerialInv, OnlyMoves
<1>2. \A q \in Requests : UpToDate(q)'
  BY OthersUntouched DEF SerialInv
<1> QED
  BY <1>1, <1>2 DEF SerialInv, HTypeOK, GuessesCounted, PasswordChangeSticks, ActiveFlagSticks

\* A step of no request, or of one that is refused.
LEMMA OutsideStep ==
  ASSUME SerialInv, Observed, UNCHANGED <<accounts, control>>
  PROVE  SerialInv'
<1>1. UNCHANGED <<intent, wrong>>
  BY NothingToObserve DEF SerialInv, control
<1> QED
  BY <1>1 DEF SerialInv, HTypeOK, OneAtATime, OnAccount, UpToDate, Exists, GuessesCounted,
     PasswordChangeSticks, ActiveFlagSticks, control

\* A login writes what its guess makes of the row it has read: nobody has
\* written that row since.
LEMMA GuessStep ==
  ASSUME AuthInv, SerialInv, Observed, OneAtATime', NEW r \in Requests,
         LoginRight(r) \/ LoginWrong(r)
  PROVE  SerialInv'
<1> DEFINE a == call[r].account
           row == IF LoginRight(r) THEN AfterRight(copy[r]) ELSE AfterWrong(copy[r])
<1>1. /\ TypeOK /\ RequestInv(r) /\ UpToDate(r) /\ pc[r] = "verify"
      /\ OnAccount(r) /\ a \in Accounts /\ call[r] \in LoginCalls /\ copy[r] \in Row
  BY AboutAccount DEF AuthInv, SerialInv, LoginRight, LoginWrong, RequestInv, Holds, SoundRow
<1>2. /\ ~(LoginRight(r) /\ LoginWrong(r))
      /\ LoginRight(r) <=> call[r].pw = copy[r].hash
      /\ accounts' = UpdateRow(a, row)
      /\ LoginRight(r) => Proceed(r, "session")
      /\ LoginWrong(r) => Proceed(r, "rejected")
  BY DEF LoginRight, LoginWrong, VerifyPassword
<1>3. /\ OnlyMoves(r) /\ call'[r] = call[r]
      /\ pc'[r] = IF LoginRight(r) THEN "session" ELSE "rejected"
  BY <1>1, <1>2, ProceedStep DEF Labels
<1>4. /\ row.hash = copy[r].hash /\ row.active = copy[r].active
      /\ row.failed = IF LoginRight(r) THEN 0 ELSE copy[r].failed + 1
  BY <1>1, AfterRightFields, AfterWrongFields
<1> HIDE DEF row
<1>5. /\ DOMAIN accounts' = DOMAIN accounts
      /\ \A b \in DOMAIN accounts : accounts'[b] = IF b = a THEN row ELSE accounts[b]
  BY <1>1, <1>2, RowWritten
<1>6. a \in DOMAIN accounts => copy[r] = accounts[a]
  BY <1>1 DEF UpToDate, Exists
<1>7. /\ intent' = intent
      /\ wrong' \in [Accounts -> 0 .. MaxFailed]
      /\ \A b \in Accounts :
           wrong'[b] = IF b # a THEN wrong[b]
                       ELSE IF LoginRight(r) THEN 0
                       ELSE IF wrong[b] < MaxFailed THEN wrong[b] + 1 ELSE wrong[b]
  BY <1>1, <1>3, GuessObserved DEF SerialInv
<1>8. \A q \in Requests : UpToDate(q)'
  <2>1. UpToDate(r)'
    BY <1>1, <1>2, <1>3, <1>4, <1>5 DEF UpToDate, Exists
  <2> QED
    BY <1>1, <1>3, <1>5, <2>1, OthersUpToDate DEF AuthInv, SerialInv
<1>9. GuessesCounted'
  <2> SUFFICES ASSUME NEW b \in DOMAIN accounts PROVE wrong'[b] <= accounts'[b].failed
    BY <1>5 DEF GuessesCounted
  <2>1. b \in Accounts /\ wrong[b] \in Nat /\ accounts[b].failed \in Nat
    BY <1>1, LimitsAssumption DEF TypeOK, SerialInv, HTypeOK, Row
  <2>2. wrong[b] <= accounts[b].failed
    BY DEF SerialInv, GuessesCounted
  <2> QED
    BY <1>4, <1>5, <1>6, <1>7, <2>1, <2>2
<1>10. PasswordChangeSticks' /\ ActiveFlagSticks'
  BY <1>4, <1>5, <1>6, <1>7 DEF SerialInv, PasswordChangeSticks, ActiveFlagSticks
<1> QED
  BY <1>7, <1>8, <1>9, <1>10 DEF SerialInv, HTypeOK

\* An update writes back the row it has read, with the field it is about changed.
LEMMA UpdateWriteStep ==
  ASSUME AuthInv, SerialInv, Observed, OneAtATime', NEW r \in Requests, UpdateWrite(r)
  PROVE  SerialInv'
<1> DEFINE c == call[r]
           row == Edited(c, copy[r])
<1>1. /\ TypeOK /\ RequestInv(r) /\ UpToDate(r) /\ pc[r] = "write"
      /\ OnAccount(r) /\ c.account \in Accounts /\ c \in Updates /\ copy[r] \in Row
  BY AboutAccount
     DEF AuthInv, SerialInv, UpdateWrite, RequestInv, Holds, SoundRow, Updates
<1>2. /\ accounts' = UpdateRow(c.account, row)
      /\ Proceed(r, "revoke") \/ Return(r)
  BY DEF UpdateWrite
<1>3. OnlyMoves(r) /\ pc'[r] \in {"revoke", "idle"}
  BY <1>1, <1>2, ProceedStep, ReturnStep DEF Labels
<1>4. /\ row.hash = IF c.op \in {"change", "reset"} THEN c.new ELSE copy[r].hash
      /\ row.active = IF c.op = "setActive" THEN c.active ELSE copy[r].active
      /\ row.failed = copy[r].failed
  BY <1>1, EditedFields
<1> HIDE DEF row
<1>5. /\ DOMAIN accounts' = DOMAIN accounts
      /\ \A b \in DOMAIN accounts :
           accounts'[b] = IF b = c.account THEN row ELSE accounts[b]
  BY <1>1, <1>2, RowWritten
<1>6. c.account \in DOMAIN accounts => copy[r] = accounts[c.account]
  BY <1>1 DEF UpToDate, Exists
<1>7. /\ wrong' = wrong
      /\ intent' = [u \in Users |->
           IF u = c.account /\ Exists(u)
           THEN [hash   |-> IF c.op \in {"change", "reset"} THEN c.new ELSE intent[u].hash,
                 active |-> IF c.op = "setActive" THEN c.active ELSE intent[u].active]
           ELSE intent[u]]
  BY <1>1, <1>3, WriteObserved DEF SerialInv
<1>8. \A q \in Requests : UpToDate(q)'
  <2>1. UpToDate(r)'
    BY <1>3 DEF UpToDate
  <2> QED
    BY <1>1, <1>3, <1>5, <2>1, OthersUpToDate DEF AuthInv, SerialInv
<1>9. HTypeOK'
  <2>1. /\ c.op \in {"change", "reset"} => c.new \in Passwords
        /\ c.op = "setActive" => c.active \in BOOLEAN
    BY <1>1 DEF Updates, ChangeCalls, ResetCalls, ActiveCalls, ProfileCalls
  <2>2. intent \in [Users -> [hash : Passwords, active : BOOLEAN]]
    BY DEF SerialInv, HTypeOK
  <2>3. intent' \in [Users -> [hash : Passwords, active : BOOLEAN]]
    BY <1>7, <2>1, <2>2
  <2> QED
    BY <1>7, <2>3 DEF SerialInv, HTypeOK
<1>10. GuessesCounted'
  BY <1>4, <1>5, <1>6, <1>7 DEF SerialInv, GuessesCounted
<1>11. PasswordChangeSticks' /\ ActiveFlagSticks'
  <2> SUFFICES ASSUME NEW u \in Users, u \in DOMAIN accounts
               PROVE  /\ accounts'[u].hash = intent'[u].hash
                      /\ accounts'[u].active = intent'[u].active
    BY <1>5 DEF PasswordChangeSticks, ActiveFlagSticks
  <2>1. accounts[u].hash = intent[u].hash /\ accounts[u].active = intent[u].active
    BY DEF SerialInv, PasswordChangeSticks, ActiveFlagSticks
  <2>2. CASE u = c.account
    <3>1. /\ intent'[u].hash = IF c.op \in {"change", "reset"} THEN c.new ELSE intent[u].hash
          /\ intent'[u].active = IF c.op = "setActive" THEN c.active ELSE intent[u].active
      BY <1>7, <2>2 DEF Exists
    <3> QED
      BY <1>4, <1>5, <1>6, <2>1, <2>2, <3>1
  <2>3. CASE u # c.account
    BY <1>5, <1>7, <2>1, <2>3
  <2> QED
    BY <2>2, <2>3
<1> QED
  BY <1>8, <1>9, <1>10, <1>11 DEF SerialInv

LEMMA DeleteWriteStep ==
  ASSUME AuthInv, SerialInv, Observed, OneAtATime', NEW r \in Requests, DeleteWrite(r)
  PROVE  SerialInv'
<1>1. TypeOK /\ OnAccount(r) /\ pc[r] = "remove"
  BY AboutAccount DEF AuthInv, SerialInv, DeleteWrite
<1>2. OnlyMoves(r) /\ pc'[r] = "idle"
  BY <1>1, ReturnStep DEF DeleteWrite
<1>3. accounts' = [b \in DOMAIN accounts \ {call[r].account} |-> accounts[b]]
  BY DEF DeleteWrite, Restrict
<1>4. \A b \in DOMAIN accounts' : b \in DOMAIN accounts /\ accounts'[b] = accounts[b]
  BY <1>3
<1>5. UNCHANGED <<intent, wrong>>
  BY <1>1, <1>2, NothingToObserve DEF SerialInv, OnlyMoves
<1>6. \A q \in Requests : UpToDate(q)'
  <2>1. UpToDate(r)'
    BY <1>2 DEF UpToDate
  <2> QED
    BY <1>1, <1>2, <1>4, <2>1, OthersUpToDate DEF AuthInv, SerialInv
<1> QED
  BY <1>4, <1>5, <1>6
     DEF SerialInv, HTypeOK, GuessesCounted, PasswordChangeSticks, ActiveFlagSticks

\* The first store call of a request: what it has read is the row as it is.
LEMMA BeginUpToDate ==
  ASSUME AuthInv, SerialInv, Observed, OneAtATime', NEW r \in Requests, NEW c \in Calls,
         NEW l \in Labels, NEW x \in Row \cup Session \cup {NoCopy},
         Begin(r, c, l, x), UNCHANGED accounts,
         l \in {"verify", "write"} /\ Exists(c.account) => x = accounts[c.account],
         l # "session",
         l = "rejected" => c \in LoginCalls /\ ~(c.kind = "name" /\ Exists(c.account))
  PROVE  SerialInv'
<1>1. /\ OnlyMoves(r) /\ pc'[r] = l /\ call'[r] = c /\ copy'[r] = x
      /\ pc[r] = "idle"
  BY BeginStep DEF AuthInv, Begin
<1>2. UpToDate(r)'
  BY <1>1 DEF UpToDate, Exists
<1> QED
  BY <1>1, <1>2, QuietStep

LEMMA FirstCallStep ==
  ASSUME AuthInv, SerialInv, Observed, OneAtATime', NEW r \in Requests, NEW c \in Calls,
         \/ c \in LoginCalls /\ (LoginUnknown(r, c) \/ LoginRead(r, c))
         \/ c \in ValidateCalls /\ ValidateRead(r, c)
         \/ c \in Updates /\ (ChangeRead(r, c) \/ UpdateRead(r, c))
         \/ c \in DeleteCalls /\ DeleteRead(r, c)
  PROVE  SerialInv'
<1>1. TypeOK
  BY DEF AuthInv
<1>2. CASE c \in LoginCalls /\ LoginUnknown(r, c)
  <2>1. /\ Begin(r, c, "rejected", NoCopy) /\ accounts' = accounts
        /\ ~(c.kind = "name" /\ Exists(c.account))
    BY <1>2 DEF LoginUnknown, LooksUp, store
  <2> QED
    BY <1>2, <2>1, BeginUpToDate DEF Labels
<1>3. CASE c \in ValidateCalls /\ ValidateRead(r, c)
  <2> DEFINE x == [sessions[c.sid] EXCEPT !.lastActivity = now]
  <2>1. sessions[c.sid] \in Session /\ now \in Clock
    BY <1>1, <1>3 DEF ValidateRead, TypeOK
  <2>2. x \in Session /\ Begin(r, c, "touch", x) /\ accounts' = accounts
    BY <1>3, <2>1 DEF ValidateRead, Session, store
  <2> HIDE DEF x
  <2> QED
    BY <2>2, BeginUpToDate DEF Labels
<1>4. CASE /\ c \in LoginCalls \cup Updates \cup DeleteCalls
           /\ LoginRead(r, c) \/ ChangeRead(r, c) \/ UpdateRead(r, c) \/ DeleteRead(r, c)
  <2>1. c.account \in DOMAIN accounts
    BY <1>4 DEF LoginRead, LooksUp, ChangeRead, UpdateRead, DeleteRead, Exists
  <2>2. accounts[c.account] \in Row
    BY <1>1, <2>1 DEF TypeOK
  <2>3. PICK l \in {"verify", "write", "remove"} :
          Begin(r, c, l, accounts[c.account]) /\ accounts' = accounts
    BY <1>4 DEF LoginRead, ChangeRead, UpdateRead, DeleteRead, store
  <2> QED
    BY <2>2, <2>3, BeginUpToDate DEF Labels
<1> QED
  BY <1>2, <1>3, <1>4

\* The last call of a request that is not an update.
LEMMA LastCallStep ==
  ASSUME AuthInv, SerialInv, Observed, OneAtATime', NEW r \in Requests,
         \/ LoginRejected(r) \/ CreateSession(r) \/ ValidateTouch(r) \/ ChangeRevoke(r)
  PROVE  SerialInv'
<1>1. Return(r) /\ accounts' = accounts /\ pc[r] \notin {"verify", "write"}
  BY DEF LoginRejected, CreateSession, ValidateTouch, ChangeRevoke, store
<1>2. OnlyMoves(r) /\ pc'[r] = "idle"
  BY <1>1, ReturnStep DEF AuthInv
<1>3. UpToDate(r)'
  BY <1>2 DEF UpToDate
<1> QED
  BY <1>1, <1>2, <1>3, QuietStep

LEMMA SerialInitial == HInit => SerialInv
<1> SUFFICES ASSUME HInit PROVE SerialInv
  OBVIOUS
<1>1. PICK pw \in [Accounts -> Passwords] :
        accounts = [a \in Accounts |->
          [hash |-> pw[a], active |-> TRUE, failed |-> 0, lockedUntil |-> NoLock]]
  BY DEF HInit, Init
<1>2. Users \subseteq Accounts /\ 0 \in 0 .. MaxFailed
  BY LimitsAssumption DEF Accounts
<1>3. HTypeOK
  BY <1>1, <1>2 DEF HInit, HTypeOK
<1>4. OneAtATime /\ \A r \in Requests : UpToDate(r)
  BY DEF HInit, Init, OneAtATime, OnAccount, UpToDate
<1>5. GuessesCounted
  BY <1>1 DEF HInit, GuessesCounted
<1>6. PasswordChangeSticks /\ ActiveFlagSticks
  BY <1>1, <1>2 DEF HInit, PasswordChangeSticks, ActiveFlagSticks
<1> QED
  BY <1>3, <1>4, <1>5, <1>6 DEF SerialInv

LEMMA SerialStep == AuthInv /\ SerialInv /\ [SerialNext]_hvars => SerialInv'
<1> SUFFICES ASSUME AuthInv, SerialInv, [SerialNext]_hvars PROVE SerialInv'
  OBVIOUS
<1>1. CASE UNCHANGED hvars
  BY <1>1 DEF SerialInv, HTypeOK, OneAtATime, OnAccount, UpToDate, Exists, GuessesCounted,
     PasswordChangeSticks, ActiveFlagSticks, hvars, vars
<1>2. CASE SerialNext
  <2>0. Observed /\ OneAtATime' /\ Next
    BY <1>2 DEF SerialNext, HNext, Observed
  <2>1. CASE UNCHANGED <<accounts, control>>
    BY <2>0, <2>1, OutsideStep
  <2>2. ASSUME NEW r \in Requests, NEW c, Refuse(r, c) PROVE SerialInv'
    BY <2>1, <2>2 DEF Refuse, vars, control
  <2>3. ASSUME NEW r \in Requests, LoginStep(r) PROVE SerialInv'
    <3>1. ASSUME NEW c \in LoginCalls,
                 \/ LoginUnknown(r, c) \/ LoginLocked(r, c)
                 \/ LoginDisabled(r, c) \/ LoginRead(r, c)
          PROVE  SerialInv'
      BY <2>0, <2>2, <3>1, CallAccount, FirstCallStep DEF LoginLocked, LoginDisabled
    <3> QED
      BY <2>0, <2>3, <3>1, GuessStep, LastCallStep DEF LoginStep
  <2>4. ASSUME NEW r \in Requests, ValidateStep(r) PROVE SerialInv'
    <3>1. ASSUME NEW c \in ValidateCalls,
                 ValidateMissing(r, c) \/ ValidateExpired(r, c) \/ ValidateRead(r, c)
          PROVE  SerialInv'
      <4>1. c \in Calls
        BY DEF Calls
      <4> QED
        BY <2>0, <2>2, <3>1, <4>1, FirstCallStep DEF ValidateMissing, ValidateExpired
    <3> QED
      BY <2>0, <2>4, <3>1, LastCallStep DEF ValidateStep
  <2>5. ASSUME NEW r \in Requests, UpdateStep(r) PROVE SerialInv'
    <3>1. ASSUME NEW c \in Updates,
                 \/ UserMissing(r, c) \/ ChangeRefused(r, c)
                 \/ ChangeRead(r, c) \/ UpdateRead(r, c)
          PROVE  SerialInv'
      <4>1. c \in Calls
        BY CallAccount DEF Updates
      <4> QED
        BY <2>0, <2>2, <3>1, <4>1, FirstCallStep DEF UserMissing, ChangeRefused
    <3> QED
      BY <2>0, <2>5, <3>1, UpdateWriteStep, LastCallStep DEF UpdateStep, Updates
  <2>6. ASSUME NEW r \in Requests, DeleteStep(r) PROVE SerialInv'
    <3>1. ASSUME NEW c \in DeleteCalls, UserMissing(r, c) \/ DeleteRead(r, c)
          PROVE  SerialInv'
      BY <2>0, <2>2, <3>1, CallAccount, FirstCallStep DEF UserMissing
    <3> QED
      BY <2>0, <2>6, <3>1, DeleteWriteStep DEF DeleteStep
  <2>7. CASE \/ \E sid \in SessionIds : Logout(sid)
             \/ \E u \in Users : InvalidateAllUserSessions(u)
             \/ Tick
    BY <2>1, <2>7 DEF Logout, InvalidateAllUserSessions, Tick, control
  <2> QED
    BY <2>0, <2>3, <2>4, <2>5, <2>6, <2>7 DEF Next
<1> QED
  BY <1>1, <1>2

-----------------------------------------------------------------------------
(* The theorems *)

\* SerialSpec only takes behaviours away from Spec.
LEMMA SerialStepIsStep == [SerialNext]_hvars => [Next]_vars
  BY DEF SerialNext, HNext, hvars

LEMMA SerialRefinesSpec == SerialSpec => Spec
<1>1. HInit => Init
  BY DEF HInit
<1> QED
  BY <1>1, SerialStepIsStep, PTL DEF SerialSpec, Spec

\* As long as requests about an account do not overlap, what a request has read
\* of it is still true when the request writes.
THEOREM SerialInvHolds == SerialSpec => [](AuthInv /\ SerialInv)
<1>1. SerialSpec => []AuthInv
  BY SerialRefinesSpec, AuthInvHolds, PTL
<1> QED
  BY <1>1, SerialInitial, SerialStep, PTL DEF SerialSpec

\* Five wrong guesses since the last right one lock an account (auth.go,
\* Authenticate): overlapping guesses are the only way to have more.
THEOREM FailedAttemptsDoLock == SerialSpec => []FailedAttemptsLock
<1>1. AuthInv /\ SerialInv => FailedAttemptsLock
  <2> SUFFICES ASSUME AuthInv, SerialInv, NEW a \in DOMAIN accounts, wrong[a] >= MaxFailed
               PROVE  accounts[a].lockedUntil # NoLock
    BY DEF FailedAttemptsLock
  <2>1. a \in Accounts /\ wrong[a] \in Nat /\ wrong[a] <= accounts[a].failed
    BY LimitsAssumption DEF AuthInv, TypeOK, SerialInv, HTypeOK, GuessesCounted
  <2>2. SoundRow(accounts[a], now, stored[a])
    BY DEF AuthInv, AccountsInv
  <2> QED
    BY <2>1, <2>2, LimitsAssumption DEF SoundRow, Row
<1> QED
  BY <1>1, SerialInvHolds, PTL

\* A completed change of password is not undone (auth.go, ChangePassword; user.go,
\* UpdatePassword).
THEOREM PasswordChangesStick == SerialSpec => []PasswordChangeSticks
<1>1. SerialInv => PasswordChangeSticks
  BY DEF SerialInv
<1> QED
  BY <1>1, SerialInvHolds, PTL

\* A disabled account stays disabled until it is enabled (user.go, SetUserActive).
THEOREM ActiveFlagsStick == SerialSpec => []ActiveFlagSticks
<1>1. SerialInv => ActiveFlagSticks
  BY DEF SerialInv
<1> QED
  BY <1>1, SerialInvHolds, PTL

-----------------------------------------------------------------------------
(* What was checked before the store is read *)

AllAdmitted == \A r \in Requests : Admitted(r)

LEMMA AskedInOps == ASSUME NEW r, NEW c, NEW l, NEW x, Begin(r, c, l, x) PROVE c.op \in Ops
  BY DEF Begin

LEMMA AdmittedKept ==
  ASSUME AllAdmitted, NEW r \in Requests, OnlyMoves(r), now' = now, Admitted(r)'
  PROVE  AllAdmitted'
  BY DEF AllAdmitted, Admitted, OnlyMoves, Locked

\* A request whose first store call is neither the reading of a row for a login
\* nor for a change of password, or a later store call of any request.
LEMMA OtherCallAdmitted ==
  ASSUME AuthInv, AllAdmitted, NEW r \in Requests, now' = now,
         \/ \E c \in Calls, l \in Labels, x \in Row \cup Session \cup {NoCopy} :
              /\ Begin(r, c, l, x)
              /\ l \notin {"verify", "session"} /\ (l = "write" => c.op # "change")
         \/ pc[r] # "idle" /\ \E l \in Labels \ {"verify", "write"} :
              Proceed(r, l) /\ (l = "session" => pc[r] = "verify")
         \/ Return(r)
  PROVE  AllAdmitted'
<1>1. CASE \E c \in Calls, l \in Labels, x \in Row \cup Session \cup {NoCopy} :
             /\ Begin(r, c, l, x)
             /\ l \notin {"verify", "session"} /\ (l = "write" => c.op # "change")
  <2>1. /\ OnlyMoves(r) /\ call'[r].op \in Ops
        /\ pc'[r] \notin {"verify", "session"}
        /\ pc'[r] = "write" => call'[r].op # "change"
    BY <1>1, BeginStep, AskedInOps DEF AuthInv
  <2> QED
    BY <2>1, AdmittedKept DEF Admitted
<1>2. ASSUME pc[r] # "idle", NEW l \in Labels \ {"verify", "write"}, Proceed(r, l),
             l = "session" => pc[r] = "verify"
      PROVE  AllAdmitted'
  <2>1. /\ OnlyMoves(r) /\ pc'[r] \notin {"verify", "write"} /\ call'[r] = call[r]
        /\ pc'[r] = "session" => pc[r] = "verify"
    BY <1>2, ProceedStep DEF AuthInv
  <2> QED
    BY <1>2, <2>1, AdmittedKept DEF AllAdmitted, Admitted
<1>3. CASE Return(r)
  <2>1. OnlyMoves(r) /\ pc'[r] = "idle"
    BY <1>3, ReturnStep DEF AuthInv
  <2> QED
    BY <2>1, AdmittedKept DEF Admitted
<1> QED
  BY <1>1, <1>2, <1>3

LEMMA AdmittedStep ==
  ASSUME AuthInv, AllAdmitted, [Next]_vars
  PROVE  AllAdmitted'
<1>1. CASE UNCHANGED <<now, control>>
  BY <1>1 DEF AllAdmitted, Admitted, Locked, control
<1>2. CASE Tick
  <2> SUFFICES ASSUME NEW r \in Requests PROVE Admitted(r)'
    BY DEF AllAdmitted
  <2>1. UNCHANGED <<pc, call, copy>> /\ now' = now + 1 /\ now \in Nat /\ Admitted(r)
    BY <1>2, LimitsAssumption DEF Tick, control, AuthInv, TypeOK, Clock, AllAdmitted
  <2>2. pc[r] = "verify" => copy[r].lockedUntil \in Nat
    BY DEF AuthInv, RequestInv, Holds, SoundRow, Row
  <2> QED
    BY <2>1, <2>2 DEF Admitted, Locked
<1>3. ASSUME NEW r \in Requests, NEW c, Refuse(r, c) PROVE AllAdmitted'
  BY <1>1, <1>3 DEF Refuse, vars, control
<1>4. ASSUME NEW r \in Requests, NEW c \in LoginCalls, LoginRead(r, c) PROVE AllAdmitted'
  <2>1. /\ accounts[c.account] \in Row /\ c \in Calls
        /\ Begin(r, c, "verify", accounts[c.account]) /\ now' = now
        /\ accounts[c.account].active /\ ~Locked(accounts[c.account]) /\ c.kind = "name"
    BY <1>4, CallAccount DEF LoginRead, LooksUp, Exists, AuthInv, TypeOK, store
  <2>2. /\ OnlyMoves(r) /\ pc'[r] = "verify" /\ copy'[r] = accounts[c.account]
        /\ call'[r] = c /\ c.op \in Ops
    BY <2>1, BeginStep, AskedInOps DEF AuthInv, Labels
  <2> QED
    BY <2>1, <2>2, AdmittedKept DEF Admitted, Locked
<1>5. ASSUME NEW r \in Requests, NEW c \in ChangeCalls, ChangeRead(r, c) PROVE AllAdmitted'
  <2>1. /\ accounts[c.account] \in Row /\ c \in Calls
        /\ Begin(r, c, "write", accounts[c.account]) /\ now' = now
        /\ c.pw = accounts[c.account].hash
    BY <1>5, CallAccount DEF ChangeRead, Exists, AuthInv, TypeOK, store, VerifyPassword
  <2>2. /\ OnlyMoves(r) /\ pc'[r] = "write" /\ copy'[r] = accounts[c.account]
        /\ call'[r] = c /\ c.op \in Ops
    BY <2>1, BeginStep, AskedInOps DEF AuthInv, Labels
  <2> QED
    BY <2>1, <2>2, AdmittedKept DEF Admitted
<1>6. ASSUME NEW r \in Requests, NEW c \in LoginCalls, LoginUnknown(r, c) PROVE AllAdmitted'
  BY <1>6, CallAccount, OtherCallAdmitted DEF LoginUnknown, store, Labels
<1>7. ASSUME NEW r \in Requests, NEW c \in ValidateCalls, ValidateRead(r, c) PROVE AllAdmitted'
  <2> DEFINE x == [sessions[c.sid] EXCEPT !.lastActivity = now]
  <2>1. sessions[c.sid] \in Session /\ now \in Clock /\ c \in Calls
    BY <1>7 DEF ValidateRead, AuthInv, TypeOK, Calls
  <2>2. x \in Session /\ Begin(r, c, "touch", x) /\ now' = now
    BY <1>7, <2>1 DEF ValidateRead, Session, store
  <2> HIDE DEF x
  <2> QED
    BY <2>1, <2>2, OtherCallAdmitted DEF Labels
<1>8. ASSUME NEW r \in Requests, NEW c \in ResetCalls \cup ActiveCalls \cup ProfileCalls,
             UpdateRead(r, c)
      PROVE  AllAdmitted'
  <2>1. /\ accounts[c.account] \in Row /\ c \in Calls
        /\ Begin(r, c, "write", accounts[c.account]) /\ now' = now
    BY <1>8, CallAccount DEF UpdateRead, Exists, AuthInv, TypeOK, store
  <2>2. c.op # "change"
    BY DEF ResetCalls, ActiveCalls, ProfileCalls
  <2> QED
    BY <2>1, <2>2, OtherCallAdmitted DEF Labels
<1>9. ASSUME NEW r \in Requests, NEW c \in DeleteCalls, DeleteRead(r, c) PROVE AllAdmitted'
  <2>1. /\ accounts[c.account] \in Row /\ c \in Calls
        /\ Begin(r, c, "remove", accounts[c.account]) /\ now' = now
    BY <1>9, CallAccount DEF DeleteRead, Exists, AuthInv, TypeOK, store
  <2> QED
    BY <2>1, OtherCallAdmitted DEF Labels
<1>10. ASSUME NEW r \in Requests,
              \/ LoginRight(r) \/ LoginWrong(r) \/ LoginRejected(r) \/ CreateSession(r)
              \/ ValidateTouch(r) \/ UpdateWrite(r) \/ ChangeRevoke(r) \/ DeleteWrite(r)
       PROVE  AllAdmitted'
  <2>1. /\ now' = now /\ pc[r] # "idle"
        /\ \/ Return(r)
           \/ \E l \in {"session", "rejected", "revoke"} :
                Proceed(r, l) /\ (l = "session" => pc[r] = "verify")
    BY <1>10 DEF LoginRight, LoginWrong, LoginRejected, CreateSession, ValidateTouch,
       UpdateWrite, ChangeRevoke, DeleteWrite, store
  <2>2. {"session", "rejected", "revoke"} \subseteq Labels \ {"verify", "write"}
    BY DEF Labels
  <2> QED
    BY <2>1, <2>2, OtherCallAdmitted
<1>11. CASE \/ \E sid \in SessionIds : Logout(sid)
            \/ \E u \in Users : InvalidateAllUserSessions(u)
            \/ UNCHANGED vars
  BY <1>1, <1>11 DEF Logout, InvalidateAllUserSessions, vars, control
<1>12. ASSUME NEW r \in Requests, LoginStep(r) PROVE AllAdmitted'
  BY <1>3, <1>4, <1>6, <1>10, <1>12 DEF LoginStep, LoginLocked, LoginDisabled
<1>13. ASSUME NEW r \in Requests, ValidateStep(r) PROVE AllAdmitted'
  BY <1>3, <1>7, <1>10, <1>13 DEF ValidateStep, ValidateMissing, ValidateExpired
<1>14. ASSUME NEW r \in Requests, UpdateStep(r) PROVE AllAdmitted'
  BY <1>3, <1>5, <1>8, <1>10, <1>14 DEF UpdateStep, UserMissing, ChangeRefused
<1>15. ASSUME NEW r \in Requests, DeleteStep(r) PROVE AllAdmitted'
  BY <1>3, <1>9, <1>10, <1>15 DEF DeleteStep, UserMissing
<1> QED
  BY <1>2, <1>11, <1>12, <1>13, <1>14, <1>15 DEF Next

LEMMA ChecksHold == SerialSpec => []AllAdmitted
<1>1. HInit => AllAdmitted
  BY DEF HInit, Init, AllAdmitted, Admitted
<1>2. AuthInv /\ AllAdmitted /\ [SerialNext]_hvars => AllAdmitted'
  BY SerialStepIsStep, AdmittedStep
<1> QED
  BY <1>1, <1>2, SerialInvHolds, PTL DEF SerialSpec

\* A login by name or address is told that the credentials are invalid only if its
\* password is wrong: what the login compared is still the account's password when
\* the answer goes out. A login by user id is told so whatever its password
\* (auth.go, Authenticate).
THEOREM RightPasswordsAdmitted == SerialSpec => []RightPasswordAdmitted
<1>1. SerialInv /\ AllAdmitted => RightPasswordAdmitted
  BY DEF SerialInv, UpToDate, AllAdmitted, Admitted, RightPasswordAdmitted
<1> QED
  BY <1>1, SerialInvHolds, ChecksHold, PTL

-----------------------------------------------------------------------------
(* Sessions *)

Revoking(u) == \E r \in Requests : pc[r] = "revoke" /\ call[r].account = u

\* Every step leaves the account and the password of a session alone.
LEMMA SessionsKeepProof ==
  ASSUME AuthInv, [Next]_vars, \A r \in Requests : TouchesOwnSession(r)
  PROVE  /\ issued \subseteq issued'
         /\ \A x \in DOMAIN sessions' : x \in issued =>
              /\ x \in DOMAIN sessions
              /\ sessions'[x].account = sessions[x].account
              /\ sessions'[x].proof = sessions[x].proof
<1> SUFFICES ASSUME NEW x \in DOMAIN sessions', x \in issued
             PROVE  /\ x \in DOMAIN sessions
                    /\ sessions'[x].account = sessions[x].account
                    /\ sessions'[x].proof = sessions[x].proof
  BY SessionChanges
<1>1. CASE x \in DOMAIN sessions /\ sessions'[x] = sessions[x]
  BY <1>1
<1>2. ASSUME NEW r \in Requests, x \in DOMAIN sessions, pc[r] = "touch", call[r].sid = x,
             copy[r] \in Session, sessions'[x] = [copy[r] EXCEPT !.lastActivity = now]
      PROVE  /\ sessions'[x].account = sessions[x].account
             /\ sessions'[x].proof = sessions[x].proof
  <2>1. sessions'[x].account = copy[r].account /\ sessions'[x].proof = copy[r].proof
    BY <1>2 DEF Session
  <2> QED
    BY <1>2, <2>1 DEF TouchesOwnSession
<1> QED
  BY <1>1, <1>2, SessionChanges

\* A request that does not move still writes back its own session.
LEMMA TouchStable ==
  ASSUME AuthInv, [Next]_vars, \A r \in Requests : TouchesOwnSession(r),
         NEW q \in Requests, UNCHANGED <<pc[q], call[q], copy[q]>>
  PROVE  TouchesOwnSession(q)'
  BY SessionsKeepProof DEF TouchesOwnSession

\* What has to be shown of a step that opens no session.
LEMMA MatchesKept ==
  ASSUME AuthInv, [Next]_vars, SessionInv, DOMAIN sessions' \subseteq DOMAIN sessions,
         \A u \in DOMAIN accounts' :
           /\ u \in DOMAIN accounts
           /\ \/ accounts'[u].hash = accounts[u].hash /\ (Revoking(u) => Revoking(u)')
              \/ Revoking(u)'
              \/ \A x \in DOMAIN sessions' : sessions[x].account # u
  PROVE  SessionMatchesPassword'
<1> SUFFICES ASSUME NEW x \in DOMAIN sessions', NEW u, u = sessions'[x].account,
                    u \in DOMAIN accounts'
             PROVE  sessions'[x].proof = accounts'[u].hash \/ Revoking(u)'
  BY DEF SessionMatchesPassword, Exists, Revoking
<1>1. x \in DOMAIN sessions /\ x \in issued
  BY DEF AuthInv, TypeOK
<1>2. sessions[x].account = u /\ sessions'[x].proof = sessions[x].proof
  BY <1>1, SessionsKeepProof DEF SessionInv, RequestsHeld
<1>3. u \in DOMAIN accounts /\ (sessions[x].proof = accounts[u].hash \/ Revoking(u))
  BY <1>1, <1>2 DEF SessionInv, RequestsHeld, SessionMatchesPassword, Exists, Revoking
<1> QED
  BY <1>2, <1>3

\* What has to be shown of the request that moves.
LEMMA HeldStep ==
  ASSUME AuthInv, [Next]_vars, SessionInv, NEW r \in Requests, OnlyMoves(r),
         TouchesOwnSession(r)'
  PROVE  RequestsHeld'
<1> SUFFICES ASSUME NEW q \in Requests, q # r
             PROVE  TouchesOwnSession(q)'
  BY DEF RequestsHeld
<1>1. UNCHANGED <<pc[q], call[q], copy[q]>>
  BY DEF OnlyMoves
<1> QED
  BY <1>1, TouchStable DEF SessionInv, RequestsHeld

\* Only the request that revokes stops revoking.
LEMMA RevokingKept ==
  ASSUME NEW r \in Requests, OnlyMoves(r), pc[r] # "revoke", NEW u, Revoking(u)
  PROVE  Revoking(u)'
  BY DEF OnlyMoves, Revoking

\* A step that changes no row, opens no session and completes no revocation.
LEMMA PasswordsAlone ==
  ASSUME AuthInv, [Next]_vars, SessionInv, NEW r \in Requests, OnlyMoves(r),
         pc[r] # "revoke", UNCHANGED accounts, DOMAIN sessions' \subseteq DOMAIN sessions
  PROVE  SessionMatchesPassword'
  BY RevokingKept, MatchesKept

\* A step of no request, or of one that is refused.
LEMMA OutsideSessions ==
  ASSUME AuthInv, [Next]_vars, SessionInv, UNCHANGED <<accounts, control>>,
         DOMAIN sessions' \subseteq DOMAIN sessions
  PROVE  SessionInv'
<1>1. SessionMatchesPassword'
  BY MatchesKept DEF Revoking, control
<1>2. \A q \in Requests : TouchesOwnSession(q)'
  BY TouchStable DEF SessionInv, RequestsHeld, control
<1> QED
  BY <1>1, <1>2 DEF SessionInv, RequestsHeld, control

\* The first store call of a request; a validation reads the session it is about.
LEMMA FirstCallSessions ==
  ASSUME AuthInv, [Next]_vars, SessionInv, NEW r \in Requests, NEW c \in Calls,
         NEW l \in Labels, NEW x \in Row \cup Session \cup {NoCopy},
         Begin(r, c, l, x), UNCHANGED store,
         l = "touch" => /\ c.sid \in DOMAIN sessions
                        /\ x.account = sessions[c.sid].account
                        /\ x.proof = sessions[c.sid].proof
  PROVE  SessionInv'
<1>1. /\ OnlyMoves(r) /\ pc'[r] = l /\ call'[r] = c /\ copy'[r] = x
      /\ pc[r] = "idle"
  BY BeginStep DEF AuthInv, Begin
<1>2. TouchesOwnSession(r)'
  BY <1>1 DEF TouchesOwnSession, store, AuthInv, TypeOK
<1>3. RequestsHeld'
  BY <1>1, <1>2, HeldStep
<1>4. SessionMatchesPassword'
  BY <1>1, PasswordsAlone DEF store
<1> QED
  BY <1>3, <1>4 DEF SessionInv, RequestsHeld

\* A later call of r that leaves it idle or at a label that is not "touch".
LEMMA LaterCallHeld ==
  ASSUME AuthInv, [Next]_vars, SessionInv, NEW r \in Requests,
         Return(r) \/ \E l \in Labels \ {"touch"} : Proceed(r, l)
  PROVE  OnlyMoves(r) /\ RequestsHeld'
<1>1. OnlyMoves(r) /\ pc'[r] # "touch"
  BY ProceedStep, ReturnStep DEF AuthInv
<1>2. TouchesOwnSession(r)'
  BY <1>1 DEF TouchesOwnSession
<1> QED
  BY <1>1, <1>2, HeldStep

LEMMA GuessSessions ==
  ASSUME AuthInv, SerialInv, [Next]_vars, SessionInv, NEW r \in Requests,
         LoginRight(r) \/ LoginWrong(r)
  PROVE  SessionInv'
<1>1. /\ TypeOK /\ UpToDate(r) /\ pc[r] = "verify" /\ copy[r] \in Row
  BY DEF AuthInv, SerialInv, LoginRight, LoginWrong, RequestInv, Holds, SoundRow
<1>2. OnlyMoves(r) /\ RequestsHeld'
  BY <1>1, LaterCallHeld DEF LoginRight, LoginWrong, Labels
<1>3. PICK row : row.hash = copy[r].hash /\ accounts' = UpdateRow(call[r].account, row)
  BY <1>1, AfterRightFields, AfterWrongFields DEF LoginRight, LoginWrong
<1>4. /\ DOMAIN accounts' = DOMAIN accounts
      /\ \A b \in DOMAIN accounts :
           accounts'[b] = IF b = call[r].account THEN row ELSE accounts[b]
  BY <1>1, <1>3, RowWritten
<1>5. \A b \in DOMAIN accounts : accounts'[b].hash = accounts[b].hash
  BY <1>1, <1>3, <1>4 DEF UpToDate, Exists
<1>6. DOMAIN sessions' = DOMAIN sessions
  BY DEF LoginRight, LoginWrong
<1>7. SessionMatchesPassword'
  BY <1>1, <1>2, <1>4, <1>5, <1>6, RevokingKept, MatchesKept
<1> QED
  BY <1>2, <1>7 DEF SessionInv, RequestsHeld

\* The session is opened with the password the account has now.
LEMMA OpeningSessions ==
  ASSUME AuthInv, SerialInv, [Next]_vars, SessionInv, NEW r \in Requests,
         CreateSession(r)
  PROVE  SessionInv'
<1>1. TypeOK /\ UpToDate(r) /\ pc[r] = "session" /\ accounts' = accounts
  BY DEF AuthInv, SerialInv, CreateSession
<1>2. OnlyMoves(r) /\ RequestsHeld'
  BY <1>1, LaterCallHeld DEF CreateSession
<1>3. PICK sid \in SessionIds \ issued :
        sessions' = [s \in DOMAIN sessions \cup {sid} |->
                       IF s = sid THEN NewSession(call[r]) ELSE sessions[s]]
  BY DEF CreateSession
<1>4. SessionMatchesPassword'
  <2> SUFFICES ASSUME NEW x \in DOMAIN sessions', NEW u, u = sessions'[x].account,
                      u \in DOMAIN accounts'
               PROVE  sessions'[x].proof = accounts'[u].hash \/ Revoking(u)'
    BY DEF SessionMatchesPassword, Exists, Revoking
  <2>1. CASE x = sid
    <3>1. u = call[r].account /\ sessions'[x].proof = call[r].pw
      BY <1>3, <2>1 DEF NewSession
    <3> QED
      BY <1>1, <3>1 DEF UpToDate, Exists
  <2>2. CASE x # sid
    <3>1. x \in DOMAIN sessions /\ sessions'[x] = sessions[x]
      BY <1>3, <2>2
    <3>2. sessions[x].proof = accounts[u].hash \/ Revoking(u)
      BY <1>1, <3>1 DEF SessionInv, RequestsHeld, SessionMatchesPassword, Exists, Revoking
    <3> QED
      BY <1>1, <1>2, <3>1, <3>2, RevokingKept
  <2> QED
    BY <2>1, <2>2
<1> QED
  BY <1>2, <1>4 DEF SessionInv, RequestsHeld

\* A change of password goes on to revoke; no other update touches the hash.
LEMMA UpdateSessions ==
  ASSUME "reset" \notin Ops, AuthInv, SerialInv, AllAdmitted, [Next]_vars, SessionInv,
         NEW r \in Requests, UpdateWrite(r)
  PROVE  SessionInv'
<1> DEFINE c == call[r]
           row == Edited(c, copy[r])
<1>1. /\ TypeOK /\ UpToDate(r) /\ pc[r] = "write" /\ c \in Updates /\ copy[r] \in Row
      /\ c.op # "reset"
  BY DEF AuthInv, SerialInv, AllAdmitted, Admitted, UpdateWrite, RequestInv, Holds,
     SoundRow, Updates
<1>2. /\ accounts' = UpdateRow(c.account, row) /\ sessions' = sessions
      /\ IF c.op = "change" /\ Exists(c.account) THEN Proceed(r, "revoke") ELSE Return(r)
  BY DEF UpdateWrite
<1>3. OnlyMoves(r) /\ RequestsHeld'
  BY <1>1, <1>2, LaterCallHeld DEF Labels
<1>4. row.hash = IF c.op = "change" THEN c.new ELSE copy[r].hash
  BY <1>1, EditedFields
<1> HIDE DEF row
<1>5. /\ DOMAIN accounts' = DOMAIN accounts
      /\ \A b \in DOMAIN accounts :
           accounts'[b] = IF b = c.account THEN row ELSE accounts[b]
  BY <1>1, <1>2, RowWritten
<1>6. ASSUME NEW u \in DOMAIN accounts
      PROVE  \/ accounts'[u].hash = accounts[u].hash /\ (Revoking(u) => Revoking(u)')
             \/ Revoking(u)'
  <2>1. CASE u = c.account /\ c.op = "change"
    <3>1. pc'[r] = "revoke" /\ call'[r] = c
      BY <1>1, <1>2, <2>1, ProceedStep DEF Exists, Labels
    <3> QED
      BY <2>1, <3>1 DEF Revoking
  <2>2. CASE ~(u = c.account /\ c.op = "change")
    <3>1. accounts'[u].hash = accounts[u].hash
      BY <1>1, <1>4, <1>5, <2>2 DEF UpToDate, Exists
    <3> QED
      BY <1>1, <1>3, <3>1, RevokingKept
  <2> QED
    BY <2>1, <2>2
<1>7. SessionMatchesPassword'
  BY <1>2, <1>5, <1>6, MatchesKept
<1> QED
  BY <1>3, <1>7 DEF SessionInv, RequestsHeld

LEMMA RevokeSessions ==
  ASSUME AuthInv, [Next]_vars, SessionInv, NEW r \in Requests, ChangeRevoke(r)
  PROVE  SessionInv'
<1>1. pc[r] = "revoke" /\ accounts' = accounts
  BY DEF ChangeRevoke
<1>2. OnlyMoves(r) /\ RequestsHeld'
  BY <1>1, LaterCallHeld DEF ChangeRevoke
<1>3. DOMAIN sessions' = DOMAIN sessions \ SessionsOf(call[r].account)
  BY DEF ChangeRevoke, WithoutSessions, Restrict, SessionsOf
<1>4. ASSUME NEW u \in DOMAIN accounts'
      PROVE  \/ accounts'[u].hash = accounts[u].hash /\ (Revoking(u) => Revoking(u)')
             \/ \A x \in DOMAIN sessions' : sessions[x].account # u
  <2>1. CASE u = call[r].account
    BY <1>3, <2>1 DEF SessionsOf
  <2>2. CASE u # call[r].account
    BY <1>1, <1>2, <2>2 DEF Revoking, OnlyMoves
  <2> QED
    BY <2>1, <2>2
<1>5. SessionMatchesPassword'
  BY <1>1, <1>3, <1>4, MatchesKept
<1> QED
  BY <1>2, <1>5 DEF SessionInv, RequestsHeld

LEMMA DeleteSessions ==
  ASSUME AuthInv, [Next]_vars, SessionInv, NEW r \in Requests, DeleteWrite(r)
  PROVE  SessionInv'
<1>1. /\ pc[r] = "remove" /\ sessions' = sessions
      /\ accounts' = [b \in DOMAIN accounts \ {call[r].account} |-> accounts[b]]
  BY DEF DeleteWrite, Restrict
<1>2. OnlyMoves(r) /\ RequestsHeld'
  BY <1>1, LaterCallHeld DEF DeleteWrite
<1>3. SessionMatchesPassword'
  BY <1>1, <1>2, RevokingKept, MatchesKept
<1> QED
  BY <1>2, <1>3 DEF SessionInv, RequestsHeld

\* The calls that change neither a row nor the set of sessions.
LEMMA ClosingSessions ==
  ASSUME AuthInv, [Next]_vars, SessionInv, NEW r \in Requests,
         LoginRejected(r) \/ ValidateTouch(r)
  PROVE  SessionInv'
<1>1. /\ pc[r] \in {"rejected", "touch"} /\ accounts' = accounts
      /\ DOMAIN sessions' = DOMAIN sessions
  BY DEF LoginRejected, ValidateTouch, store, UpdateSession
<1>2. OnlyMoves(r) /\ RequestsHeld'
  BY <1>1, LaterCallHeld DEF LoginRejected, ValidateTouch
<1>3. SessionMatchesPassword'
  BY <1>1, <1>2, PasswordsAlone
<1> QED
  BY <1>2, <1>3 DEF SessionInv, RequestsHeld

LEMMA SessionInitial == HInit => SessionInv
  BY DEF HInit, Init, SessionInv, RequestsHeld, TouchesOwnSession, SessionMatchesPassword

LEMMA SessionStep ==
  ASSUME "reset" \notin Ops, AuthInv, SerialInv, AllAdmitted, SessionInv, [Next]_vars
  PROVE  SessionInv'
<1>1. CASE UNCHANGED <<accounts, control>> /\ DOMAIN sessions' \subseteq DOMAIN sessions
  BY <1>1, OutsideSessions
<1>2. ASSUME NEW r \in Requests, NEW c, Refuse(r, c) PROVE SessionInv'
  BY <1>1, <1>2 DEF Refuse, vars, control
<1>3. CASE UNCHANGED vars
  BY <1>1, <1>3 DEF vars, control
<1>4. ASSUME NEW r \in Requests, NEW c \in Calls, NEW l \in Labels \ {"touch"},
             NEW x \in Row \cup {NoCopy}, Begin(r, c, l, x), UNCHANGED store
      PROVE  SessionInv'
  BY <1>4, FirstCallSessions
<1>5. ASSUME NEW r \in Requests, LoginStep(r) PROVE SessionInv'
  <2>1. ASSUME NEW c \in LoginCalls,
               \/ LoginUnknown(r, c) \/ LoginLocked(r, c)
               \/ LoginDisabled(r, c) \/ LoginRead(r, c)
        PROVE  SessionInv'
    <3>1. c \in Calls
      BY CallAccount
    <3>2. CASE LoginRead(r, c)
      <4>1. accounts[c.account] \in Row
        BY <3>2 DEF LoginRead, LooksUp, Exists, AuthInv, TypeOK
      <4> QED
        BY <1>4, <3>1, <3>2, <4>1 DEF LoginRead, Labels
    <3>3. CASE LoginUnknown(r, c)
      BY <1>4, <3>1, <3>3 DEF LoginUnknown, Labels
    <3>4. CASE LoginLocked(r, c) \/ LoginDisabled(r, c)
      BY <1>2, <3>4 DEF LoginLocked, LoginDisabled
    <3> QED
      BY <2>1, <3>2, <3>3, <3>4
  <2> QED
    BY <1>5, <2>1, GuessSessions, OpeningSessions, ClosingSessions DEF LoginStep
<1>6. ASSUME NEW r \in Requests, ValidateStep(r) PROVE SessionInv'
  <2>1. ASSUME NEW c \in ValidateCalls, ValidateRead(r, c) PROVE SessionInv'
    <3> DEFINE x == [sessions[c.sid] EXCEPT !.lastActivity = now]
    <3>1. c \in Calls /\ sessions[c.sid] \in Session /\ now \in Clock
      BY <2>1 DEF ValidateRead, AuthInv, TypeOK, Calls
    <3>2. /\ x \in Session /\ x.account = sessions[c.sid].account
          /\ x.proof = sessions[c.sid].proof
      BY <3>1 DEF Session
    <3>3. Begin(r, c, "touch", x) /\ UNCHANGED store /\ c.sid \in DOMAIN sessions
      BY <2>1 DEF ValidateRead
    <3> HIDE DEF x
    <3> QED
      BY <3>1, <3>2, <3>3, FirstCallSessions DEF Labels
  <2>2. ASSUME NEW c \in ValidateCalls, ValidateMissing(r, c) \/ ValidateExpired(r, c)
        PROVE  SessionInv'
    BY <1>2, <2>2 DEF ValidateMissing, ValidateExpired
  <2> QED
    BY <1>6, <2>1, <2>2, ClosingSessions DEF ValidateStep
<1>7. ASSUME NEW r \in Requests, UpdateStep(r) PROVE SessionInv'
  <2>1. ASSUME NEW c \in Updates, ChangeRead(r, c) \/ UpdateRead(r, c) PROVE SessionInv'
    <3>1. c \in Calls /\ accounts[c.account] \in Row
      BY <2>1, CallAccount DEF ChangeRead, UpdateRead, Exists, AuthInv, TypeOK, Updates
    <3>2. Begin(r, c, "write", accounts[c.account]) /\ UNCHANGED store
      BY <2>1 DEF ChangeRead, UpdateRead
    <3> QED
      BY <1>4, <3>1, <3>2 DEF Labels
  <2>2. ASSUME NEW c \in Updates, UserMissing(r, c) \/ ChangeRefused(r, c) PROVE SessionInv'
    BY <1>2, <2>2 DEF UserMissing, ChangeRefused
  <2> QED
    BY <1>7, <2>1, <2>2, UpdateSessions, RevokeSessions DEF UpdateStep, Updates
<1>8. ASSUME NEW r \in Requests, DeleteStep(r) PROVE SessionInv'
  <2>1. ASSUME NEW c \in DeleteCalls, DeleteRead(r, c) PROVE SessionInv'
    <3>1. c \in Calls /\ accounts[c.account] \in Row
      BY <2>1, CallAccount DEF DeleteRead, Exists, AuthInv, TypeOK
    <3>2. Begin(r, c, "remove", accounts[c.account]) /\ UNCHANGED store
      BY <2>1 DEF DeleteRead
    <3> QED
      BY <1>4, <3>1, <3>2 DEF Labels
  <2>2. ASSUME NEW c \in DeleteCalls, UserMissing(r, c) PROVE SessionInv'
    BY <1>2, <2>2 DEF UserMissing
  <2> QED
    BY <1>8, <2>1, <2>2, DeleteSessions DEF DeleteStep
<1>9. CASE \/ \E sid \in SessionIds : Logout(sid)
           \/ \E u \in Users : InvalidateAllUserSessions(u)
  <2>1. PICK S : sessions' = WithoutSessions(S) /\ UNCHANGED <<accounts, control>>
    BY <1>9 DEF Logout, InvalidateAllUserSessions
  <2>2. DOMAIN sessions' \subseteq DOMAIN sessions
    BY <2>1 DEF WithoutSessions, Restrict
  <2> QED
    BY <1>1, <2>1, <2>2
<1>10. CASE Tick
  BY <1>1, <1>10 DEF Tick
<1> QED
  BY <1>3, <1>5, <1>6, <1>7, <1>8, <1>9, <1>10 DEF Next

\* After a change of password no session is left that was opened with another
\* one, unless the change is still on its way to the sessions (auth.go,
\* ChangePassword: "Invalidate all sessions for security").  UpdatePassword has
\* no such step, so clients that reset passwords are excluded.
THEOREM SessionsMatchPasswords ==
  ASSUME "reset" \notin Ops
  PROVE  SerialSpec => []SessionMatchesPassword
<1>1. AuthInv /\ SerialInv /\ AllAdmitted /\ SessionInv /\ [SerialNext]_hvars => SessionInv'
  BY SerialStepIsStep, SessionStep
<1>2. SessionInv => SessionMatchesPassword
  BY DEF SessionInv, RequestsHeld
<1> QED
  BY <1>1, <1>2, SerialInvHolds, ChecksHold, SessionInitial, PTL DEF SerialSpec

-----------------------------------------------------------------------------
(* The refinement of AccountStore *)

\* The write of a login is a guess at the row as it is.
LEMMA GuessIsAtomic ==
  ASSUME AuthInv, SerialInv, AllAdmitted, NEW r \in Requests, LoginRight(r) \/ LoginWrong(r)
  PROVE  [Rows!Next]_<<now, accounts>>
<1> DEFINE a == call[r].account
           pw == call[r].pw
<1>1. /\ TypeOK /\ UpToDate(r) /\ pc[r] = "verify" /\ now' = now /\ now \in Nat
      /\ call[r] \in LoginCalls /\ copy[r] \in Row
      /\ copy[r].active /\ ~Locked(copy[r])
  BY LimitsAssumption DEF AuthInv, TypeOK, Clock, SerialInv, AllAdmitted, Admitted,
     LoginRight, LoginWrong, RequestInv, Holds, SoundRow
<1>2. a \in Accounts /\ pw \in Passwords
  BY <1>1 DEF LoginCalls
<1>3. CASE ~Exists(a)
  BY <1>1, <1>3 DEF LoginRight, LoginWrong, UpdateRow
<1>4. CASE Exists(a)
  <2>1. copy[r] = accounts[a] /\ a \in DOMAIN accounts
    BY <1>1, <1>4 DEF UpToDate, Exists
  <2>2. accounts[a].active /\ now >= accounts[a].lockedUntil
    BY <1>1, <2>1 DEF Locked, NoLock, Row
  <2>3. /\ pw = accounts[a].hash =>
             accounts' = [accounts EXCEPT ![a] = AfterRight(accounts[a])]
        /\ pw # accounts[a].hash =>
             accounts' = [accounts EXCEPT ![a] = AfterWrong(accounts[a])]
    BY <1>4, <2>1 DEF LoginRight, LoginWrong, UpdateRow, VerifyPassword
  <2>4. pw = accounts[a].hash => Rows!RightGuess(a)
    BY <2>3 DEF Rows!RightGuess, AfterRight, NoLock
  <2>5. pw # accounts[a].hash => Rows!WrongGuess(a)
    BY <2>3 DEF Rows!WrongGuess, AfterWrong, NoLock
  <2>6. Rows!Guess(a, pw)
    BY <1>1, <2>1, <2>2, <2>4, <2>5 DEF Rows!Guess
  <2> QED
    BY <1>2, <2>6 DEF Rows!Next, Accounts
<1> QED
  BY <1>3, <1>4

\* The write of an update changes one field of the row as it is, or none.
LEMMA UpdateIsAtomic ==
  ASSUME AuthInv, SerialInv, AllAdmitted, NEW r \in Requests, UpdateWrite(r)
  PROVE  [Rows!Next]_<<now, accounts>>
<1> DEFINE c == call[r]
           u == c.account
<1>1. /\ TypeOK /\ UpToDate(r) /\ pc[r] = "write" /\ now' = now
      /\ c \in Updates /\ c.op \in Ops /\ copy[r] \in Row
      /\ accounts' = UpdateRow(u, Edited(c, copy[r]))
      /\ c.op = "change" => c.pw = copy[r].hash
  BY DEF AuthInv, SerialInv, AllAdmitted, Admitted, UpdateWrite,
     RequestInv, Holds, SoundRow, Updates
<1>2. CASE ~Exists(u)
  BY <1>1, <1>2 DEF UpdateRow
<1>3. CASE Exists(u)
  <2>1. /\ copy[r] = accounts[u] /\ u \in DOMAIN accounts
        /\ accounts' = [accounts EXCEPT ![u] = Edited(c, accounts[u])]
    BY <1>1, <1>3 DEF UpToDate, Exists, UpdateRow
  <2>2. ASSUME c.op \in {"change", "reset"} PROVE Rows!SetPassword(u, c.new)
    BY <1>1, <2>1, <2>2 DEF Edited, Rows!SetPassword
  <2>3. CASE c \in ChangeCalls
    <3>1. /\ c.op = "change" /\ u \in Users /\ c.pw \in Passwords /\ c.new \in Passwords
      BY <2>3 DEF ChangeCalls
    <3>2. Rows!ChangePassword(u, c.pw, c.new)
      BY <1>1, <2>1, <2>2, <3>1 DEF Rows!ChangePassword
    <3> QED
      BY <3>1, <3>2 DEF Rows!Next
  <2>4. CASE c \in ResetCalls
    <3>1. c.op = "reset" /\ u \in Users /\ c.new \in Passwords
      BY <2>4 DEF ResetCalls
    <3>2. Rows!ResetPassword(u, c.new)
      BY <1>1, <2>2, <3>1 DEF Rows!ResetPassword
    <3> QED
      BY <3>1, <3>2 DEF Rows!Next
  <2>5. CASE c \in ActiveCalls
    <3>1. c.op = "setActive" /\ u \in Users /\ c.active \in BOOLEAN
      BY <2>5 DEF ActiveCalls
    <3>2. Rows!SetActive(u, c.active)
      BY <1>1, <2>1, <3>1 DEF Edited, Rows!SetActive
    <3> QED
      BY <3>1, <3>2 DEF Rows!Next
  <2>6. CASE c \in ProfileCalls
    <3>1. c.op = "profile"
      BY <2>6 DEF ProfileCalls
    <3>2. accounts' = [accounts EXCEPT ![u] = accounts[u]]
      BY <2>1, <3>1 DEF Edited
    <3>3. accounts' = accounts
      BY <1>1, <3>2 DEF TypeOK
    <3> QED
      BY <1>1, <3>3
  <2> QED
    BY <1>1, <2>3, <2>4, <2>5, <2>6 DEF Updates
<1> QED
  BY <1>2, <1>3

LEMMA DeletionIsAtomic ==
  ASSUME AuthInv, NEW r \in Requests, DeleteWrite(r)
  PROVE  [Rows!Next]_<<now, accounts>>
<1> DEFINE u == call[r].account
<1>1. /\ call[r] \in DeleteCalls /\ now' = now
      /\ accounts \in [DOMAIN accounts -> Row]
      /\ accounts' = [x \in DOMAIN accounts \ {u} |-> accounts[x]]
  BY DEF AuthInv, TypeOK, RequestInv, DeleteWrite, Restrict
<1>2. u \in Users
  BY <1>1 DEF DeleteCalls
<1>3. CASE u \in DOMAIN accounts
  BY <1>1, <1>2, <1>3 DEF Rows!Next, Rows!Delete
<1>4. CASE u \notin DOMAIN accounts
  <2>1. DOMAIN accounts \ {u} = DOMAIN accounts
    BY <1>4
  <2>2. accounts' = accounts
    BY <1>1, <2>1
  <2> QED
    BY <1>1, <2>2
<1> QED
  BY <1>3, <1>4

LEMMA StepIsAtomic ==
  ASSUME AuthInv, SerialInv, AllAdmitted, [Next]_vars
  PROVE  [Rows!Next]_<<now, accounts>>
<1>1. CASE UNCHANGED <<now, accounts>>
  BY <1>1
<1>2. CASE Tick
  BY <1>2 DEF Tick, Rows!Next, Rows!Tick
<1>3. ASSUME NEW r \in Requests,
             LoginStep(r) \/ ValidateStep(r) \/ UpdateStep(r) \/ DeleteStep(r)
      PROVE  \/ LoginRight(r) \/ LoginWrong(r) \/ UpdateWrite(r) \/ DeleteWrite(r)
             \/ UNCHANGED <<now, accounts>>
  BY <1>3 DEF LoginStep, LoginUnknown, LoginLocked, LoginDisabled, LoginRead, LoginRejected,
     CreateSession, ValidateStep, ValidateMissing, ValidateExpired, ValidateRead,
     ValidateTouch, UpdateStep, UserMissing, ChangeRefused, ChangeRead, UpdateRead,
     ChangeRevoke, DeleteStep, DeleteRead, Refuse, store, vars
<1>4. CASE \/ \E sid \in SessionIds : Logout(sid)
           \/ \E u \in Users : InvalidateAllUserSessions(u)
           \/ UNCHANGED vars
  BY <1>4 DEF Logout, InvalidateAllUserSessions, vars
<1> QED
  BY <1>1, <1>2, <1>3, <1>4, GuessIsAtomic, UpdateIsAtomic, DeletionIsAtomic DEF Next

LEMMA RowsInitial == HInit => Rows!Init
  BY DEF HInit, Init, Rows!Init, Accounts, NoLock

\* As long as no two requests about one account overlap, the two account tables
\* are what AccountStore promises, for every mix of operations: a login's write
\* is a guess at the row as it is then, made while the account is active and not
\* locked, and an update's write (GetUser, then UpdateUser) changes its one field
\* and leaves what other requests wrote alone.
THEOREM RowsAreAtomic == SerialSpec => RowsChangeAtomically
<1>1. AuthInv /\ SerialInv /\ AllAdmitted /\ [SerialNext]_hvars
        => [Rows!Next]_<<now, accounts>>
  BY SerialStepIsStep, StepIsAtomic
<1> QED
  BY <1>1, SerialInvHolds, ChecksHold, RowsInitial, PTL
  DEF SerialSpec, RowsChangeAtomically, Rows!Spec
=============================================================================
