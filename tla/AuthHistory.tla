----------------------------- MODULE AuthHistory -----------------------------
(***************************************************************************)
(* AuthService with an observer that remembers what the clients were told: *)
(* which password and which active flag the last completed operation on a  *)
(* user set, and how many wrong guesses an account has seen since the last *)
(* right one.  The observer reads the requests' labels before and after a  *)
(* step and never constrains it.                                           *)
(***************************************************************************)
EXTENDS AuthService

VARIABLES
  intent,  \* what the last completed change set, for each user
  wrong    \* wrong guesses since the last right one, counted up to MaxFailed

hvars == <<vars, intent, wrong>>

HInit ==
  /\ Init
  /\ intent = [u \in Users |-> [hash |-> accounts[u].hash, active |-> TRUE]]
  /\ wrong = [a \in Accounts |-> 0]

\* Request r completes, in this step, the write of its update of user u.
Writes(r, u) ==
  /\ pc[r] = "write" /\ pc'[r] # "write"
  /\ call[r].account = u
  /\ Exists(u)

ObserveIntent ==
  intent' = [u \in Users |->
    [hash   |-> IF \E r \in Requests : Writes(r, u) /\ call[r].op \in {"change", "reset"}
                THEN call[CHOOSE r \in Requests : Writes(r, u)].new
                ELSE intent[u].hash,
     active |-> IF \E r \in Requests : Writes(r, u) /\ call[r].op = "setActive"
                THEN call[CHOOSE r \in Requests : Writes(r, u)].active
                ELSE intent[u].active]]

\* A login on account a has, in this step, verified its password and moved to
\* label l.
Verified(a, l) ==
  \E r \in Requests : pc[r] = "verify" /\ pc'[r] = l /\ call[r].account = a

ObserveGuesses ==
  wrong' = [a \in Accounts |->
    IF Verified(a, "session") THEN 0
    ELSE IF Verified(a, "rejected") /\ wrong[a] < MaxFailed THEN wrong[a] + 1
    ELSE wrong[a]]

HNext == Next /\ ObserveIntent /\ ObserveGuesses

HSpec == HInit /\ [][HNext]_hvars

\* Request r is about an account.  (A validation is about a session only.)
OnAccount(r) == pc[r] # "idle" /\ call[r].op # "validate"

\* What a lock per account, held from a request's first store call to its
\* answer, would add to the code: no two requests about one account overlap.
OneAtATime ==
  \A q, r \in Requests :
    OnAccount(q) /\ OnAccount(r) /\ call[q].account = call[r].account => q = r

SerialNext == HNext /\ OneAtATime'

SerialSpec == HInit /\ [][SerialNext]_hvars

\* The rows, as the abstract account store sees them.
Rows == INSTANCE AccountStore WITH rows <- accounts, Resets <- "reset" \in Ops

-----------------------------------------------------------------------------
(* Properties *)

\* IDEA.md: "Failed login lockout: 5 attempts, 30 minute lockout".
FailedAttemptsLock ==
  \A a \in DOMAIN accounts :
    wrong[a] >= MaxFailed => accounts[a].lockedUntil # NoLock

\* The password in the store is the one the last completed change set.
PasswordChangeSticks ==
  \A u \in Users \cap DOMAIN accounts : accounts[u].hash = intent[u].hash

\* An account that SetUserActive disabled stays disabled until it is enabled.
ActiveFlagSticks ==
  \A u \in Users \cap DOMAIN accounts : accounts[u].active = intent[u].active

\* The rows keep the promise of AccountStore: between the two store calls of a
\* request nothing happens that would make its write differ from one made at once.
RowsChangeAtomically == Rows!Spec

-----------------------------------------------------------------------------
(* The inductive invariant of SerialSpec *)

HTypeOK ==
  /\ intent \in [Users -> [hash : Passwords, active : BOOLEAN]]
  /\ wrong \in [Accounts -> 0 .. MaxFailed]

\* What request r has read of its account, or has learnt of it, is still true.
UpToDate(r) ==
  LET a == call[r].account IN
  /\ pc[r] \in {"verify", "write"} /\ Exists(a) => copy[r] = accounts[a]
  /\ pc[r] = "session" /\ Exists(a) => call[r].pw = accounts[a].hash
  /\ pc[r] = "rejected" =>
       /\ call[r] \in LoginCalls
       /\ call[r].kind = "name" /\ Exists(a) => call[r].pw # accounts[a].hash

\* What was checked before the copy was taken holds of the copy.
Admitted(r) ==
  /\ pc[r] # "idle" => call[r].op \in Ops
  /\ pc[r] = "verify" => copy[r].active /\ ~Locked(copy[r])
  /\ pc[r] \in {"verify", "session"} => call[r].kind = "name"
  /\ pc[r] = "write" /\ call[r].op = "change" => call[r].pw = copy[r].hash

\* The counter of a row is never behind the guesses.
GuessesCounted == \A a \in DOMAIN accounts : wrong[a] <= accounts[a].failed

SerialInv ==
  /\ HTypeOK
  /\ OneAtATime
  /\ \A r \in Requests : UpToDate(r)
  /\ GuessesCounted
  /\ PasswordChangeSticks
  /\ ActiveFlagSticks

\* A validation writes back the session it has read, and no id is used twice.
TouchesOwnSession(r) ==
  pc[r] = "touch" =>
    /\ call[r].sid \in issued
    /\ call[r].sid \in DOMAIN sessions =>
         /\ copy[r].account = sessions[call[r].sid].account
         /\ copy[r].proof = sessions[call[r].sid].proof

RequestsHeld == \A r \in Requests : TouchesOwnSession(r)

\* With these the sessions match the passwords, as long as nobody resets one:
\* UpdatePassword leaves the sessions alone.
SessionInv == RequestsHeld /\ SessionMatchesPassword
=============================================================================
