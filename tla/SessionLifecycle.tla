--------------------------- MODULE SessionLifecycle ---------------------------
(***************************************************************************)
(* What the session store promises its users, whatever requests run        *)
(* against it: an id is handed out once, a session lives from then until   *)
(* it is revoked, and a revoked session never lives again.                 *)
(***************************************************************************)
CONSTANT SessionIds

VARIABLES
  issued,  \* the ids handed out so far
  live     \* those whose session exists

Init == issued = {} /\ live = {}

Issue(sid) ==
  /\ sid \notin issued
  /\ issued' = issued \cup {sid}
  /\ live' = live \cup {sid}

\* Logout of one session, or of all sessions of a user.
Revoke(S) ==
  /\ live' = live \ S
  /\ UNCHANGED issued

Next ==
  \/ \E sid \in SessionIds : Issue(sid)
  \/ \E S \in SUBSET live : Revoke(S)

Spec == Init /\ [][Next]_<<issued, live>>
=============================================================================
