---------------------------- MODULE MCAuthService ----------------------------
(***************************************************************************)
(* Small populations for AuthService.  A password is the model value it is *)
(* compared by; two are enough for "right" and "wrong", "old" and "new".   *)
(***************************************************************************)
EXTENDS AuthService, TLC

CONSTANTS ann, root, r1, r2, old, new, s1, s2

OneUser     == {ann}
OneAdmin    == {root}
NoAdmin     == {}
TwoRequests == {r1, r2}
TwoPasswords == {old, new}
OneSession  == {s1}

ByName    == {"name"}
AnyKind   == {"name", "id"}

\* Every operation but the reset, which leaves the sessions alone; the pair whose
\* writes cross.
SerialOps    == AllOps \ {"reset"}
LoginChange  == {"login", "change"}

Interchangeable ==
  Permutations(Requests) \cup Permutations(Passwords) \cup Permutations(SessionIds)
=============================================================================
