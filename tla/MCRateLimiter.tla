---------------------------- MODULE MCRateLimiter ----------------------------
(***************************************************************************)
(* RateLimiter on a few seconds.  One address is enough for the bounds,    *)
(* since an entry is never read for another address; a second one makes    *)
(* the cleanup pass work on several entries of different age at once.      *)
(***************************************************************************)
EXTENDS RateLimiter

MCClients == {"a", "b"}
MCOneClient == {"a"}
=============================================================================
