---------------------------- MODULE MCAuthHistory ----------------------------
(***************************************************************************)
(* AuthHistory on the populations of MCAuthService.                        *)
(***************************************************************************)
EXTENDS MCAuthService, AuthHistory
=============================================================================
