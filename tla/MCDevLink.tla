----------------------------- MODULE MCDevLink -----------------------------
(* The session, instantiated for TLC: every constant is given in the cfg.  *)
EXTENDS DevLink
=============================================================================
