-------------------------- MODULE MCNotifPipeline --------------------------
(* The notification pipeline, instantiated for TLC: every constant is      *)
(* given in the cfg files.                                                 *)
EXTENDS NotifPipeline
=============================================================================
