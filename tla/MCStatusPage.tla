---------------------------- MODULE MCStatusPage ----------------------------
(* The dashboard's view, instantiated for TLC: every constant is given in  *)
(* the cfg files.                                                          *)
EXTENDS StatusPage
=============================================================================
