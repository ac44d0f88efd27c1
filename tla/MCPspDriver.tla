---------------------------- MODULE MCPspDriver ----------------------------
(* The PSP's driver, instantiated for TLC: every constant is given in the  *)
(* cfg files.                                                              *)
EXTENDS PspDriver
=============================================================================
