----------------------------- MODULE MCFraming -----------------------------
(* The byte stream, instantiated for TLC: every constant is given in the   *)
(* cfg files.                                                              *)
EXTENDS Framing
=============================================================================
