--------------------------- MODULE MCSettingsLoop ---------------------------
(* The settings and their reader, instantiated for TLC.                    *)
EXTENDS SettingsLoop

MCDefault == [k \in Keys |-> CHOOSE v \in Values : TRUE]
=============================================================================
