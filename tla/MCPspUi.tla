------------------------------ MODULE MCPspUi ------------------------------
(* The PSP's screen, instantiated for TLC: strings that are short, that    *)
(* fill their arrays, and that just fit or just do not.                    *)
EXTENDS Layout, TLC

CONSTANTS n1, n2, n3

MCAppLen     == n1 :> 23 @@ n2 :> 3 @@ n3 :> 1 @@ Empty :> 0
MCSummaryLen == n1 :> 51 @@ n2 :> 25 @@ n3 :> 0 @@ Empty :> 0
MCBodyLen    == n1 :> 51 @@ n2 :> 25 @@ n3 :> 1 @@ Empty :> 51
=============================================================================
