----------------------------- MODULE MCPjsuaLib -----------------------------
(* Model-checking instance of PjsuaLib: the Lib objects are the numbers   *)
(* 1..n and destroy's 400 polls are a few.                               *)
EXTENDS PjsuaLib
=============================================================================
