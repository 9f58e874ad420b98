---------------------------- MODULE MCPjsuaSystem ----------------------------
(* Model-checking instance of PjsuaSystem: two Libs in turn, one handle  *)
(* of each kind, one URI key and port, two wrapper objects.             *)
EXTENDS PjsuaSystem

MCIds == {0}

\* States that differ only in the history lastDispatch, which no action
\* reads, have the same futures; none of this run's temporal properties
\* reads it either.
MCView == <<libVars, engCall, engAcc, engBuddy, reg, buddyByUri, obj, nObj, app,
            owner, objLib>>
=============================================================================
