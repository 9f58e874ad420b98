------------------------- MODULE MCPjsuaRegistry -------------------------
(* Model-checking instance of PjsuaRegistry: two call ids (a call id can  *)
(* be freed and reused while a stale Call object is still registered      *)
(* under it, and CallReplaced has two calls to relate), one account id    *)
(* and one buddy id (each reusable after delete), two (user, host) keys   *)
(* and two ports, and up to three wrapper objects (an account, a stale    *)
(* call and the call or buddy that reuses an id).                          *)
EXTENDS PjsuaRegistry, TLC

MCCallIds == {0, 1}
MCAccIds == {0}
MCBuddyIds == {0}
MCPorts == {0, 5060}

\* The (user, host) keys are interchangeable model values.
MCSymmetry == Permutations(UriKeys)

\* For the refinement run: one call id, so that a stale Call object and
\* the one that reuses the id share a slot.
MCOneCallId == {0}
============================================================================
