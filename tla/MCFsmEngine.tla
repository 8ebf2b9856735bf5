---------------------------- MODULE MCFsmEngine ----------------------------
(* Three tasks race for the whole exam: the client pump, the Gemini pump   *)
(* and a watchdog of one connection, or tasks of two connections.  Nothing *)
(* tells one writer from another, and every property checked is a safety   *)
(* property, so runs that differ in their names only are the same run.     *)
EXTENDS FsmEngine, TLC

Renamings == Permutations(Writers)
============================================================================
