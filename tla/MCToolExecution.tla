--------------------------- MODULE MCToolExecution ---------------------------
(* A small instance of ToolExecution: two callers; a direct call and the   *)
(* call of a Task, both MUTATING, of one scope, so that either may try     *)
(* the grant of the other.                                                 *)
EXTENDS ToolExecution, TLC

CONSTANTS c1, c2

MCScopeOf == c1 :> c1 @@ c2 :> c1
MCRisk    == c1 :> "CONFIRM" @@ c2 :> "CONFIRM"
==============================================================================
