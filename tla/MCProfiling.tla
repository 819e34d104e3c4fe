---------------------------- MODULE MCProfiling ----------------------------
(***************************************************************************)
(* TLC instance of MethodProfiling: enough calls to start, end, start and  *)
(* end again, with one of them too early.                                  *)
(***************************************************************************)
EXTENDS MethodProfiling
=============================================================================
