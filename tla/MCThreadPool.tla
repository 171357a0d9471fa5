---------------------------- MODULE MCThreadPool ----------------------------
(* ThreadPool for TLC: one submitter of each of two priorities. *)
EXTENDS ThreadPool, TLC

CONSTANTS c1, c2

MCPriority == c1 :> 0 @@ c2 :> 3

=============================================================================
