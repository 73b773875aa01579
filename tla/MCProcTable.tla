---------------------------- MODULE MCProcTable ----------------------------
(* ProcTable on small instances: the selectors each run's programs use.    *)
EXTENDS ProcTable

AnyChild == {-1}
AnyOrOwnGroup == {-1, 0, 3}
=============================================================================
