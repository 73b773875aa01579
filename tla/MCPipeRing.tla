----------------------------- MODULE MCPipeRing -----------------------------
(* PipeRing with a creator and children that are interchangeable.           *)
EXTENDS PipeRing

Symmetry == Permutations(Procs \ {Creator})
=============================================================================
