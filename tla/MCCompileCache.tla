--------------------------- MODULE MCCompileCache ---------------------------
(* An instance of CompileCache for TLC. *)
EXTENDS CompileCache, TLC

\* Two sources of one size, the others of sizes of their own.
MCSizeOf == [id \in 0..MaxEdits |-> IF id <= 1 THEN 2 ELSE id + 1]

Symmetry == Permutations(Procs)
=============================================================================
