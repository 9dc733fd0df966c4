--------------------------- MODULE MCPpmConsumers ---------------------------
(* Model checking of PpmConsumers: tasks and CPUs as model values.           *)
EXTENDS PpmConsumers, TLC

\* Neither tasks nor CPUs are ordered anywhere in the code.
Symm == Permutations(Tasks) \cup Permutations(CPUs)
=============================================================================
