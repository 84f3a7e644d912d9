----------------------- MODULE MCProgramConstruction -----------------------
(***************************************************************************)
(* A small instance: two components over three or four node ids, the       *)
(* ordinary instruction, the empty one, and a guard.                       *)
(***************************************************************************)
EXTENDS ProgramConstruction, TLC

CONSTANTS c1, c2

MCObjects == {c1, c2}
Symmetry == Permutations(MCObjects)
MCInstructions == {[gik |-> "NOP", arg |-> 0], [gik |-> "EMPTY", arg |-> 0]}
=============================================================================
