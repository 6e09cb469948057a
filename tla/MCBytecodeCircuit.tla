------------------------- MODULE MCBytecodeCircuit -------------------------
(* Values of the constants of BytecodeCircuit for TLC: a byte that pushes   *)
(* nothing, a PUSH1 and a PUSH2, written as the number of bytes they push. *)
EXTENDS BytecodeCircuit

MCBytes == 0 .. 2

MCPushSize == [b \in MCBytes |-> b]

\* An empty code; two that differ in nothing but a leading zero, which the
\* accumulator does not see; a PUSH1 whose data is a PUSH2; a PUSH2 cut short by
\* the end of the code.
MCCodes == {<<>>, <<1>>, <<0, 1>>, <<1, 2, 0>>, <<2, 1>>}

\* The right value, or the one after it.
MCClaims(n) == {n, IF n < MaxLength THEN n + 1 ELSE 0}
=============================================================================
