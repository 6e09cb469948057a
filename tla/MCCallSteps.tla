----------------------------- MODULE MCCallSteps -----------------------------
(* Instances of CallSteps: short programs, a small stack and narrow words. *)
EXTENDS CallSteps

Bytes(n) == <<97, n \div 256, n % 256>>    \* PUSH2 n

\* Every byte alone, and where the stack is full.
Single == {<<byte>> : byte \in 0 .. 255} \cup {<<95, 95, 95, byte>> : byte \in 0 .. 255}

Numbers == {0, 2, 3, 5, 64, 480, 512, 4096, 8192, 16384, 32768}

\* Operands of every range, for each instruction that reads them.
OnWords ==
  {Bytes(a) \o Bytes(b) \o <<op>> : a \in Numbers, b \in Numbers,
     op \in {ADD, SUB, MSTORE, MSTORE8, JUMPI, RETURN, REVERT}}
    \cup {Bytes(a) \o <<op>> : a \in Numbers, op \in {MLOAD, JUMP, BLOCKHASH, POP}}

\* A jump to each byte of what follows: JUMPDESTs as code, as data and past the end.
Jumping ==
  {<<96, dest, JUMP>> \o rest : dest \in 3 .. 8, rest \in {<<91, 0>>, <<96, 91, 91>>, <<97, 91>>}}
    \cup {<<96, cond, 96, dest, JUMPI>> \o rest :
            cond \in {0, 1}, dest \in 5 .. 9, rest \in {<<91, 0>>, <<96, 91, 91>>, <<97, 91>>}}

\* Memory that grows, and what follows from it.
Growing ==
  {<<96, a, op1, MSIZE, op2, GAS>> \o last :
     a \in {0, 31, 33}, op1 \in {MLOAD, PUSH0, ADD}, op2 \in {MLOAD, MSTORE, RETURN, POP},
     last \in {<<>>, <<MSTORE8, 243>>, <<POP, POP, CODESIZE, CODESIZE, REVERT>>}}

MCPrograms == Single \cup OnWords \cup Jumping \cup Growing
MCContext == [op \in ContextOpcodes |-> IF op = NUMBER THEN 6 ELSE op % 16]
==============================================================================
