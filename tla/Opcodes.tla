------------------------------- MODULE Opcodes -------------------------------
(***************************************************************************)
(* The opcodes by their bytes (src/zkevm_specs/evm_circuit/opcode.py): the *)
(* names CallSteps and CallMachine use, and the set of all of them.        *)
(***************************************************************************)
EXTENDS Integers

STOP == 0
ADD == 1
SUB == 3
NUMBER == 67
SELFBALANCE == 71
CODESIZE == 56
BLOCKHASH == 64
POP == 80
MLOAD == 81
MSTORE == 82
MSTORE8 == 83
JUMP == 86
JUMPI == 87
MSIZE == 89
GAS == 90
JUMPDEST == 91
PUSH0 == 95
PUSH32 == 127
RETURN == 243
REVERT == 253

MemoryOpcodes == {MLOAD, MSTORE, MSTORE8}
ReturnOpcodes == {RETURN, REVERT}
PushOpcodes == PUSH0 .. PUSH32

\* COINBASE, TIMESTAMP, NUMBER, PREVRANDAO, GASLIMIT, CHAINID and BASEFEE.
BlockOpcodes == (65 .. 70) \cup {72}

\* The opcodes that push a field of the block, the call, the transaction or an account:
\* ADDRESS, ORIGIN, CALLER, CALLVALUE, CALLDATASIZE, GASPRICE, RETURNDATASIZE too.
ContextOpcodes == BlockOpcodes \cup {48, 50, 51, 52, 54, 58, 61, SELFBALANCE}

ValidOpcodes ==
  (0 .. 11) \cup (16 .. 29) \cup {32} \cup (48 .. 72) \cup (80 .. 91) \cup (PUSH0 .. 164)
    \cup (240 .. 245) \cup {250, REVERT, 255}

\* Number of bytes after an opcode that are its data.
get_push_size(op) == IF op \in PushOpcodes THEN op - PUSH0 ELSE 0
==============================================================================
