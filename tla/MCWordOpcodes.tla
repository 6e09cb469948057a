---------------------------- MODULE MCWordOpcodes ----------------------------
(* Values of the constants of WordOpcodes for TLC.                          *)
EXTENDS WordOpcodes

\* Words of four bits: every pair of operands.
MCBinary ==
  [limb |-> 1, depth |-> 2, operands |-> 0 .. 15,
   opcodes |-> {"ADD", "SUB", "MUL", "DIV", "MOD", "LT", "GT", "EQ", "SLT", "SGT",
                "ISZERO", "NOT", "AND", "OR", "XOR", "BYTE", "SHL", "SHR", "SAR"}]

\* ADDMOD of chosen words and of its own results, and steps with a word below
\* their operands.
MCTernary ==
  [limb |-> 1, depth |-> 3, operands |-> {0, 1, 2, 3, 7, 8, 13, 15},
   opcodes |-> {"EQ", "ADDMOD", "ISZERO"}]

\* Words of sixteen bits in limbs of four, which shifts split: shifts around
\* the bounds of a limb, a word and a byte, and words of both signs.
MCShift ==
  [limb |-> 4, depth |-> 2,
   operands |-> (0 .. 9) \cup {12, 15, 16, 17, 255, 256, 4660, 32767, 32768, 37769, 65535},
   opcodes |-> {"SAR", "BYTE", "SLT", "LT"}]

MCSigned ==
  [limb |-> 1, depth |-> 2, operands |-> 0 .. 15, opcodes |-> {"SDIV", "SMOD"}]

MCMachines == {MCBinary, MCTernary, MCShift}
MCSignedMachines == {MCSigned}
=============================================================================
