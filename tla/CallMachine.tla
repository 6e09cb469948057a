----------------------------- MODULE CallMachine -----------------------------
(***************************************************************************)
(* What the EVM does in one call: the specification that the steps of the  *)
(* EVM circuit (CallSteps) have to follow.  Contents of memory are not     *)
(* part of it.                                                             *)
(***************************************************************************)
EXTENDS Opcodes, Sequences

CONSTANTS
  StackSize,    \* words a stack may have
  WordModulus,  \* number of words
  Recent,       \* how many blocks back a block hash is known
  CallerGas,    \* gas the caller has kept to itself
  Loaded,       \* the words memory may hold
  Context       \* [ContextOpcodes -> words]

VARIABLES
  code, is_root,
  pc, stack,    \* the top of the stack comes first
  gas,
  words,        \* size of memory
  status,       \* "running", "success", "reverted" or "failed"
  after         \* gas the caller goes on with, or EndTx

vars == <<code, is_root, pc, stack, gas, words, status, after>>

Init ==
  /\ code \in Seq(0 .. 255) /\ is_root \in BOOLEAN
  /\ pc = 0 /\ stack = <<>> /\ gas \in Nat /\ words = 0
  /\ status = "running" /\ after = 0

Op == IF pc < Len(code) THEN code[pc + 1] ELSE STOP

\* Opcodes whose instructions are described here; of the others, only that they fail when
\* the stack is too small or too large for them, or the gas for their fixed cost.
Described ==
  {STOP, ADD, SUB, CODESIZE, BLOCKHASH, POP, JUMP, JUMPI, MSIZE, GAS}
    \cup MemoryOpcodes \cup ReturnOpcodes \cup ContextOpcodes \cup PushOpcodes

Between(first, last) == Op \in first .. last

Pops ==
  CASE Between(128, 143) -> Op - 127                       \* DUP
    [] Between(144, 159) -> Op - 142                       \* SWAP
    [] Between(160, 164) -> Op - 158                       \* LOG
    [] Op \in {241, 242} -> 7                              \* CALL, CALLCODE
    [] Op \in {244, 250} -> 6                              \* DELEGATECALL, STATICCALL
    [] Op \in {60, 245} -> 4                               \* EXTCODECOPY, CREATE2
    [] Op \in {8, 9, 55, 57, 62, 240} -> 3                 \* ADDMOD, the copies, CREATE
    [] Op \in {21, 25, 49, 53, 59, 63, 64, 80, 81, 84, 86, 255} -> 1
    [] Op \in ((1 .. 32) \ {8, 9, 21, 25}) \cup {82, 83, 85, 87} \cup ReturnOpcodes -> 2
    [] OTHER -> 0

Pushes ==
  CASE Between(128, 143) -> Op - 126
    [] Between(144, 159) -> Op - 142
    [] Op \in {0, 55, 57, 60, 62, 80, 82, 83, 85, 86, 87, 91, 255} \cup ReturnOpcodes
         \/ Between(160, 164) -> 0
    [] OTHER -> 1

StaticCost ==
  CASE Op \in {STOP, 10, 84, 85, 255} \cup ReturnOpcodes \/ Between(160, 250) -> 0
    [] Op = JUMPDEST -> 1
    [] Op \in (ContextOpcodes \ {SELFBALANCE}) \cup {CODESIZE, POP, 88, MSIZE, GAS, PUSH0} -> 2
    [] Op \in {2, 4, 5, 6, 7, 11, SELFBALANCE} -> 5
    [] Op \in {8, 9, JUMP} -> 8
    [] Op = JUMPI -> 10
    [] Op = BLOCKHASH -> 20
    [] Op \in {32, 49, 59, 60, 63} -> 0
    [] OTHER -> 3

Ceiling(bytes) == (bytes + 31) \div 32

\* Size of memory after the instruction.
Needed ==
  LET end == CASE Op \in {MLOAD, MSTORE} -> stack[1] + 32
               [] Op = MSTORE8 -> stack[1] + 1
               [] Op \in ReturnOpcodes /\ stack[2] # 0 -> stack[1] + stack[2]
               [] OTHER -> 0
  IN  IF Ceiling(end) > words THEN Ceiling(end) ELSE words

MemoryCost(size) == 3 * size + (size * size) \div 512

Expansion(size) == MemoryCost(size) - MemoryCost(words)

\* Where instructions start: what follows a push is data.
Starts ==
  LET starts[n \in 0 .. Len(code)] ==
        IF n = 0 THEN {0}
        ELSE starts[n - 1] \cup {p + 1 + get_push_size(code[p + 1]) :
                                   p \in {q \in starts[n - 1] : q < Len(code)}}
  IN  starts[Len(code)]

IsDestination(dest) == dest \in Starts /\ dest < Len(code) /\ code[dest + 1] = JUMPDEST

Jumps == Op = JUMP \/ (Op = JUMPI /\ stack[2] # 0)

Fails ==
  \/ Op \notin ValidOpcodes
  \/ Len(stack) < Pops
  \/ Len(stack) - Pops + Pushes > StackSize
  \/ gas < StaticCost + Expansion(Needed)
  \/ Jumps /\ ~IsDestination(stack[1])

\* The data of a push; past the end of the code it is 0.
Immediate ==
  LET word[n \in 0 .. get_push_size(Op)] ==
        IF n = 0 THEN 0
        ELSE 256 * word[n - 1] + (IF pc + n < Len(code) THEN code[pc + n + 1] ELSE 0)
  IN  word[get_push_size(Op)]

BlockHash(number) == 100 + number

Pushed ==
  CASE Op = ADD -> {(stack[1] + stack[2]) % WordModulus}
    [] Op = SUB -> {(stack[1] - stack[2] + WordModulus) % WordModulus}
    [] Op = MLOAD -> Loaded
    [] Op = MSIZE -> {32 * words}
    [] Op = GAS -> {gas - StaticCost}
    [] Op = CODESIZE -> {Len(code)}
    [] Op = BLOCKHASH ->
         {IF Context[NUMBER] - Recent <= stack[1] /\ stack[1] < Context[NUMBER]
          THEN BlockHash(stack[1]) ELSE 0}
    [] Op \in ContextOpcodes -> {Context[Op]}
    [] Op \in PushOpcodes -> {Immediate}

\* An instruction that leaves size words of memory, and pushes one of results.
ExecuteTo(size, results) ==
  /\ status = "running" /\ ~Fails /\ Op \in Described \ ({STOP} \cup ReturnOpcodes)
  /\ gas' = gas - StaticCost - Expansion(size) /\ gas' >= 0
  /\ words' = size
  /\ \E top \in IF Pushes = 1 THEN {<<v>> : v \in results} ELSE {<<>>} :
       stack' = top \o SubSeq(stack, Pops + 1, Len(stack))
  /\ pc' = IF Jumps THEN stack[1] ELSE pc + 1 + get_push_size(Op)
  /\ UNCHANGED <<code, is_root, status, after>>

Execute == ExecuteTo(Needed, Pushed)

End(how, remaining) ==
  /\ status = "running" /\ status' = how
  /\ after' = remaining + (IF is_root THEN 0 ELSE CallerGas)
  /\ UNCHANGED <<code, is_root, pc, stack, gas, words>>

Halt ==
  /\ Op \in {STOP} \cup ReturnOpcodes /\ ~Fails
  /\ End(IF Op = REVERT THEN "reverted" ELSE "success", gas - Expansion(Needed))

Fail == Fails /\ End("failed", 0)

Next == Execute \/ Halt \/ Fail

Spec == Init /\ [][Next]_vars
==============================================================================
