------------------------------ MODULE CallSteps ------------------------------
(***************************************************************************)
(* The steps of the EVM circuit within one call: where the next            *)
(* instruction is, the stack pointer, the gas and the size of memory, and  *)
(* how the call ends (src/zkevm_specs/evm_circuit/execution/).  A step is  *)
(* one execution state, the prover's choice; what it is bound to is only   *)
(* what that state's constraints say.  The specification it has to follow  *)
(* is CallMachine.                                                         *)
(*                                                                         *)
(* A word is a number below WordModulus, and the ranges that constraints   *)
(* check by a number of bytes are constants, in the order they have in the *)
(* code.  Memory is its size: the code compares the bytes that are read    *)
(* and written with the word, and drops the result (memory.py:29,34), so   *)
(* MLOAD may push any word of Loaded.  Words the steps write to the stack  *)
(* are cells of its pointers, as rows of the state circuit.                *)
(***************************************************************************)
EXTENDS Opcodes, Sequences, FiniteSets

CONSTANTS
  Programs,     \* the codes a call may run
  GasLimits,    \* the gas a call may start with
  CallerGas,    \* gas the caller has kept to itself
  AnyGas,       \* the values of a next step's gas_left that is not constrained
  StackSize,    \* words a stack may have (1024)
  WordModulus,  \* number of words (2^256)
  MaxWords,     \* largest number of 4 bytes, the limit of memory_word_size
  MaxAddress,   \* largest number of 5 bytes, the limit of an offset or a length in memory
  MaxU64,
  MaxLow,       \* largest number of 16 bytes, what fits in the low half of a word
  MaxOffset,    \* largest number of 31 bytes
  TwoBytes,     \* number of the numbers of two bytes
  Recent,       \* how many blocks back a block hash is known (256)
  Loaded,       \* the words memory may hold
  Context       \* the fields the context opcodes push: [ContextOpcodes -> words]

ASSUME CallStepsAssumption ==
  /\ \A program \in Programs : program \in Seq(0 .. 255)
  /\ GasLimits \subseteq Nat /\ AnyGas \subseteq Nat /\ CallerGas \in Nat
  /\ StackSize \in Nat \ {0} /\ Recent \in Nat \ {0} /\ TwoBytes \in Nat
  /\ {MaxWords, MaxAddress, MaxU64, MaxLow, MaxOffset, WordModulus} \subseteq Nat
  /\ MaxWords < MaxAddress /\ MaxAddress < MaxU64 /\ MaxU64 < MaxLow /\ MaxLow < MaxOffset
  /\ MaxOffset < WordModulus
  /\ Loaded \subseteq 0 .. WordModulus - 1
  /\ Context \in [ContextOpcodes -> 0 .. WordModulus - 1]

VARIABLES
  code, is_root,     \* the call: its bytecode, and whether it is a transaction's first
  program_counter, stack_pointer, gas_left, memory_word_size,
  cells,             \* the word last written at each stack pointer
  status,            \* "running", or how the call ended; "lost" when nothing binds what follows
  gas_after          \* gas_left of the step after the call

vars == <<code, is_root, program_counter, stack_pointer, gas_left, memory_word_size, cells,
          status, gas_after>>

Pointers == 0 .. StackSize - 1

Init ==
  /\ code \in Programs /\ is_root \in BOOLEAN
  /\ program_counter = 0 /\ stack_pointer = StackSize
  /\ gas_left \in GasLimits /\ memory_word_size = 0
  /\ cells = [pointer \in Pointers |-> 0]
  /\ status = "running" /\ gas_after = 0

-----------------------------------------------------------------------------
(* The opcode table. *)

\* Opcodes, their min_stack_pointer, and how far max_stack_pointer is below StackSize.
OPCODE_INFO_MAP ==
  {<<{STOP, JUMPDEST}, 0, 0>>,
   <<{21, 25, 49, 53, 59, 63, BLOCKHASH, MLOAD, 84}, 0, 1>>,
   <<(1 .. 7) \cup {10, 11} \cup (16 .. 20) \cup (22 .. 24) \cup (26 .. 29) \cup {32}, -1, 2>>,
   <<{8, 9}, -2, 3>>,
   <<ContextOpcodes \cup {CODESIZE, 88, MSIZE, GAS} \cup PushOpcodes, 1, 0>>,
   <<{POP, JUMP, 255}, -1, 1>>,
   <<{MSTORE, MSTORE8, 85, JUMPI} \cup ReturnOpcodes, -2, 2>>,
   <<{55, 57, 62}, -3, 3>>,
   <<{60}, -4, 4>>,
   <<{240}, -2, 3>>,
   <<{245}, -3, 4>>,
   <<{241, 242}, -6, 7>>,
   <<{244, 250}, -5, 6>>}
    \cup {<<{127 + n}, 1, n>> : n \in 1 .. 16}
    \cup {<<{143 + n}, 0, n + 1>> : n \in 1 .. 16}
    \cup {<<{160 + n}, -n - 2, n + 2>> : n \in 0 .. 4}

StackInfo == [op \in ValidOpcodes |-> CHOOSE info \in OPCODE_INFO_MAP : op \in info[1]]

min_stack_pointer(op) == StackInfo[op][2]
max_stack_pointer(op) == StackSize - StackInfo[op][3]

has_dynamic_gas(op) ==
  op \in {10, 32, 49, 55, 57, 59, 60, 62, 63, 84, 85, 255} \cup MemoryOpcodes \cup (160 .. 250)
           \cup ReturnOpcodes

constant_gas_cost ==
  [op \in ValidOpcodes |->
    IF op \in {STOP, 10, 84, 85} \cup (160 .. 164) \cup ReturnOpcodes THEN 0
    ELSE IF op = JUMPDEST THEN 1
    ELSE IF op \in (ContextOpcodes \ {SELFBALANCE})
                     \cup {CODESIZE, POP, 88, MSIZE, GAS, PUSH0} THEN 2
    ELSE IF op \in {2, 4, 5, 6, 7, 11, SELFBALANCE} THEN 5
    ELSE IF op \in {8, 9, JUMP} THEN 8
    ELSE IF op = JUMPI THEN 10
    ELSE IF op = BLOCKHASH THEN 20
    ELSE IF op = 32 THEN 30
    ELSE IF op \in {49, 59, 60, 63, 241, 242, 244, 250} THEN 100
    ELSE IF op = 255 THEN 5000
    ELSE IF op \in {240, 245} THEN 32000
    ELSE 3]

-----------------------------------------------------------------------------
(* What a step looks up. *)

\* How many bytes at a position are still data of the push before it.
push_data_left[i \in 0 .. Len(code)] ==
  IF i = 0 THEN 0
  ELSE LET left == push_data_left[i - 1]
       IN  IF left = 0 THEN get_push_size(code[i]) ELSE left - 1

is_code(index) == push_data_left[index] = 0

InCode(index) == index < Len(code)

Opcode == code[program_counter + 1]

\* The byte at index is op, and it is code: bytecode_lookup with is_code = 1.
IsCodeByte(index, op) == InCode(index) /\ is_code(index) /\ code[index + 1] = op

\* A step of an execution state that is responsible for these opcodes.
AtOpcode(opcodes) ==
  /\ status = "running"
  /\ InCode(program_counter) /\ is_code(program_counter)
  /\ Opcode \in opcodes

\* A lookup of the stack, some words below its top, has a row only for a valid pointer.
stack_pops(count) == \A n \in 0 .. count - 1 : stack_pointer + n \in Pointers

\* The word read, and the words below it.
Popped(n) == cells[stack_pointer + n - 1]

memory_gas_cost(size) == 3 * size + (size * size) \div 512

Larger(a, b) == IF a < b THEN b ELSE a

\* The words that hold some bytes; as a quotient they are checked to be of 4 bytes.
WordsOf(bytes) == (bytes + 31) \div 32

\* Faulty: memory may become smaller.
next_memory_size_last(words) == words

next_memory_size(words) == Larger(memory_word_size, words)

memory_expansion(offset, length) == IF length = 0 THEN 0 ELSE WordsOf(offset + length)

expansion_gas_cost(size) == memory_gas_cost(size) - memory_gas_cost(memory_word_size)

-----------------------------------------------------------------------------
(* Steps that stay in the call. *)

\* Pops words, pushes one word or none, and pays; memory grows to size.
step_state_transition_in_same_context(popped, pushed, next_pc, size) ==
  LET top == stack_pointer + popped - Len(pushed)
  IN  /\ stack_pointer' = top
      /\ pushed # <<>> => top \in Pointers
      /\ cells' = IF pushed = <<>> THEN cells ELSE [cells EXCEPT ![top] = pushed[1]]
      /\ gas_left' = gas_left - constant_gas_cost[Opcode] - expansion_gas_cost(size)
      /\ gas_left' >= 0
      /\ program_counter' = next_pc
      /\ memory_word_size' = size
      /\ UNCHANGED <<code, is_root, status, gas_after>>

\* The same, to the next byte and without memory.
Push(popped, word) ==
  step_state_transition_in_same_context(popped, <<word>>, program_counter + 1, memory_word_size)

add_sub ==
  /\ AtOpcode({ADD, SUB}) /\ stack_pops(2)
  /\ Push(2, IF Opcode = SUB THEN (Popped(1) - Popped(2) + WordModulus) % WordModulus
                             ELSE (Popped(1) + Popped(2)) % WordModulus)

pop ==
  /\ AtOpcode({POP}) /\ stack_pops(1)
  /\ step_state_transition_in_same_context(1, <<>>, program_counter + 1, memory_word_size)

\* Faulty: the next instruction is taken to be the last byte of the data.
push_onto_data ==
  /\ AtOpcode(PushOpcodes)
  /\ step_state_transition_in_same_context(
       0, <<0>>, program_counter + get_push_size(Opcode), memory_word_size)

\* The bytes that are not past the end of the code have to be data; padding is 0.
push ==
  /\ AtOpcode(PushOpcodes)
  /\ LET num_pushed == get_push_size(Opcode)
         code_length_left == Len(code) - program_counter - 1
         present == {i \in 1 .. num_pushed : i <= code_length_left}
         value[i \in 0 .. num_pushed] ==
           IF i = 0 THEN 0
           ELSE 256 * value[i - 1] + (IF i \in present THEN code[program_counter + i + 1] ELSE 0)
     IN  /\ \A i \in present : ~is_code(program_counter + i)
         /\ step_state_transition_in_same_context(
              0, <<value[num_pushed]>>, program_counter + 1 + num_pushed, memory_word_size)

gas == AtOpcode({GAS}) /\ Push(0, gas_left - constant_gas_cost[GAS])

msize == AtOpcode({MSIZE}) /\ Push(0, 32 * memory_word_size)

codesize == AtOpcode({CODESIZE}) /\ Push(0, Len(code))

address == AtOpcode({48}) /\ Push(0, Context[Opcode])

origin == AtOpcode({50}) /\ Push(0, Context[Opcode])

caller == AtOpcode({51}) /\ Push(0, Context[Opcode])

callvalue == AtOpcode({52}) /\ Push(0, Context[Opcode])

calldatasize == AtOpcode({54}) /\ Push(0, Context[Opcode])

gasprice == AtOpcode({58}) /\ Push(0, Context[Opcode])

returndatasize == AtOpcode({61}) /\ Push(0, Context[Opcode])

selfbalance == AtOpcode({SELFBALANCE}) /\ Push(0, Context[Opcode])

blockctx == AtOpcode(BlockOpcodes) /\ Push(0, Context[Opcode])

\* Hash of a block before this one, as the block table has it.
HistoryHash(number) == 100 + number

\* Both comparisons are range checks of what they compare, the second one of two bytes.
blockhash ==
  /\ AtOpcode({BLOCKHASH}) /\ stack_pops(1)
  /\ LET block_number == Popped(1)
         current == Context[NUMBER]
     IN  /\ block_number \in 0 .. MaxU64
         /\ current < TwoBytes /\ Recent + block_number < TwoBytes
         /\ Push(1, IF block_number < current /\ current < Recent + block_number
                    THEN HistoryHash(block_number) ELSE 0)

jump ==
  /\ AtOpcode({JUMP}) /\ stack_pops(1)
  /\ Popped(1) \in 0 .. MaxLow
  /\ IsCodeByte(Popped(1), JUMPDEST)
  /\ step_state_transition_in_same_context(1, <<>>, Popped(1), memory_word_size)

jumpi ==
  /\ AtOpcode({JUMPI}) /\ stack_pops(2)
  /\ Popped(1) \in 0 .. MaxLow
  /\ Popped(2) # 0 => IsCodeByte(Popped(1), JUMPDEST)
  /\ step_state_transition_in_same_context(
       2, <<>>, IF Popped(2) = 0 THEN program_counter + 1 ELSE Popped(1), memory_word_size)

\* memory_expansion takes an offset and a length: it is given the size of memory, and what
\* the access reaches.
memory ==
  /\ AtOpcode(MemoryOpcodes) /\ stack_pops(IF Opcode = MLOAD THEN 1 ELSE 2)
  /\ LET reach == Popped(1) + (IF Opcode = MSTORE8 THEN 1 ELSE 32)
         words == memory_expansion(memory_word_size, reach)
         size == next_memory_size(words)
     IN  /\ words \in 0 .. MaxWords
         /\ IF Opcode = MLOAD
            THEN \E word \in Loaded :
                   step_state_transition_in_same_context(1, <<word>>, program_counter + 1, size)
            ELSE step_state_transition_in_same_context(2, <<>>, program_counter + 1, size)

-----------------------------------------------------------------------------
(* Steps that end the call. *)

Ends(how) ==
  /\ status' = how
  /\ UNCHANGED <<code, is_root, program_counter, stack_pointer, gas_left, memory_word_size,
                 cells>>

\* The caller goes on with what it kept and what is given back to it.
step_state_transition_to_restored_context(gas_given_back) ==
  ~is_root /\ gas_after' = CallerGas + gas_given_back

\* After a first call the next step is EndTx; its gas_left is constrained by return_revert only.
Unbound == is_root /\ gas_after' \in AnyGas

stop ==
  /\ AtOpcode({STOP}) \/ (status = "running" /\ ~InCode(program_counter))
  /\ Ends("success")
  /\ Unbound \/ step_state_transition_to_restored_context(gas_left)

\* Nothing says that the opcode is RETURN or REVERT: any other reverts too.
return_revert ==
  /\ AtOpcode(0 .. 255) /\ stack_pops(2)
  /\ {Popped(1), Popped(2)} \subseteq 0 .. MaxAddress
  /\ LET words == WordsOf(Popped(1) + Popped(2))
     IN  /\ words \in 0 .. MaxWords
         /\ \/ is_root /\ gas_after' = gas_left
            \/ step_state_transition_to_restored_context(
                 gas_left - expansion_gas_cost(next_memory_size(words)))
  /\ Ends(IF Opcode = RETURN THEN "success" ELSE "reverted")

constrain_error_state ==
  /\ Ends("failed")
  /\ Unbound \/ step_state_transition_to_restored_context(0)

error_invalid_opcode ==
  AtOpcode((0 .. 255) \ ValidOpcodes) /\ constrain_error_state

\* Faulty: the table takes the smallest pointer an opcode may have for one that overflows.
stack_overflow_pairs_inclusive ==
  UNION {{op} \X (0 .. min_stack_pointer(op)) :
           op \in {o \in ValidOpcodes : min_stack_pointer(o) > 0}}

stack_overflow_pairs ==
  UNION {{op} \X (0 .. min_stack_pointer(op) - 1) :
           op \in {o \in ValidOpcodes : min_stack_pointer(o) > 0}}

\* Faulty: the table starts a pointer later.
stack_underflow_pairs_late ==
  UNION {{op} \X {pointer + 1 : pointer \in max_stack_pointer(op) + 1 .. StackSize - 1} :
           op \in {o \in ValidOpcodes : max_stack_pointer(o) < StackSize}}

stack_underflow_pairs ==
  UNION {{op} \X {pointer + 1 : pointer \in max_stack_pointer(op) .. StackSize - 1} :
           op \in {o \in ValidOpcodes : max_stack_pointer(o) < StackSize}}

error_stack ==
  /\ AtOpcode(ValidOpcodes)
  /\ <<Opcode, stack_pointer>> \in stack_overflow_pairs \cup stack_underflow_pairs
  /\ constrain_error_state

constant_gas_cost_pairs ==
  {<<op, constant_gas_cost[op]>> :
     op \in {o \in ValidOpcodes : ~has_dynamic_gas(o) /\ constant_gas_cost[o] > 0}}

error_oog_constant ==
  /\ AtOpcode(ValidOpcodes)
  /\ <<Opcode, constant_gas_cost[Opcode]>> \in constant_gas_cost_pairs
  /\ gas_left < constant_gas_cost[Opcode]
  /\ constrain_error_state

\* A destination past the end of the code is not followed by any constraint.
error_invalid_jump ==
  /\ AtOpcode({JUMP, JUMPI}) /\ stack_pops(IF Opcode = JUMPI THEN 2 ELSE 1)
  /\ Opcode = JUMPI => Popped(2) # 0
  /\ Popped(1) \in 0 .. MaxU64
  /\ IF InCode(Popped(1))
     THEN ~IsCodeByte(Popped(1), JUMPDEST) /\ constrain_error_state
     ELSE Ends("lost") /\ UNCHANGED gas_after

error_oog_static_memory_expansion ==
  /\ AtOpcode(MemoryOpcodes) /\ stack_pops(1)
  /\ Popped(1) \in 0 .. MaxAddress
  /\ LET words == WordsOf(Popped(1) + (IF Opcode = MSTORE8 THEN 1 ELSE 32))
     IN  /\ words \in 0 .. MaxWords
         /\ gas_left < constant_gas_cost[MLOAD] + expansion_gas_cost(next_memory_size(words))
  /\ constrain_error_state

\* The offset does not matter when the length is 0.
memory_offset_and_length ==
  Popped(2) \in 0 .. MaxAddress /\ (Popped(2) # 0 => Popped(1) \in 0 .. MaxAddress)

error_oog_dynamic_memory_expansion ==
  /\ AtOpcode(ReturnOpcodes) /\ stack_pops(2)
  /\ memory_offset_and_length
  /\ LET words == memory_expansion(Popped(1), Popped(2))
     IN  /\ words \in 0 .. MaxWords
         /\ gas_left < expansion_gas_cost(next_memory_size(words))
  /\ constrain_error_state

\* The end of an access in memory is beyond 64 bits (calc_mem_size64).
memory_size_overflows(offset, length) ==
  /\ length \in 1 .. MaxOffset
  /\ length > MaxU64 \/ offset \in MaxU64 + 1 .. MaxOffset

error_gas_uint_overflow ==
  /\ AtOpcode(MemoryOpcodes \cup ReturnOpcodes) /\ stack_pops(IF Opcode = MLOAD THEN 1 ELSE 2)
  /\ memory_size_overflows(Popped(1), IF Opcode \in ReturnOpcodes THEN Popped(2) ELSE 32)
  /\ constrain_error_state

-----------------------------------------------------------------------------
Next ==
  \/ add_sub \/ pop \/ push \/ gas \/ msize \/ codesize
  \/ address \/ origin \/ caller \/ callvalue \/ calldatasize \/ gasprice \/ returndatasize
  \/ selfbalance \/ blockctx \/ blockhash
  \/ jump \/ jumpi \/ memory
  \/ stop \/ return_revert
  \/ error_invalid_opcode \/ error_stack \/ error_oog_constant \/ error_invalid_jump
  \/ error_oog_static_memory_expansion \/ error_oog_dynamic_memory_expansion
  \/ error_gas_uint_overflow

\* A prover goes on as long as it can, and reverts only where the code says so.
Fairness == WF_vars(Next /\ (status' = "reverted" => Opcode = REVERT))

Spec == Init /\ [][Next]_vars /\ Fairness

-----------------------------------------------------------------------------
(* Properties. *)

\* The numbers that a step carries to the next one are in their ranges.
InRange ==
  /\ code \in Programs /\ program_counter \in Nat
  /\ stack_pointer \in 0 .. StackSize
  /\ gas_left \in Nat /\ memory_word_size \in 0 .. MaxWords
  /\ status \in {"running", "success", "reverted", "failed", "lost"}

\* A step of a call is at an instruction, never in the data of a push, or past the end
\* (jump.py:16, push.py:27-31), with its numbers in their ranges.
TypeOK ==
  /\ InRange
  /\ is_root \in BOOLEAN /\ gas_after \in Int
  /\ cells \in [Pointers -> 0 .. WordModulus - 1]
  /\ InCode(program_counter) => is_code(program_counter)

\* Every step that stays in the call spends gas, memory that grows or shrinks included, so
\* that a call takes no more steps than it has gas (instruction.py:378-385, 1151-1153).
GasSpent == [][status' = "running" => gas_left' < gas_left]_vars

\* The stack is what is in the cells from its pointer on.
stack == [i \in 1 .. StackSize - stack_pointer |-> cells[stack_pointer + i - 1]]

Evm == INSTANCE CallMachine WITH
         pc <- program_counter, gas <- gas_left, words <- memory_word_size, after <- gas_after

(* Where the constraints allow what the EVM does not do; each of them is a finding. *)

\* Memory of more words than the instruction needs, paid for (memory.py:20).
MemoryTooLarge ==
  /\ Evm!Op \in MemoryOpcodes /\ ~Evm!Fails
  /\ \E size \in Evm!Needed + 1 .. MaxWords : Evm!ExecuteTo(size, Evm!Pushed)

\* The hash of the oldest block that still has one is 0 (blockhash.py:17).
OldestHashMissing ==
  /\ Evm!Op = BLOCKHASH /\ ~Evm!Fails /\ stack[1] = Context[NUMBER] - Recent
  /\ Evm!ExecuteTo(memory_word_size, {0})

\* A jump past the end of the code fails, with anything after it (error_invalid_jump.py:31).
JumpIsLost == Ends("lost") /\ stack_pops(Evm!Pops) /\ Evm!Jumps /\ ~InCode(stack[1])

\* A first call that stops or fails gives any gas to EndTx (stop.py:31, instruction.py:1439).
AnyGasAfter ==
  /\ is_root /\ gas_after' \in AnyGas
  /\ Ends(IF Evm!Fails THEN "failed" ELSE "success")
  /\ Evm!Fails \/ Evm!Op = STOP

\* The memory that is returned is not paid for by a first call; by another it is even if
\* nothing is returned, and from the gas of its caller if it must (return_revert.py:121-135).
ReturnedForOther ==
  /\ Evm!Op \in ReturnOpcodes /\ stack_pops(2)
  /\ Ends(IF Evm!Op = RETURN THEN "success" ELSE "reverted")
  /\ IF is_root THEN gas_after' = gas_left
     ELSE LET size == Larger(memory_word_size, Evm!Ceiling(stack[1] + stack[2]))
          IN  gas_after' = CallerGas + gas_left - Evm!Expansion(size)

\* Any instruction can be taken for a REVERT (return_revert.py:12).
AnythingReverts == AtOpcode((0 .. 255) \ ReturnOpcodes) /\ Ends("reverted")

\* The steps of a call are those of the EVM, but for the gaps above: pc, stack, gas, memory
\* size and the way the call ends, with the gas it leaves (docs: specs/evm-proof.md).
ImplementsEvm ==
  Evm!Init /\ [][\/ Evm!Next
                 \/ MemoryTooLarge \/ OldestHashMissing \/ JumpIsLost
                 \/ AnyGasAfter \/ ReturnedForOther \/ AnythingReverts]_(Evm!vars)

(* Where the constraints allow nothing. *)

\* No execution state is implemented for them here (execution/__init__.py:86-171).
NoState == Evm!Op \in (ValidOpcodes \ Evm!Described) /\ ~Evm!Fails

\* The gas is enough for the memory an instruction needs, and not for what is charged.
Overcharged ==
  /\ Evm!Op \in MemoryOpcodes /\ ~Evm!Fails
  /\ gas_left < 3 + expansion_gas_cost(
                      WordsOf(memory_word_size + Popped(1) + (IF Evm!Op = MSTORE8 THEN 1 ELSE 32)))

\* An access that ends past MaxWords words, and still within 64 bits: no error state takes it.
EndBetween ==
  /\ Evm!Op \in MemoryOpcodes \cup ReturnOpcodes /\ stack_pops(Evm!Pops)
  /\ LET length == CASE Evm!Op = MSTORE8 -> 1
                     [] Evm!Op \in ReturnOpcodes -> Popped(2)
                     [] OTHER -> 32
     IN  Popped(1) + length > 32 * MaxWords /\ ~memory_size_overflows(Popped(1), length)

NumberTooLarge ==
  Evm!Op = BLOCKHASH /\ ~Evm!Fails
    /\ (Popped(1) > MaxU64 \/ Recent + Popped(1) >= TwoBytes \/ Context[NUMBER] >= TwoBytes)

DestinationTooLarge ==
  /\ Evm!Op \in {JUMP, JUMPI} /\ stack_pops(Evm!Pops)
  /\ Popped(1) > (IF Evm!Jumps THEN MaxU64 ELSE MaxLow)

\* Every call can be proved to its end, unless it comes to an instruction for which one of
\* the range checks is too narrow or no state is implemented.
CallsEnd ==
  <>(\/ status # "running"
     \/ NoState \/ Overcharged \/ EndBetween \/ NumberTooLarge \/ DestinationTooLarge)

\* What the comment on RETURN's and REVERT's check says: a call reverts where the code says
\* REVERT.
RevertsWhenTold ==
  [][status' = "reverted" /\ status = "running" => InCode(program_counter) /\ Opcode = REVERT]_vars
==============================================================================
