--------------------------- MODULE CallStepsProofs ---------------------------
(***************************************************************************)
(* For every code, gas limit, size of the stack and bound of memory: the   *)
(* numbers a step hands to the next stay in their ranges, every step that  *)
(* stays in the call spends gas, each is at an instruction, with words on  *)
(* its stack, and each is a step of the EVM (CallMachine) or one of the    *)
(* gaps CallSteps lists.                                                   *)
(***************************************************************************)
EXTENDS CallSteps, WellFoundedInduction, SequenceTheorems, TLAPS

\* The opcodes that have a step which stays in the call.
Staying ==
  {ADD, SUB, POP, GAS, MSIZE, CODESIZE, BLOCKHASH, JUMP, JUMPI}
    \cup MemoryOpcodes \cup ContextOpcodes \cup PushOpcodes

\* Every opcode with such a step costs gas before its memory does.
LEMMA StayingCosts ==
  \A op \in Staying : constant_gas_cost[op] \in Nat \ {0}
<1>1. \A op \in Staying : op \in ValidOpcodes
  BY DEF Staying, ValidOpcodes, MemoryOpcodes, ContextOpcodes, BlockOpcodes, PushOpcodes,
         ADD, SUB, POP, GAS, MSIZE, CODESIZE, BLOCKHASH, JUMP, JUMPI, MLOAD, MSTORE, MSTORE8,
         SELFBALANCE, PUSH0, PUSH32, REVERT
<1>2. \A op \in Staying :
        op \notin {STOP, 10, 84, 85} \cup (160 .. 164) \cup ReturnOpcodes
  BY DEF Staying, MemoryOpcodes, ContextOpcodes, BlockOpcodes, PushOpcodes, ReturnOpcodes,
         ADD, SUB, POP, GAS, MSIZE, CODESIZE, BLOCKHASH, JUMP, JUMPI, MLOAD, MSTORE, MSTORE8,
         SELFBALANCE, PUSH0, PUSH32, RETURN, REVERT, STOP
<1>3. ASSUME NEW op \in ValidOpcodes,
             op \notin {STOP, 10, 84, 85} \cup (160 .. 164) \cup ReturnOpcodes
      PROVE  constant_gas_cost[op] \in {1, 2, 3, 5, 8, 10, 20, 30, 100, 5000, 32000}
  BY <1>3 DEF constant_gas_cost
<1>4. {1, 2, 3, 5, 8, 10, 20, 30, 100, 5000, 32000} \subseteq Nat \ {0}
  OBVIOUS
<1>. QED
  BY <1>1, <1>2, <1>3, <1>4

\* Larger memory does not cost less, the square of its size included.
LEMMA MoreMemoryCostsMore ==
  \A a, b \in Nat :
    a <= b => /\ memory_gas_cost(a) \in Nat /\ memory_gas_cost(b) \in Nat
              /\ memory_gas_cost(a) <= memory_gas_cost(b)
<1>. SUFFICES ASSUME NEW a \in Nat, NEW b \in Nat, a <= b
              PROVE  /\ memory_gas_cost(a) \in Nat /\ memory_gas_cost(b) \in Nat
                     /\ memory_gas_cost(a) <= memory_gas_cost(b)
  OBVIOUS
<1>1. a * a \in Nat /\ b * b \in Nat /\ a * a <= b * b
  OBVIOUS
<1>2. \A x, y \in Nat : x <= y => x \div 512 \in Nat /\ y \div 512 \in Nat /\ x \div 512 <= y \div 512
  OBVIOUS
<1>. QED
  BY <1>1, <1>2 DEF memory_gas_cost

\* What a step that stays in the call keeps, given what its execution state looked up.
LEMMA StaysInRange ==
  ASSUME CallStepsAssumption, InRange,
         NEW popped \in 0 .. 2, NEW pushed, pushed = <<>> \/ Len(pushed) = 1,
         NEW next_pc \in Nat, NEW size \in memory_word_size .. MaxWords,
         status = "running", Opcode \in Staying,
         stack_pops(popped),
         step_state_transition_in_same_context(popped, pushed, next_pc, size)
  PROVE  InRange' /\ gas_left' < gas_left
<1>1. stack_pointer' \in 0 .. StackSize
  <2>1. CASE pushed = <<>>
    <3>1. stack_pointer' = stack_pointer + popped
      BY <2>1 DEF step_state_transition_in_same_context, InRange
    <3>2. popped # 0 => stack_pointer + (popped - 1) \in 0 .. StackSize - 1
      <4>1. popped # 0 => popped - 1 \in 0 .. popped - 1
        OBVIOUS
      <4>. QED
        BY <4>1 DEF stack_pops, Pointers
    <3>3. StackSize \in Nat /\ stack_pointer \in 0 .. StackSize
      BY DEF InRange, CallStepsAssumption
    <3>4. CASE popped = 0
      BY <3>1, <3>3, <3>4
    <3>5. CASE popped # 0
      BY <3>1, <3>2, <3>3, <3>5
    <3>. QED
      BY <3>4, <3>5
  <2>2. CASE pushed # <<>>
    BY <2>2 DEF step_state_transition_in_same_context, Pointers, CallStepsAssumption
  <2>. QED
    BY <2>1, <2>2
<1>2. expansion_gas_cost(size) \in Nat
  <2>1. memory_word_size \in Nat /\ size \in Nat /\ memory_word_size <= size
    BY DEF InRange, CallStepsAssumption
  <2>2. /\ memory_gas_cost(memory_word_size) \in Nat /\ memory_gas_cost(size) \in Nat
        /\ memory_gas_cost(memory_word_size) <= memory_gas_cost(size)
    BY <2>1, MoreMemoryCostsMore
  <2>. QED
    BY <2>2 DEF expansion_gas_cost
<1>3. gas_left' \in Nat /\ gas_left' < gas_left
  <2>1. constant_gas_cost[Opcode] \in Nat \ {0}
    BY StayingCosts
  <2>2. /\ gas_left' = gas_left - constant_gas_cost[Opcode] - expansion_gas_cost(size)
        /\ gas_left' >= 0
    BY DEF step_state_transition_in_same_context
  <2>3. gas_left \in Nat
    BY DEF InRange
  <2>4. \A g, e \in Nat, c \in Nat \ {0} :
          g - c - e >= 0 => g - c - e \in Nat /\ g - c - e < g
    OBVIOUS
  <2>. QED
    BY <1>2, <2>1, <2>2, <2>3, <2>4
<1>. QED
  BY <1>1, <1>3
     DEF step_state_transition_in_same_context, InRange, CallStepsAssumption

\* The next size of memory is one that the range check let through, and no smaller.
LEMMA MemoryGrows ==
  ASSUME CallStepsAssumption, InRange, NEW words \in 0 .. MaxWords
  PROVE  next_memory_size(words) \in memory_word_size .. MaxWords
BY DEF CallStepsAssumption, InRange, next_memory_size, Larger

\* The end of a call leaves its numbers alone.
LEMMA EndsInRange ==
  ASSUME InRange, NEW how \in {"success", "reverted", "failed", "lost"}, Ends(how)
  PROVE  InRange' /\ status' # "running"
BY DEF InRange, Ends

\* The inductive step: every action keeps the ranges, and spends gas or ends the call.
LEMMA StepInRange ==
  ASSUME CallStepsAssumption, InRange, Next
  PROVE  InRange' /\ (status' = "running" => gas_left' < gas_left)
<1>. USE DEF Push
<1>a. memory_word_size \in memory_word_size .. MaxWords /\ program_counter + 1 \in Nat
  BY DEF InRange, CallStepsAssumption
<1>b. ASSUME NEW ops, AtOpcode(ops), ops \subseteq Staying
      PROVE  status = "running" /\ Opcode \in Staying
  BY <1>b DEF AtOpcode
\* Instructions that push one word on nothing.
<1>c. ASSUME NEW ops, AtOpcode(ops), ops \subseteq Staying, NEW word, Push(0, word)
      PROVE  InRange' /\ gas_left' < gas_left
  <2>1. stack_pops(0)
    BY DEF stack_pops
  <2>. QED
    BY <1>a, <1>b, <1>c, <2>1, StaysInRange
<1>1. CASE add_sub
  <2>1. PICK word : Push(2, word)
    BY <1>1 DEF add_sub
  <2>2. AtOpcode({ADD, SUB}) /\ stack_pops(2) /\ {ADD, SUB} \subseteq Staying
    BY <1>1 DEF add_sub, Staying
  <2>3. status = "running" /\ Opcode \in Staying
    BY <1>b, <2>1, <2>2
  <2>. QED
    BY <1>a, <2>3, <2>1, <2>2, StaysInRange
<1>2. CASE pop
  <2>1. /\ AtOpcode({POP}) /\ stack_pops(1) /\ {POP} \subseteq Staying
        /\ step_state_transition_in_same_context(1, <<>>, program_counter + 1, memory_word_size)
    BY <1>2 DEF pop, Staying
  <2>2. status = "running" /\ Opcode \in Staying
    BY <1>b, <2>1
  <2>. QED
    BY <1>a, <2>1, <2>2, StaysInRange
<1>3. CASE push
  <2>1. AtOpcode(PushOpcodes) /\ PushOpcodes \subseteq Staying
    BY <1>3 DEF push, Staying
  <2>2. PICK word : step_state_transition_in_same_context(
                      0, <<word>>, program_counter + 1 + get_push_size(Opcode), memory_word_size)
    BY <1>3 DEF push
  <2>3. get_push_size(Opcode) \in Nat
    <3>1. \A op \in 95 .. 127 : op - 95 \in Nat
      OBVIOUS
    <3>2. \A op \in PushOpcodes : get_push_size(op) \in Nat
      BY <3>1 DEF get_push_size, PushOpcodes, PUSH0, PUSH32
    <3>. QED
      BY <2>1, <3>2 DEF AtOpcode
  <2>4. program_counter + 1 + get_push_size(Opcode) \in Nat
    BY <2>3 DEF InRange
  <2>5. stack_pops(0)
    BY DEF stack_pops
  <2>6. status = "running" /\ Opcode \in Staying
    BY <1>b, <2>1, <2>2
  <2>. QED
    BY <1>a, <2>6, <2>1, <2>2, <2>4, <2>5, StaysInRange
<1>4. CASE gas
  <2>1. AtOpcode({GAS}) /\ {GAS} \subseteq Staying
    BY <1>4 DEF gas, Staying, ContextOpcodes
  <2>2. PICK word : Push(0, word)
    BY <1>4 DEF gas
  <2>. QED
    BY <1>c, <2>1, <2>2
<1>5. CASE msize
  <2>1. AtOpcode({MSIZE}) /\ {MSIZE} \subseteq Staying
    BY <1>5 DEF msize, Staying, ContextOpcodes
  <2>2. PICK word : Push(0, word)
    BY <1>5 DEF msize
  <2>. QED
    BY <1>c, <2>1, <2>2
<1>6. CASE codesize
  <2>1. AtOpcode({CODESIZE}) /\ {CODESIZE} \subseteq Staying
    BY <1>6 DEF codesize, Staying, ContextOpcodes
  <2>2. PICK word : Push(0, word)
    BY <1>6 DEF codesize
  <2>. QED
    BY <1>c, <2>1, <2>2
<1>7. CASE address
  <2>1. AtOpcode({48}) /\ {48} \subseteq Staying
    BY <1>7 DEF address, Staying, ContextOpcodes
  <2>2. PICK word : Push(0, word)
    BY <1>7 DEF address
  <2>. QED
    BY <1>c, <2>1, <2>2
<1>8. CASE origin
  <2>1. AtOpcode({50}) /\ {50} \subseteq Staying
    BY <1>8 DEF origin, Staying, ContextOpcodes
  <2>2. PICK word : Push(0, word)
    BY <1>8 DEF origin
  <2>. QED
    BY <1>c, <2>1, <2>2
<1>9. CASE caller
  <2>1. AtOpcode({51}) /\ {51} \subseteq Staying
    BY <1>9 DEF caller, Staying, ContextOpcodes
  <2>2. PICK word : Push(0, word)
    BY <1>9 DEF caller
  <2>. QED
    BY <1>c, <2>1, <2>2
<1>10. CASE callvalue
  <2>1. AtOpcode({52}) /\ {52} \subseteq Staying
    BY <1>10 DEF callvalue, Staying, ContextOpcodes
  <2>2. PICK word : Push(0, word)
    BY <1>10 DEF callvalue
  <2>. QED
    BY <1>c, <2>1, <2>2
<1>11. CASE calldatasize
  <2>1. AtOpcode({54}) /\ {54} \subseteq Staying
    BY <1>11 DEF calldatasize, Staying, ContextOpcodes
  <2>2. PICK word : Push(0, word)
    BY <1>11 DEF calldatasize
  <2>. QED
    BY <1>c, <2>1, <2>2
<1>12. CASE gasprice
  <2>1. AtOpcode({58}) /\ {58} \subseteq Staying
    BY <1>12 DEF gasprice, Staying, ContextOpcodes
  <2>2. PICK word : Push(0, word)
    BY <1>12 DEF gasprice
  <2>. QED
    BY <1>c, <2>1, <2>2
<1>13. CASE returndatasize
  <2>1. AtOpcode({61}) /\ {61} \subseteq Staying
    BY <1>13 DEF returndatasize, Staying, ContextOpcodes
  <2>2. PICK word : Push(0, word)
    BY <1>13 DEF returndatasize
  <2>. QED
    BY <1>c, <2>1, <2>2
<1>14. CASE selfbalance
  <2>1. AtOpcode({SELFBALANCE}) /\ {SELFBALANCE} \subseteq Staying
    BY <1>14 DEF selfbalance, Staying, ContextOpcodes
  <2>2. PICK word : Push(0, word)
    BY <1>14 DEF selfbalance
  <2>. QED
    BY <1>c, <2>1, <2>2
<1>15. CASE blockctx
  <2>1. AtOpcode(BlockOpcodes) /\ BlockOpcodes \subseteq Staying
    BY <1>15 DEF blockctx, Staying, ContextOpcodes
  <2>2. PICK word : Push(0, word)
    BY <1>15 DEF blockctx
  <2>. QED
    BY <1>c, <2>1, <2>2
<1>16. CASE blockhash
  <2>1. AtOpcode({BLOCKHASH}) /\ stack_pops(1) /\ {BLOCKHASH} \subseteq Staying
    BY <1>16 DEF blockhash, Staying
  <2>2. PICK word : Push(1, word)
    BY <1>16 DEF blockhash
  <2>3. status = "running" /\ Opcode \in Staying
    BY <1>b, <2>1, <2>2
  <2>. QED
    BY <1>a, <2>3, <2>1, <2>2, StaysInRange
<1>17. CASE jump
  <2>1. AtOpcode({JUMP}) /\ stack_pops(1) /\ {JUMP} \subseteq Staying
    BY <1>17 DEF jump, Staying
  <2>2. PICK dest \in 0 .. MaxLow :
          step_state_transition_in_same_context(1, <<>>, dest, memory_word_size)
    BY <1>17 DEF jump
  <2>3. status = "running" /\ Opcode \in Staying
    BY <1>b, <2>1, <2>2
  <2>. QED
    BY <1>a, <2>3, <2>1, <2>2, StaysInRange DEF CallStepsAssumption
<1>18. CASE jumpi
  <2>1. AtOpcode({JUMPI}) /\ stack_pops(2) /\ {JUMPI} \subseteq Staying
    BY <1>18 DEF jumpi, Staying
  <2>2. PICK dest \in (0 .. MaxLow) \cup {program_counter + 1} :
          step_state_transition_in_same_context(2, <<>>, dest, memory_word_size)
    BY <1>18 DEF jumpi
  <2>3. dest \in Nat
    BY <1>a DEF CallStepsAssumption
  <2>4. status = "running" /\ Opcode \in Staying
    BY <1>b, <2>1
  <2>5. 2 \in 0 .. 2 /\ memory_word_size \in memory_word_size .. MaxWords
    BY <1>a
  <2>6. stack_pops(2)
    BY <2>1
  <2>. QED
    BY <2>2, <2>3, <2>4, <2>5, <2>6, StaysInRange
<1>19. CASE memory
  <2>1. AtOpcode(MemoryOpcodes) /\ MemoryOpcodes \subseteq Staying
    BY <1>19 DEF memory, Staying
  <2>2. PICK words, popped, pushed :
          /\ words \in 0 .. MaxWords /\ popped \in 1 .. 2
          /\ stack_pops(popped)
          /\ pushed = <<>> \/ Len(pushed) = 1
          /\ step_state_transition_in_same_context(
               popped, pushed, program_counter + 1, next_memory_size(words))
    <3>. DEFINE words == memory_expansion(memory_word_size,
                           Popped(1) + (IF Opcode = MSTORE8 THEN 1 ELSE 32))
    <3>1. CASE Opcode = MLOAD
      <4>1. PICK word : step_state_transition_in_same_context(
                          1, <<word>>, program_counter + 1, next_memory_size(words))
        BY <1>19, <3>1 DEF memory
      <4>2. words \in 0 .. MaxWords /\ stack_pops(1)
        BY <1>19, <3>1 DEF memory
      <4>. QED
        BY <4>1, <4>2
    <3>2. CASE Opcode # MLOAD
      <4>1. /\ words \in 0 .. MaxWords /\ stack_pops(2)
            /\ step_state_transition_in_same_context(
                 2, <<>>, program_counter + 1, next_memory_size(words))
        BY <1>19, <3>2 DEF memory
      <4>. QED
        BY <4>1
    <3>. QED
      BY <3>1, <3>2
  <2>3. PICK size \in memory_word_size .. MaxWords : size = next_memory_size(words)
    BY <2>2, MemoryGrows
  <2>4. /\ step_state_transition_in_same_context(popped, pushed, program_counter + 1, size)
        /\ popped \in 0 .. 2
    BY <2>2, <2>3
  <2>5. status = "running" /\ Opcode \in Staying
    BY <1>b, <2>1
  <2>. QED
    BY <1>a, <2>2, <2>4, <2>5, StaysInRange
<1>20. CASE \/ stop \/ return_revert
           \/ error_invalid_opcode \/ error_stack \/ error_oog_constant \/ error_invalid_jump
           \/ error_oog_static_memory_expansion \/ error_oog_dynamic_memory_expansion
           \/ error_gas_uint_overflow
  <2>1. \E how \in {"success", "reverted", "failed", "lost"} : Ends(how)
    BY <1>20 DEF stop, return_revert, error_invalid_opcode, error_stack, error_oog_constant, error_invalid_jump, error_oog_static_memory_expansion, error_oog_dynamic_memory_expansion, error_gas_uint_overflow,
                constrain_error_state
  <2>. QED
    BY <2>1, EndsInRange
<1>. QED
  BY <1>1, <1>2, <1>3, <1>4, <1>5, <1>6, <1>7, <1>8, <1>9, <1>10, <1>11, <1>12, <1>13, <1>14,
     <1>15, <1>16, <1>17, <1>18, <1>19, <1>20 DEF Next

-----------------------------------------------------------------------------
LEMMA InitInRange ==
  ASSUME CallStepsAssumption, Init
  PROVE  InRange
<1>1. MaxWords \in Nat /\ StackSize \in Nat /\ GasLimits \subseteq Nat
  BY DEF CallStepsAssumption
<1>2. 0 \in 0 .. MaxWords /\ StackSize \in 0 .. StackSize
  BY <1>1
<1>. QED
  BY <1>1, <1>2 DEF Init, InRange

LEMMA StutterInRange ==
  ASSUME InRange, UNCHANGED vars
  PROVE  InRange'
BY DEF InRange, vars

\* The program counter, the stack pointer, the gas and the memory size of a step are in their
\* ranges in every call, whatever its code (InRange, a part of TypeOK).
THEOREM StepsInRange == Spec => []InRange
<1>1. Init => InRange
  BY InitInRange, CallStepsAssumption
<1>2. InRange /\ [Next]_vars => InRange'
  BY StepInRange, StutterInRange, CallStepsAssumption
<1>. QED
  BY <1>1, <1>2, PTL DEF Spec

\* Every step that stays in the call spends gas, so a call has no more steps than gas
\* (GasSpent).
THEOREM StepsSpendGas == Spec => GasSpent
<1>1. Init => InRange
  BY InitInRange, CallStepsAssumption
<1>2. InRange /\ [Next]_vars => InRange'
  BY StepInRange, StutterInRange, CallStepsAssumption
<1>3. InRange /\ [Next]_vars => [status' = "running" => gas_left' < gas_left]_vars
  BY StepInRange, CallStepsAssumption
<1>. QED
  BY <1>1, <1>2, <1>3, PTL DEF Spec, GasSpent

-----------------------------------------------------------------------------
(* Recursive functions on numbers.                                         *)

Less == {p \in Nat \X Nat : p[1] < p[2]}

LEMMA Least ==
  ASSUME NEW T \in SUBSET Nat, T # {}
  PROVE  \E m \in T : \A n \in T : m <= n
<1>1. IsWellFoundedOn(Less, Nat)
  BY NatLessThanWellFounded DEF OpToRel, Less
<1>2. PICK m \in T : \A n \in T : <<n, m>> \notin Less
  BY <1>1, WFMin
<1>3. \A n \in T : ~(n < m)
  BY <1>2 DEF Less
<1> QED
  BY <1>3

LEMMA Induct ==
  ASSUME NEW S, 0 \in S, \A n \in Nat : n \in S => n + 1 \in S
  PROVE  \A n \in Nat : n \in S
<1> SUFFICES ASSUME Nat \ S # {} PROVE FALSE
  OBVIOUS
<1>1. (Nat \ S) \in SUBSET Nat
  OBVIOUS
<1>2. PICK m \in Nat \ S : \A n \in Nat \ S : m <= n
  BY <1>1, Least
<1>3. m # 0 /\ m - 1 \in Nat
  BY <1>2
<1>4. m - 1 \in S
  BY <1>2, <1>3
<1> QED
  BY <1>2, <1>3, <1>4

\* g begins with z, and goes on up to n as s says.
Goes(g, z, s, n) ==
  /\ g \in [0 .. n -> Nat]
  /\ g[0] = z
  /\ \A k \in 1 .. n : g[k] = s[g[k - 1]][k]

LEMMA GoesOn ==
  ASSUME NEW n \in Nat, NEW z \in Nat, NEW s \in [Nat -> [1 .. n -> Nat]]
  PROVE  \E g : Goes(g, z, s, n)
<1> DEFINE S == {m \in Nat : m <= n => \E g : Goes(g, z, s, m)}
<1>1. 0 \in S
  <2>1. Goes([k \in 0 .. 0 |-> z], z, s, 0)
    BY DEF Goes
  <2> QED
    BY <2>1
<1>2. ASSUME NEW m \in Nat, m \in S
      PROVE  m + 1 \in S
  <2> SUFFICES ASSUME m + 1 <= n PROVE \E g : Goes(g, z, s, m + 1)
    OBVIOUS
  <2>1. PICK g : Goes(g, z, s, m)
    BY <1>2
  <2> DEFINE l == m + 1
             v == s[g[m]][l]
             h == [k \in 0 .. l |-> IF k = l THEN v ELSE g[k]]
  <2>2. l \in 1 .. n /\ l \in Nat /\ m \in 0 .. m /\ l # 0 /\ l - 1 = m /\ 0 \in 0 .. m
    OBVIOUS
  <2>3. g \in [0 .. m -> Nat] /\ g[0] = z /\ \A k \in 1 .. m : g[k] = s[g[k - 1]][k]
    BY <2>1 DEF Goes
  <2>4. v \in Nat
    BY <2>2, <2>3
  <2> HIDE DEF v
  <2>5. h \in [0 .. l -> Nat]
    BY <2>3, <2>4
  <2>6. h[l] = v /\ \A k \in 0 .. m : h[k] = g[k]
    OBVIOUS
  <2> HIDE DEF h
  <2>7. ASSUME NEW k \in 1 .. l
        PROVE  h[k] = s[h[k - 1]][k]
    <3>1. k - 1 \in 0 .. m /\ (k # l => k \in 1 .. m /\ k \in 0 .. m)
      OBVIOUS
    <3>2. CASE k = l
      BY <2>2, <2>6, <3>1, <3>2 DEF v
    <3>3. CASE k # l
      <4>1. h[k] = g[k] /\ h[k - 1] = g[k - 1] /\ g[k] = s[g[k - 1]][k]
        BY <2>3, <2>6, <3>1, <3>3
      <4> QED
        BY <4>1
    <3> QED
      BY <3>2, <3>3
  <2>8. Goes(h, z, s, l)
    BY <2>2, <2>3, <2>5, <2>6, <2>7 DEF Goes
  <2> QED
    BY <2>8
<1>3. n \in S
  <2> HIDE DEF S
  <2> QED
    BY <1>1, <1>2, Induct
<1> QED
  BY <1>3

-----------------------------------------------------------------------------
(* Where instructions are.                                                 *)

LEMMA PushSizes ==
  \A op \in 0 .. 255 : get_push_size(op) \in 0 .. 32 /\ get_push_size(op) \in Nat
<1>1. \A op \in 95 .. 127 : op - 95 \in 0 .. 32 /\ op - 95 \in Nat
  OBVIOUS
<1> QED
  BY <1>1 DEF get_push_size, PushOpcodes, PUSH0, PUSH32

LEMMA InSequence ==
  ASSUME NEW S, NEW q \in Seq(S)
  PROVE  Len(q) \in Nat /\ \A k \in 1 .. Len(q) : q[k] \in S
OBVIOUS

\* The definition defines it.
LEMMA PushDataIs ==
  ASSUME code \in Seq(0 .. 255)
  PROVE  /\ push_data_left \in [0 .. Len(code) -> Nat]
         /\ push_data_left[0] = 0
         /\ \A k \in 1 .. Len(code) :
              push_data_left[k] = IF push_data_left[k - 1] = 0 THEN get_push_size(code[k])
                                                               ELSE push_data_left[k - 1] - 1
<1> DEFINE n == Len(code)
           s == [a \in Nat |-> [k \in 1 .. n |-> IF a = 0 THEN get_push_size(code[k]) ELSE a - 1]]
           body(f, i) == IF i = 0 THEN 0
                         ELSE IF f[i - 1] = 0 THEN get_push_size(code[i]) ELSE f[i - 1] - 1
<1>1. n \in Nat /\ \A k \in 1 .. n : get_push_size(code[k]) \in Nat
  <2>1. n \in Nat /\ \A k \in 1 .. n : code[k] \in 0 .. 255
    BY InSequence
  <2>2. \A op \in 0 .. 255 : get_push_size(op) \in Nat
    BY PushSizes
  <2> HIDE DEF s, body, n
  <2> QED
    BY <2>1, <2>2
<1> HIDE DEF n
<1>2. s \in [Nat -> [1 .. n -> Nat]]
  <2>1. \A a \in Nat, k \in 1 .. n :
          (IF a = 0 THEN get_push_size(code[k]) ELSE a - 1) \in Nat
    BY <1>1
  <2> QED
    BY <2>1
<1>3. \A a \in Nat, k \in 1 .. n :
        s[a][k] = IF a = 0 THEN get_push_size(code[k]) ELSE a - 1
  OBVIOUS
<1> HIDE DEF s
<1>4. PICK g : Goes(g, 0, s, n)
  BY <1>1, <1>2, GoesOn
<1>5. g = [i \in 0 .. n |-> body(g, i)]
  <2>1. \A i \in 0 .. n : g[i] = body(g, i)
    <3> SUFFICES ASSUME NEW i \in 0 .. n PROVE g[i] = body(g, i)
      OBVIOUS
    <3>1. CASE i = 0
      BY <1>4, <3>1 DEF Goes
    <3>2. CASE i # 0
      <4>1. i \in 1 .. n /\ i - 1 \in 0 .. n
        BY <1>1, <3>2
      <4>2. g[i - 1] \in Nat /\ g[i] = s[g[i - 1]][i]
        BY <1>4, <4>1 DEF Goes
      <4> QED
        BY <1>3, <3>2, <4>1, <4>2
    <3> QED
      BY <3>1, <3>2
  <2>2. g = [i \in 0 .. n |-> g[i]]
    BY <1>4 DEF Goes
  <2> HIDE DEF body
  <2> QED
    BY <2>1, <2>2
<1>6. push_data_left = CHOOSE f : f = [i \in 0 .. n |-> body(f, i)]
  BY DEF push_data_left, n
<1>7. push_data_left = [i \in 0 .. n |-> body(push_data_left, i)]
  <2> HIDE DEF body
  <2> QED
    BY <1>5, <1>6
<1>8. \A i \in 0 .. n : push_data_left[i] = body(push_data_left, i)
  <2> HIDE DEF body
  <2> QED
    BY <1>7
<1>9. push_data_left = [i \in 0 .. n |-> push_data_left[i]]
  <2> HIDE DEF body
  <2> QED
    BY <1>7
<1>10. push_data_left[0] = 0 /\ \A k \in 1 .. n :
         push_data_left[k] = IF push_data_left[k - 1] = 0 THEN get_push_size(code[k])
                                                          ELSE push_data_left[k - 1] - 1
  <2>1. 0 \in 0 .. n /\ \A k \in 1 .. n : k \in 0 .. n /\ k # 0
    BY <1>1
  <2> QED
    BY <1>8, <2>1
<1> DEFINE S == {k \in Nat : k <= n => push_data_left[k] \in Nat}
<1>11. 0 \in S
  BY <1>10
<1>12. ASSUME NEW k \in Nat, k \in S
       PROVE  k + 1 \in S
  <2> SUFFICES ASSUME k + 1 <= n PROVE push_data_left[k + 1] \in Nat
    OBVIOUS
  <2>1. k + 1 \in 1 .. n /\ (k + 1) - 1 = k /\ push_data_left[k] \in Nat
    BY <1>1, <1>12
  <2>2. push_data_left[k + 1] = IF push_data_left[k] = 0 THEN get_push_size(code[k + 1])
                                                         ELSE push_data_left[k] - 1
    BY <1>10, <2>1
  <2>3. get_push_size(code[k + 1]) \in Nat
    BY <1>1, <2>1
  <2> QED
    BY <2>1, <2>2, <2>3
<1>13. \A k \in Nat : k \in S
  <2> HIDE DEF S
  <2> QED
    BY <1>11, <1>12, Induct
<1>14. push_data_left \in [0 .. n -> Nat]
  <2>1. \A k \in 0 .. n : push_data_left[k] \in Nat
    BY <1>1, <1>13
  <2> QED
    BY <1>9, <2>1
<1> QED
  BY <1>10, <1>14 DEF n

-----------------------------------------------------------------------------
(* What is pushed is a word.                                               *)

\* How many numbers of n bytes there are, up to the 32 of a word.
BytesHold[n \in 0 .. 32] == IF n = 0 THEN 1 ELSE 256 * BytesHold[n - 1]

LEMMA BytesHoldIs ==
  /\ BytesHold \in [0 .. 32 -> Nat] /\ BytesHold[0] = 1
  /\ \A k \in 1 .. 32 : BytesHold[k] = 256 * BytesHold[k - 1]
<1> DEFINE s == [a \in Nat |-> [k \in 1 .. 32 |-> 256 * a]]
           body(f, i) == IF i = 0 THEN 1 ELSE 256 * f[i - 1]
<1>1. s \in [Nat -> [1 .. 32 -> Nat]] /\ \A a \in Nat, k \in 1 .. 32 : s[a][k] = 256 * a
  OBVIOUS
<1> HIDE DEF s
<1>2. PICK g : Goes(g, 1, s, 32)
  BY <1>1, GoesOn
<1>3. g \in [0 .. 32 -> Nat] /\ g[0] = 1 /\ \A k \in 1 .. 32 : g[k] = 256 * g[k - 1]
  <2>1. g \in [0 .. 32 -> Nat] /\ g[0] = 1 /\ \A k \in 1 .. 32 : g[k] = s[g[k - 1]][k]
    BY <1>2 DEF Goes
  <2>2. ASSUME NEW k \in 1 .. 32
        PROVE  g[k] = 256 * g[k - 1]
    <3>1. k - 1 \in 0 .. 32
      OBVIOUS
    <3>2. g[k - 1] \in Nat
      BY <2>1, <3>1
    <3>3. s[g[k - 1]][k] = 256 * g[k - 1]
      BY <1>1, <3>2, ZenonT(60)
    <3> QED
      BY <2>1, <3>3
  <2> QED
    BY <2>1, <2>2
<1>4. g = [i \in 0 .. 32 |-> body(g, i)]
  <2>1. \A i \in 0 .. 32 : g[i] = body(g, i)
    BY <1>3
  <2>2. g = [i \in 0 .. 32 |-> g[i]]
    BY <1>3
  <2> HIDE DEF body
  <2> QED
    BY <2>1, <2>2
<1>5. BytesHold = CHOOSE f : f = [i \in 0 .. 32 |-> body(f, i)]
  BY DEF BytesHold
<1>6. BytesHold = [i \in 0 .. 32 |-> body(BytesHold, i)]
  <2> HIDE DEF body
  <2> QED
    BY <1>4, <1>5
<1> DEFINE h == BytesHold
<1>7. h = [i \in 0 .. 32 |-> body(h, i)]
  BY <1>6
<1> HIDE DEF h
<1>8. \A i \in 0 .. 32 : h[i] = body(h, i)
  <2> HIDE DEF body
  <2> QED
    BY <1>7
<1>9. h = [i \in 0 .. 32 |-> h[i]]
  <2> HIDE DEF body
  <2> QED
    BY <1>7
<1>10. h[0] = 1 /\ \A k \in 1 .. 32 : h[k] = 256 * h[k - 1]
  BY <1>8
<1> DEFINE S == {k \in Nat : k <= 32 => h[k] \in Nat}
<1>11. 0 \in S /\ \A k \in Nat : k \in S => k + 1 \in S
  <2>1. ASSUME NEW k \in Nat, k + 1 <= 32, h[k] \in Nat
        PROVE  h[k + 1] \in Nat
    <3>1. k + 1 \in 1 .. 32 /\ (k + 1) - 1 = k
      BY <2>1
    <3>2. h[k + 1] = 256 * h[k]
      BY <1>10, <3>1
    <3> QED
      BY <2>1, <3>2
  <2>2. \A k \in Nat : k + 1 <= 32 => k <= 32
    OBVIOUS
  <2> QED
    BY <1>10, <2>1, <2>2
<1>12. \A k \in Nat : k \in S
  <2> HIDE DEF S
  <2> QED
    BY <1>11, Induct
<1>13. h \in [0 .. 32 -> Nat]
  <2>1. \A k \in 0 .. 32 : h[k] \in Nat
    BY <1>12
  <2> QED
    BY <1>9, <2>1
<1> QED
  BY <1>10, <1>13 DEF h

LEMMA MoreBytesHoldMore ==
  ASSUME NEW n \in 0 .. 32
  PROVE  BytesHold[n] <= BytesHold[32]
<1> DEFINE h == BytesHold
           S == {k \in Nat : n + k <= 32 => h[n] <= h[n + k]}
<1>1. h \in [0 .. 32 -> Nat] /\ \A k \in 1 .. 32 : h[k] = 256 * h[k - 1]
  BY BytesHoldIs
<1> HIDE DEF h
<1>2. 0 \in S
  BY <1>1
<1>3. ASSUME NEW k \in Nat, k \in S
      PROVE  k + 1 \in S
  <2> SUFFICES ASSUME n + (k + 1) <= 32 PROVE h[n] <= h[n + (k + 1)]
    OBVIOUS
  <2> DEFINE l == n + (k + 1)
  <2>1. l \in 1 .. 32 /\ l - 1 = n + k /\ n + k \in 0 .. 32 /\ n + k <= 32
    OBVIOUS
  <2> HIDE DEF l
  <2>2. h[l] = 256 * h[n + k] /\ h[n + k] \in Nat /\ h[n] \in Nat
    BY <1>1, <2>1
  <2>3. h[n] <= h[n + k]
    BY <1>3, <2>1
  <2>4. h[n] <= h[l]
    BY <2>2, <2>3
  <2> QED
    BY <2>4 DEF l
<1>4. \A k \in Nat : k \in S
  <2> HIDE DEF S
  <2> QED
    BY <1>2, <1>3, Induct
<1>5. 32 - n \in S /\ n + (32 - n) = 32
  BY <1>4
<1> QED
  BY <1>5 DEF h

\* The values of a push of n bytes, of which those in present are in the code.
PushedValue(n, present) ==
  CHOOSE value : value = [i \in 0 .. n |->
    IF i = 0 THEN 0
    ELSE 256 * value[i - 1] + (IF i \in present THEN code[program_counter + i + 1] ELSE 0)]

LEMMA PushedFits ==
  ASSUME NEW n \in 0 .. 32, NEW present,
         \A i \in 1 .. n : i \in present => code[program_counter + i + 1] \in 0 .. 255
  PROVE  PushedValue(n, present)[n] \in 0 .. BytesHold[32] - 1
<1> DEFINE b == [i \in 1 .. n |-> IF i \in present THEN code[program_counter + i + 1] ELSE 0]
           s == [a \in Nat |-> [k \in 1 .. n |-> 256 * a + b[k]]]
           body(f, i) ==
             IF i = 0 THEN 0
             ELSE 256 * f[i - 1] + (IF i \in present THEN code[program_counter + i + 1] ELSE 0)
           h == PushedValue(n, present)
<1>1. n \in Nat /\ \A k \in 1 .. n : b[k] \in Nat /\ b[k] <= 255
  <2>1. \A v \in 0 .. 255 : v \in Nat /\ v <= 255
    OBVIOUS
  <2> QED
    BY <2>1, SMTT(30)
<1>2. \A f, i : i \in 1 .. n => body(f, i) = 256 * f[i - 1] + b[i]
  OBVIOUS
<1>3. \A f : body(f, 0) = 0
  OBVIOUS
<1>4. h = CHOOSE f : f = [i \in 0 .. n |-> body(f, i)]
  BY DEF PushedValue
<1> HIDE DEF b, body
<1>5. s \in [Nat -> [1 .. n -> Nat]] /\ \A a \in Nat, k \in 1 .. n : s[a][k] = 256 * a + b[k]
  <2>1. \A a \in Nat, k \in 1 .. n : 256 * a + b[k] \in Nat
    BY <1>1
  <2> QED
    BY <2>1
<1> HIDE DEF s
<1>6. PICK g : Goes(g, 0, s, n)
  BY <1>1, <1>5, GoesOn
<1>7. g \in [0 .. n -> Nat] /\ g[0] = 0 /\ \A k \in 1 .. n : g[k] = 256 * g[k - 1] + b[k]
  <2>1. g \in [0 .. n -> Nat] /\ g[0] = 0 /\ \A k \in 1 .. n : g[k] = s[g[k - 1]][k]
    BY <1>6 DEF Goes
  <2>2. ASSUME NEW k \in 1 .. n
        PROVE  g[k] = 256 * g[k - 1] + b[k]
    <3>1. k - 1 \in 0 .. n
      BY <1>1
    <3>2. g[k - 1] \in Nat
      BY <2>1, <3>1
    <3>3. s[g[k - 1]][k] = 256 * g[k - 1] + b[k]
      BY <1>5, <3>2, ZenonT(60)
    <3> QED
      BY <2>1, <3>3
  <2> QED
    BY <2>1, <2>2
<1>8. g = [i \in 0 .. n |-> body(g, i)]
  <2>1. ASSUME NEW i \in 0 .. n PROVE g[i] = body(g, i)
    <3>1. CASE i = 0
      BY <1>3, <1>7, <3>1
    <3>2. CASE i # 0
      <4>1. i \in 1 .. n
        BY <1>1, <3>2
      <4>2. body(g, i) = 256 * g[i - 1] + b[i]
        BY <1>2, <4>1
      <4> QED
        BY <1>7, <4>1, <4>2
    <3> QED
      BY <3>1, <3>2
  <2>2. g = [i \in 0 .. n |-> g[i]]
    BY <1>7
  <2> QED
    BY <2>1, <2>2
<1> HIDE DEF h
<1>9. h = [i \in 0 .. n |-> body(h, i)]
  BY <1>4, <1>8
<1>10. h[0] = 0 /\ \A k \in 1 .. n : h[k] = 256 * h[k - 1] + b[k]
  <2>1. \A i \in 0 .. n : h[i] = body(h, i)
    BY <1>9
  <2>2. 0 \in 0 .. n /\ \A k \in 1 .. n : k \in 0 .. n
    BY <1>1
  <2> QED
    BY <1>2, <1>3, <2>1, <2>2
<1> DEFINE S == {k \in Nat : k <= n => h[k] \in Nat /\ h[k] < BytesHold[k]}
<1>11. 0 \in S
  <2>1. h[0] = 0
    BY <1>10
  <2>2. BytesHold[0] = 1
    BY BytesHoldIs
  <2>3. h[0] \in Nat /\ h[0] < BytesHold[0]
    BY <2>1, <2>2
  <2> QED
    BY <2>3
<1>12. ASSUME NEW k \in Nat, k \in S
       PROVE  k + 1 \in S
  <2> SUFFICES ASSUME k + 1 <= n PROVE h[k + 1] \in Nat /\ h[k + 1] < BytesHold[k + 1]
    OBVIOUS
  <2>0. k <= n
    BY <1>1
  <2> DEFINE l == k + 1
  <2>1. l \in 1 .. n /\ l - 1 = k /\ l \in 1 .. 32 /\ k \in 0 .. 32
    BY <1>1
  <2> HIDE DEF l
  <2>2. h[l] = 256 * h[k] + b[l] /\ b[l] \in Nat /\ b[l] <= 255
    BY <1>1, <1>10, <2>1
  <2>3. BytesHold[l] = 256 * BytesHold[k] /\ BytesHold[k] \in Nat
    BY <2>1, BytesHoldIs, ZenonT(60)
  <2>4. h[k] \in Nat /\ h[k] < BytesHold[k]
    BY <1>12, <2>0
  <2>5. h[l] \in Nat /\ h[l] < BytesHold[l]
    BY <2>2, <2>3, <2>4
  <2> QED
    BY <2>5 DEF l
<1>13. n \in S
  <2> HIDE DEF S
  <2> QED
    BY <1>1, <1>11, <1>12, Induct
<1>14. BytesHold[n] \in Nat /\ BytesHold[32] \in Nat /\ BytesHold[n] <= BytesHold[32]
  <2>1. BytesHold \in [0 .. 32 -> Nat] /\ 32 \in 0 .. 32
    BY BytesHoldIs
  <2>2. BytesHold[n] <= BytesHold[32]
    BY MoreBytesHoldMore
  <2> QED
    BY <2>1, <2>2
<1>15. h[n] \in 0 .. BytesHold[32] - 1
  BY <1>13, <1>14
<1> QED
  BY <1>15 DEF h

-----------------------------------------------------------------------------
(* The types of the rest of the state.                                     *)

Words == 0 .. WordModulus - 1

\* The numbers the steps push are words: those of 32 bytes, and gas, memory in bytes, the
\* length of a code and the hashes that stand for those of blocks.
WordsFit ==
  /\ BytesHold[32] <= WordModulus
  /\ \A limit \in GasLimits : limit < WordModulus
  /\ 32 * MaxWords < WordModulus
  /\ \A program \in Programs : Len(program) < WordModulus
  /\ HistoryHash(TwoBytes) <= WordModulus

\* The gas of a call is no more than it began with.
Typed == TypeOK /\ gas_left < WordModulus

LEMMA Numbers ==
  /\ WordModulus \in Nat \ {0} /\ MaxWords \in Nat /\ StackSize \in Nat \ {0}
  /\ CallerGas \in Nat /\ AnyGas \subseteq Nat /\ TwoBytes \in Nat
  /\ MaxLow \in Nat /\ MaxU64 \in Nat
BY CallStepsAssumption DEF CallStepsAssumption

LEMMA CodeTyped ==
  ASSUME InRange
  PROVE  /\ code \in Seq(0 .. 255) /\ Len(code) \in Nat
         /\ \A k \in 1 .. Len(code) : code[k] \in 0 .. 255
<1>1. code \in Seq(0 .. 255)
  BY CallStepsAssumption DEF CallStepsAssumption, InRange
<1> QED
  BY <1>1, InSequence

\* The instruction after the one at p.
Behind(p) == p + 1 + get_push_size(code[p + 1])

\* That is one, if the code goes so far.
LEMMA BehindInstruction ==
  ASSUME code \in Seq(0 .. 255), NEW p \in Nat, p < Len(code), push_data_left[p] = 0,
         Behind(p) < Len(code)
  PROVE  push_data_left[Behind(p)] = 0
<1> DEFINE l == p + 1
           n == get_push_size(code[l])
           S == {j \in Nat : j <= n => push_data_left[l + j] = n - j}
<1>1. Len(code) \in Nat /\ l + n < Len(code) /\ \A k \in 1 .. Len(code) : code[k] \in 0 .. 255
  BY InSequence DEF Behind
<1>2. l \in 1 .. Len(code) /\ l - 1 = p /\ l \in Nat
  BY <1>1
<1>3. n \in Nat
  <2>1. code[l] \in 0 .. 255
    BY <1>1, <1>2
  <2> QED
    BY <2>1, PushSizes
<1>4. \A k \in 1 .. Len(code) :
        push_data_left[k] = IF push_data_left[k - 1] = 0 THEN get_push_size(code[k])
                                                         ELSE push_data_left[k - 1] - 1
  BY PushDataIs
<1>5. push_data_left[l] = n
  BY <1>2, <1>4
<1> HIDE DEF l, n
<1>6. 0 \in S
  <2>1. l + 0 = l /\ n - 0 = n
    BY <1>2, <1>3
  <2> QED
    BY <1>5, <2>1
<1>7. ASSUME NEW j \in Nat, j \in S
      PROVE  j + 1 \in S
  <2> SUFFICES ASSUME j + 1 <= n PROVE push_data_left[l + (j + 1)] = n - (j + 1)
    OBVIOUS
  <2> DEFINE m == l + (j + 1)
  <2>1. m \in 1 .. Len(code) /\ m - 1 = l + j /\ j <= n /\ n - j # 0
    BY <1>1, <1>2, <1>3
  <2> HIDE DEF m
  <2>2. push_data_left[l + j] = n - j
    BY <1>7, <2>1
  <2>3. push_data_left[m] = IF push_data_left[l + j] = 0 THEN get_push_size(code[m])
                                                        ELSE push_data_left[l + j] - 1
    BY <1>4, <2>1
  <2>4. push_data_left[m] = n - (j + 1)
    BY <1>3, <2>1, <2>2, <2>3
  <2> QED
    BY <2>4 DEF m
<1>8. n \in S
  <2> HIDE DEF S
  <2> QED
    BY <1>3, <1>6, <1>7, Induct
<1>9. push_data_left[l + n] = 0
  BY <1>3, <1>8
<1> QED
  BY <1>9 DEF Behind, l, n

\* After an instruction without data comes an instruction.
LEMMA NextByte ==
  ASSUME InRange, NEW ops, AtOpcode(ops), get_push_size(Opcode) = 0, InCode(program_counter + 1)
  PROVE  is_code(program_counter + 1)
<1>1. program_counter \in Nat /\ program_counter < Len(code)
      /\ push_data_left[program_counter] = 0
  BY DEF InRange, AtOpcode, is_code, InCode
<1>2. Behind(program_counter) = program_counter + 1
  BY <1>1 DEF Behind, Opcode
<1> QED
  BY <1>1, <1>2, CodeTyped, BehindInstruction DEF is_code, InCode

\* After a push and its data comes an instruction.
LEMMA BehindPush ==
  ASSUME InRange, AtOpcode(PushOpcodes),
         InCode(program_counter + 1 + get_push_size(Opcode))
  PROVE  is_code(program_counter + 1 + get_push_size(Opcode))
<1>1. program_counter \in Nat /\ program_counter < Len(code)
      /\ push_data_left[program_counter] = 0
  BY DEF InRange, AtOpcode, is_code, InCode
<1>2. Behind(program_counter) = program_counter + 1 + get_push_size(Opcode)
  BY DEF Behind, Opcode
<1> QED
  BY <1>1, <1>2, CodeTyped, BehindInstruction DEF is_code, InCode

\* Words that are looked up.
LEMMA PoppedWords ==
  ASSUME InRange, cells \in [Pointers -> Words], NEW count \in 1 .. 2, stack_pops(count),
         NEW n \in 1 .. count
  PROVE  Popped(n) \in Words /\ Popped(n) \in Nat
<1>1. stack_pointer + (n - 1) \in Pointers
  BY DEF stack_pops
<1>2. stack_pointer + n - 1 = stack_pointer + (n - 1)
  BY DEF InRange
<1>3. \A w \in Words : w \in Nat
  BY Numbers DEF Words
<1> QED
  BY <1>1, <1>2, <1>3 DEF Popped

\* A step that stays in the call, and pushes a word.
LEMMA StaysTyped ==
  ASSUME Typed, InRange', status = "running", status' = "running" => gas_left' < gas_left,
         NEW popped, NEW pushed, pushed = <<>> \/ \E w \in Words : pushed = <<w>>,
         NEW next_pc, InCode(next_pc) => is_code(next_pc), NEW size,
         step_state_transition_in_same_context(popped, pushed, next_pc, size)
  PROVE  Typed'
<1> DEFINE top == stack_pointer + popped - Len(pushed)
<1>1. /\ pushed # <<>> => top \in Pointers
      /\ cells' = IF pushed = <<>> THEN cells ELSE [cells EXCEPT ![top] = pushed[1]]
      /\ program_counter' = next_pc
      /\ code' = code /\ is_root' = is_root /\ status' = status /\ gas_after' = gas_after
  BY DEF step_state_transition_in_same_context
<1> HIDE DEF top
<1>2. cells \in [Pointers -> Words] /\ is_root \in BOOLEAN /\ gas_after \in Int
  BY DEF Typed, TypeOK, Words
<1>3. cells' \in [Pointers -> Words]
  <2>1. pushed # <<>> => pushed[1] \in Words
    OBVIOUS
  <2> QED
    BY <1>1, <1>2, <2>1
<1>4. (InCode(program_counter) => is_code(program_counter))'
  BY <1>1 DEF InCode, is_code, push_data_left
<1>5. gas_left' < WordModulus
  <2>1. gas_left' < gas_left /\ gas_left \in Nat /\ gas_left' \in Nat /\ gas_left < WordModulus
    BY <1>1 DEF Typed, TypeOK, InRange
  <2> QED
    BY <2>1, Numbers
<1> QED
  BY <1>1, <1>2, <1>3, <1>4, <1>5 DEF Typed, TypeOK, Words

\* A step that ends the call.
LEMMA EndsTyped ==
  ASSUME Typed, InRange', NEW how, Ends(how), gas_after' \in Int
  PROVE  Typed'
<1>1. (InCode(program_counter) => is_code(program_counter))'
  BY DEF Ends, InCode, is_code, push_data_left, Typed, TypeOK
<1> QED
  BY <1>1 DEF Ends, Typed, TypeOK

LEMMA Remains ==
  \A u \in Int, n \in Nat \ {0} : u % n \in 0 .. n - 1
OBVIOUS

\* Pushing a word on what is left, and going on with the next byte.
LEMMA PushTyped ==
  ASSUME Typed, InRange', status' = "running" => gas_left' < gas_left,
         NEW ops, AtOpcode(ops), get_push_size(Opcode) = 0,
         NEW popped, NEW word \in Words, Push(popped, word)
  PROVE  Typed'
<1>1. InCode(program_counter + 1) => is_code(program_counter + 1)
  BY NextByte DEF Typed, TypeOK
<1>2. status = "running"
  BY DEF AtOpcode
<1>3. \E w \in Words : <<word>> = <<w>>
  OBVIOUS
<1> QED
  BY <1>1, <1>2, <1>3, StaysTyped DEF Push

\* Opcodes without data.
LEMMA NoData ==
  \A op : op \in Staying \ PushOpcodes => get_push_size(op) = 0
BY DEF get_push_size

LEMMA Costs ==
  ASSUME InRange, NEW words \in Nat, words <= MaxWords
  PROVE  expansion_gas_cost(next_memory_size(words)) \in Int
<1>1. memory_word_size \in Nat /\ next_memory_size(words) \in Nat
      /\ memory_word_size <= next_memory_size(words)
  BY Numbers DEF InRange, next_memory_size, Larger
<1>2. /\ memory_gas_cost(memory_word_size) \in Nat
      /\ memory_gas_cost(next_memory_size(words)) \in Nat
  BY <1>1, MoreMemoryCostsMore
<1> QED
  BY <1>2 DEF expansion_gas_cost

\* Instructions that push a field.
LEMMA FieldTyped ==
  ASSUME Typed, InRange', status' = "running" => gas_left' < gas_left,
         NEW ops, AtOpcode(ops), ops \subseteq ContextOpcodes, Push(0, Context[Opcode])
  PROVE  Typed'
<1>1. Opcode \in ContextOpcodes
  BY DEF AtOpcode
<1>2. Context[Opcode] \in Words
  BY <1>1, CallStepsAssumption DEF CallStepsAssumption, Words
<1>3. get_push_size(Opcode) = 0
  BY <1>1 DEF get_push_size, ContextOpcodes, BlockOpcodes, SELFBALANCE, PushOpcodes, PUSH0, PUSH32
<1> QED
  BY <1>2, <1>3, PushTyped

LEMMA StepTyped ==
  ASSUME WordsFit, Typed, Next
  PROVE  Typed'
<1>1. InRange /\ cells \in [Pointers -> Words] /\ gas_left < WordModulus
      /\ gas_left \in Nat /\ memory_word_size \in 0 .. MaxWords /\ gas_after \in Int
      /\ code \in Programs /\ program_counter \in Nat
  BY DEF Typed, TypeOK, InRange, Words
<1>2. InRange' /\ (status' = "running" => gas_left' < gas_left)
  BY <1>1, StepInRange, CallStepsAssumption
<1>3. ASSUME NEW op \in {ADD, SUB, POP, GAS, MSIZE, CODESIZE, BLOCKHASH, JUMP, JUMPI,
                         MLOAD, MSTORE, MSTORE8}
      PROVE  get_push_size(op) = 0
  BY DEF get_push_size, PushOpcodes, PUSH0, PUSH32,
         ADD, SUB, POP, GAS, MSIZE, CODESIZE, BLOCKHASH, JUMP, JUMPI, MLOAD, MSTORE, MSTORE8
<1>4. CASE add_sub
  <2>1. AtOpcode({ADD, SUB}) /\ stack_pops(2)
    BY <1>4 DEF add_sub
  <2>2. get_push_size(Opcode) = 0
    BY <1>3, <2>1 DEF AtOpcode
  <2>3. Popped(1) \in Nat /\ Popped(2) \in Nat
    BY <1>1, <2>1, PoppedWords
  <2> DEFINE u == Popped(1) - Popped(2) + WordModulus
             v == Popped(1) + Popped(2)
  <2>4. u \in Int /\ v \in Int
    BY <2>3, Numbers
  <2>5. Push(2, IF Opcode = SUB THEN u % WordModulus ELSE v % WordModulus)
    BY <1>4 DEF add_sub
  <2> HIDE DEF u, v
  <2>6. (IF Opcode = SUB THEN u % WordModulus ELSE v % WordModulus) \in Words
    BY <2>4, Numbers, Remains DEF Words
  <2> QED
    BY <1>2, <2>1, <2>2, <2>5, <2>6, PushTyped
<1>5. CASE pop
  <2>1. AtOpcode({POP}) /\ status = "running"
        /\ step_state_transition_in_same_context(1, <<>>, program_counter + 1, memory_word_size)
    BY <1>5 DEF pop, AtOpcode
  <2>2. get_push_size(Opcode) = 0
    BY <1>3, <2>1 DEF AtOpcode
  <2>3. InCode(program_counter + 1) => is_code(program_counter + 1)
    BY <1>1, <2>1, <2>2, NextByte
  <2> QED
    BY <1>2, <2>1, <2>3, StaysTyped
<1>6. CASE push
  <2> DEFINE n == get_push_size(Opcode)
             present == {i \in 1 .. n : i <= Len(code) - program_counter - 1}
  <2>1. AtOpcode(PushOpcodes) /\ status = "running"
    BY <1>6 DEF push, AtOpcode
  <2>2. step_state_transition_in_same_context(
          0, <<PushedValue(n, present)[n]>>, program_counter + 1 + n, memory_word_size)
    BY <1>6 DEF push, PushedValue
  <2>3. n \in 0 .. 32
    <3>1. Opcode \in 0 .. 255
      BY <2>1 DEF AtOpcode, PushOpcodes, PUSH0, PUSH32
    <3> QED
      BY <3>1, PushSizes
  <2>4. \A i \in 1 .. n : i \in present => code[program_counter + i + 1] \in 0 .. 255
    <3> SUFFICES ASSUME NEW i \in 1 .. n, i \in present
                 PROVE  code[program_counter + i + 1] \in 0 .. 255
      OBVIOUS
    <3>1. i \in Nat /\ i <= Len(code) - program_counter - 1 /\ Len(code) \in Nat
      BY <1>1, CodeTyped
    <3>2. program_counter + i + 1 \in 1 .. Len(code)
      BY <1>1, <3>1
    <3> QED
      BY <1>1, <3>2, CodeTyped
  <2> HIDE DEF present
  <2>5. PushedValue(n, present)[n] \in Words
    <3>1. PushedValue(n, present)[n] \in 0 .. BytesHold[32] - 1
      BY <2>3, <2>4, PushedFits
    <3>2. BytesHold[32] \in Nat /\ BytesHold[32] <= WordModulus
      BY BytesHoldIs DEF WordsFit
    <3> HIDE DEF n
    <3> QED
      BY <3>1, <3>2, Numbers DEF Words
  <2>6. InCode(program_counter + 1 + n) => is_code(program_counter + 1 + n)
    BY <1>1, <2>1, BehindPush
  <2> HIDE DEF n
  <2>7. \E w \in Words : <<PushedValue(n, present)[n]>> = <<w>>
    BY <2>5
  <2> QED
    BY <1>2, <2>1, <2>2, <2>6, <2>7, StaysTyped
<1>7. CASE gas
  <2> DEFINE word == gas_left - constant_gas_cost[GAS]
  <2>1. AtOpcode({GAS}) /\ Push(0, word) /\ Opcode = GAS
    BY <1>7 DEF gas, AtOpcode
  <2>2. gas_left' = gas_left - constant_gas_cost[Opcode] - expansion_gas_cost(memory_word_size)
        /\ gas_left' >= 0 /\ gas_left' = gas_left'
    BY <2>1 DEF Push, step_state_transition_in_same_context
  <2>3. expansion_gas_cost(memory_word_size) = 0
    <3>1. memory_gas_cost(memory_word_size) \in Nat
      BY <1>1, Numbers, MoreMemoryCostsMore
    <3> QED
      BY <3>1 DEF expansion_gas_cost
  <2>4. constant_gas_cost[GAS] \in Nat
    BY StayingCosts DEF Staying
  <2>5. word \in Words
    BY <1>1, <2>1, <2>2, <2>3, <2>4, Numbers DEF Words
  <2>6. get_push_size(Opcode) = 0
    BY <1>3, <2>1
  <2> HIDE DEF word
  <2> QED
    BY <1>2, <2>1, <2>5, <2>6, PushTyped
<1>8. CASE msize
  <2> DEFINE word == 32 * memory_word_size
  <2>1. AtOpcode({MSIZE}) /\ Push(0, word) /\ Opcode = MSIZE
    BY <1>8 DEF msize, AtOpcode
  <2>2. word \in Words
    BY <1>1, Numbers DEF Words, WordsFit
  <2>3. get_push_size(Opcode) = 0
    BY <1>3, <2>1
  <2> HIDE DEF word
  <2> QED
    BY <1>2, <2>1, <2>2, <2>3, PushTyped
<1>9. CASE codesize
  <2>1. AtOpcode({CODESIZE}) /\ Push(0, Len(code)) /\ Opcode = CODESIZE
    BY <1>9 DEF codesize, AtOpcode
  <2>2. Len(code) \in Words
    <3>1. Len(code) \in Nat /\ Len(code) < WordModulus
      BY <1>1, CodeTyped DEF WordsFit
    <3> QED
      BY <3>1, Numbers DEF Words
  <2>3. get_push_size(Opcode) = 0
    BY <1>3, <2>1
  <2> QED
    BY <1>2, <2>1, <2>2, <2>3, PushTyped
<1>10. CASE \/ address \/ origin \/ caller \/ callvalue \/ calldatasize \/ gasprice
            \/ returndatasize \/ selfbalance \/ blockctx
  <2>1. PICK ops \in SUBSET ContextOpcodes : AtOpcode(ops) /\ Push(0, Context[Opcode])
    <3>1. /\ {48} \subseteq ContextOpcodes /\ {50} \subseteq ContextOpcodes
          /\ {51} \subseteq ContextOpcodes /\ {52} \subseteq ContextOpcodes
          /\ {54} \subseteq ContextOpcodes /\ {58} \subseteq ContextOpcodes
          /\ {61} \subseteq ContextOpcodes /\ {SELFBALANCE} \subseteq ContextOpcodes
          /\ BlockOpcodes \subseteq ContextOpcodes
      BY DEF ContextOpcodes
    <3> QED
      BY <1>10, <3>1 DEF address, origin, caller, callvalue, calldatasize, gasprice,
                         returndatasize, selfbalance, blockctx
  <2>2. ops \subseteq ContextOpcodes
    OBVIOUS
  <2> QED
    BY <1>2, <2>1, <2>2, FieldTyped
<1>11. CASE blockhash
  <2> DEFINE n == Popped(1)
             word == IF n < Context[NUMBER] /\ Context[NUMBER] < Recent + n
                     THEN HistoryHash(n) ELSE 0
  <2>1. AtOpcode({BLOCKHASH}) /\ Opcode = BLOCKHASH
    BY <1>11 DEF blockhash, AtOpcode
  <2>2. n \in 0 .. MaxU64 /\ Recent + n < TwoBytes /\ Push(1, word)
    BY <1>11 DEF blockhash
  <2>3. n \in Nat /\ Recent \in Nat
    BY <2>2, Numbers, CallStepsAssumption DEF CallStepsAssumption
  <2>4. HistoryHash(n) \in Words
    BY <2>2, <2>3, Numbers DEF HistoryHash, WordsFit, Words
  <2>5. word \in Words
    BY <2>4, Numbers DEF Words
  <2>6. get_push_size(Opcode) = 0
    BY <1>3, <2>1
  <2> HIDE DEF word
  <2> QED
    BY <1>2, <2>1, <2>2, <2>5, <2>6, PushTyped
<1>12. CASE jump
  <2>1. IsCodeByte(Popped(1), JUMPDEST) /\ status = "running"
        /\ step_state_transition_in_same_context(1, <<>>, Popped(1), memory_word_size)
    BY <1>12 DEF jump, AtOpcode
  <2>2. is_code(Popped(1))
    BY <2>1 DEF IsCodeByte
  <2> QED
    BY <1>2, <2>1, <2>2, StaysTyped
<1>13. CASE jumpi
  <2> DEFINE next_pc == IF Popped(2) = 0 THEN program_counter + 1 ELSE Popped(1)
  <2>1. AtOpcode({JUMPI}) /\ status = "running" /\ Opcode = JUMPI
        /\ (Popped(2) # 0 => IsCodeByte(Popped(1), JUMPDEST))
        /\ step_state_transition_in_same_context(2, <<>>, next_pc, memory_word_size)
    BY <1>13 DEF jumpi, AtOpcode
  <2>2. get_push_size(Opcode) = 0
    BY <1>3, <2>1
  <2>3. InCode(program_counter + 1) => is_code(program_counter + 1)
    BY <1>1, <2>1, <2>2, NextByte
  <2>4. InCode(next_pc) => is_code(next_pc)
    BY <2>1, <2>3 DEF IsCodeByte
  <2> HIDE DEF next_pc
  <2> QED
    BY <1>2, <2>1, <2>4, StaysTyped
<1>14. CASE memory
  <2>1. AtOpcode(MemoryOpcodes) /\ status = "running" /\ Opcode \in {MLOAD, MSTORE, MSTORE8}
    BY <1>14 DEF memory, AtOpcode, MemoryOpcodes
  <2>2. get_push_size(Opcode) = 0
    BY <1>3, <2>1
  <2>3. InCode(program_counter + 1) => is_code(program_counter + 1)
    BY <1>1, <2>1, <2>2, NextByte
  <2>4. PICK popped, pushed, size :
          /\ pushed = <<>> \/ \E w \in Words : pushed = <<w>>
          /\ step_state_transition_in_same_context(popped, pushed, program_counter + 1, size)
    <3>1. CASE Opcode = MLOAD
      <4>1. PICK word, size :
              /\ word \in Loaded
              /\ step_state_transition_in_same_context(1, <<word>>, program_counter + 1, size)
        BY <1>14, <3>1 DEF memory
      <4>2. word \in Words
        BY <4>1, CallStepsAssumption DEF CallStepsAssumption, Words
      <4> QED
        BY <4>1, <4>2
    <3>2. CASE Opcode # MLOAD
      BY <1>14, <3>2 DEF memory
    <3> QED
      BY <3>1, <3>2
  <2> QED
    BY <1>2, <2>1, <2>3, <2>4, StaysTyped
<1>15. \A g \in Int : CallerGas + g \in Int
  BY Numbers
<1>16. \A g \in AnyGas : g \in Int
  BY Numbers
<1>17. ASSUME NEW given \in Int,
              Unbound \/ step_state_transition_to_restored_context(given)
       PROVE  gas_after' \in Int
  BY <1>15, <1>16, <1>17 DEF Unbound, step_state_transition_to_restored_context
<1>18. CASE stop
  <2>1. gas_left \in Int
    BY <1>1
  <2> QED
    BY <1>2, <1>17, <1>18, <2>1, EndsTyped DEF stop
<1>19. CASE return_revert
  <2> DEFINE words == WordsOf(Popped(1) + Popped(2))
  <2>1. /\ words \in 0 .. MaxWords
        /\ \/ gas_after' = gas_left
           \/ step_state_transition_to_restored_context(
                gas_left - expansion_gas_cost(next_memory_size(words)))
        /\ Ends(IF Opcode = RETURN THEN "success" ELSE "reverted")
    BY <1>19 DEF return_revert
  <2> HIDE DEF words
  <2>2. expansion_gas_cost(next_memory_size(words)) \in Int
    BY <1>1, <2>1, Costs, Numbers
  <2>3. gas_left - expansion_gas_cost(next_memory_size(words)) \in Int
    BY <1>1, <2>2
  <2>4. gas_after' \in Int
    BY <1>1, <1>17, <2>1, <2>3
  <2> QED
    BY <1>2, <2>1, <2>4, EndsTyped
<1>20. ASSUME constrain_error_state
       PROVE  Typed'
  BY <1>2, <1>17, <1>20, EndsTyped DEF constrain_error_state
<1>21. CASE error_invalid_jump
  <2>1. CASE InCode(Popped(1))
    BY <1>20, <1>21, <2>1 DEF error_invalid_jump
  <2>2. CASE ~InCode(Popped(1))
    BY <1>1, <1>2, <1>21, <2>2, EndsTyped DEF error_invalid_jump
  <2> QED
    BY <2>1, <2>2
<1>22. CASE \/ error_invalid_opcode \/ error_stack \/ error_oog_constant
            \/ error_oog_static_memory_expansion \/ error_oog_dynamic_memory_expansion
            \/ error_gas_uint_overflow
  BY <1>20, <1>22 DEF error_invalid_opcode, error_stack, error_oog_constant,
                      error_oog_static_memory_expansion, error_oog_dynamic_memory_expansion,
                      error_gas_uint_overflow
<1> QED
  BY <1>4, <1>5, <1>6, <1>7, <1>8, <1>9, <1>10, <1>11, <1>12, <1>13, <1>14, <1>18, <1>19,
     <1>21, <1>22 DEF Next

LEMMA InitTyped ==
  ASSUME WordsFit, Init
  PROVE  Typed
<1>1. InRange
  BY InitInRange, CallStepsAssumption
<1>2. cells \in [Pointers -> Words]
  BY Numbers DEF Init, Words
<1>3. is_code(0)
  <2>1. push_data_left[0] = 0
    BY <1>1, CodeTyped, PushDataIs
  <2> QED
    BY <2>1 DEF is_code
<1>4. gas_left < WordModulus
  BY DEF Init, WordsFit
<1> QED
  BY <1>1, <1>2, <1>3, <1>4 DEF Init, Typed, TypeOK, Words

LEMMA StutterTyped ==
  ASSUME Typed, UNCHANGED vars
  PROVE  Typed'
<1>1. InRange'
  BY StutterInRange DEF Typed, TypeOK
<1>2. (InCode(program_counter) => is_code(program_counter))'
  BY DEF Typed, TypeOK, vars, InCode, is_code, push_data_left
<1> QED
  BY <1>1, <1>2 DEF Typed, TypeOK, vars

\* A step is at an instruction or past the end of the code, whatever the code, and all that
\* is on the stack are words (TypeOK).
THEOREM TypesHold ==
  ASSUME WordsFit
  PROVE  Spec => []TypeOK
<1>1. Init => Typed
  BY InitTyped
<1>2. Typed /\ [Next]_vars => Typed'
  BY StepTyped, StutterTyped
<1>3. Typed => TypeOK
  BY DEF Typed
<1> QED
  BY <1>1, <1>2, <1>3, PTL DEF Spec

-----------------------------------------------------------------------------
(* Where instructions start.                                               *)

\* Sets that grow step by step exist.
GoesUp(g, s, n) ==
  /\ g \in [0 .. n -> SUBSET Nat]
  /\ g[0] = {0}
  /\ \A k \in 1 .. n : g[k] = s[g[k - 1]]

LEMMA GoesUpOn ==
  ASSUME NEW n \in Nat, NEW s \in [SUBSET Nat -> SUBSET Nat]
  PROVE  \E g : GoesUp(g, s, n)
<1> DEFINE S == {m \in Nat : \E g : GoesUp(g, s, m)}
<1>1. 0 \in S
  <2>1. GoesUp([k \in 0 .. 0 |-> {0}], s, 0)
    BY DEF GoesUp
  <2> QED
    BY <2>1
<1>2. ASSUME NEW m \in Nat, m \in S
      PROVE  m + 1 \in S
  <2>1. PICK g : GoesUp(g, s, m)
    BY <1>2
  <2> DEFINE l == m + 1
             v == s[g[m]]
             h == [k \in 0 .. l |-> IF k = l THEN v ELSE g[k]]
  <2>2. l \in Nat /\ m \in 0 .. m /\ l # 0 /\ l - 1 = m /\ 0 \in 0 .. m
    OBVIOUS
  <2>3. g \in [0 .. m -> SUBSET Nat] /\ g[0] = {0} /\ \A k \in 1 .. m : g[k] = s[g[k - 1]]
    BY <2>1 DEF GoesUp
  <2>4. v \in SUBSET Nat
    BY <2>2, <2>3
  <2> HIDE DEF v
  <2>5. h \in [0 .. l -> SUBSET Nat]
    BY <2>3, <2>4
  <2>6. h[l] = v /\ \A k \in 0 .. m : h[k] = g[k]
    OBVIOUS
  <2> HIDE DEF h
  <2>7. ASSUME NEW k \in 1 .. l
        PROVE  h[k] = s[h[k - 1]]
    <3>1. k - 1 \in 0 .. m /\ (k # l => k \in 1 .. m /\ k \in 0 .. m)
      OBVIOUS
    <3>2. CASE k = l
      BY <2>2, <2>6, <3>1, <3>2 DEF v
    <3>3. CASE k # l
      <4>1. h[k] = g[k] /\ h[k - 1] = g[k - 1] /\ g[k] = s[g[k - 1]]
        BY <2>3, <2>6, <3>1, <3>3
      <4> QED
        BY <4>1
    <3> QED
      BY <3>2, <3>3
  <2>8. GoesUp(h, s, l)
    BY <2>2, <2>3, <2>5, <2>6, <2>7 DEF GoesUp
  <2> QED
    BY <2>8
<1>3. n \in S
  <2> HIDE DEF S
  <2> QED
    BY <1>1, <1>2, Induct
<1> QED
  BY <1>3

\* The instructions that follow those of a set.
Following(set) == {p + 1 + get_push_size(code[p + 1]) : p \in {q \in set : q < Len(code)}}

LEMMA StartsAre ==
  ASSUME code \in Seq(0 .. 255)
  PROVE  \E g : /\ GoesUp(g, [set \in SUBSET Nat |-> set \cup Following(set)], Len(code))
                /\ Evm!Starts = g[Len(code)]
<1> DEFINE n == Len(code)
           s == [set \in SUBSET Nat |-> set \cup Following(set)]
           body(f, i) == IF i = 0 THEN {0} ELSE f[i - 1] \cup Following(f[i - 1])
           h == CHOOSE f : f = [i \in 0 .. n |-> body(f, i)]
<1>1. n \in Nat /\ \A k \in 1 .. n : get_push_size(code[k]) \in Nat
  <2>1. n \in Nat /\ \A k \in 1 .. n : code[k] \in 0 .. 255
    BY InSequence
  <2> HIDE DEF n, body, s
  <2> QED
    BY <2>1, PushSizes
<1>2. Evm!Starts = h[n]
  BY DEF Evm!Starts, Following, Evm!get_push_size, get_push_size, Evm!PushOpcodes, PushOpcodes,
         Evm!PUSH0, PUSH0, Evm!PUSH32, PUSH32
<1> HIDE DEF n
<1>3. s \in [SUBSET Nat -> SUBSET Nat]
  <2>1. ASSUME NEW set \in SUBSET Nat PROVE set \cup Following(set) \in SUBSET Nat
    <3>1. \A p \in set : p < n => p + 1 + get_push_size(code[p + 1]) \in Nat
      BY <1>1
    <3> QED
      BY <3>1 DEF Following, n
  <2> QED
    BY <2>1
<1>4. \A set \in SUBSET Nat : s[set] = set \cup Following(set)
  OBVIOUS
<1> HIDE DEF s
<1>5. PICK g : GoesUp(g, s, n)
  BY <1>1, <1>3, GoesUpOn
<1>6. g = [i \in 0 .. n |-> body(g, i)]
  <2>1. ASSUME NEW i \in 0 .. n PROVE g[i] = body(g, i)
    <3>1. CASE i = 0
      BY <1>5, <3>1 DEF GoesUp
    <3>2. CASE i # 0
      <4>1. i \in 1 .. n /\ i - 1 \in 0 .. n
        BY <1>1, <3>2
      <4>2. g[i - 1] \in SUBSET Nat /\ g[i] = s[g[i - 1]]
        BY <1>5, <4>1 DEF GoesUp
      <4>3. g[i] = g[i - 1] \cup Following(g[i - 1])
        BY <1>4, <4>2
      <4> QED
        BY <3>2, <4>3
    <3> QED
      BY <3>1, <3>2
  <2>2. g = [i \in 0 .. n |-> g[i]]
    BY <1>5 DEF GoesUp
  <2> HIDE DEF body
  <2> QED
    BY <2>1, <2>2
<1> HIDE DEF h
<1>7. h = [i \in 0 .. n |-> body(h, i)]
  <2> HIDE DEF body
  <2> QED
    BY <1>6 DEF h
<1>8. \A i \in 0 .. n : h[i] = body(h, i)
  <2> HIDE DEF body
  <2> QED
    BY <1>7
<1> DEFINE S == {k \in Nat : k <= n => h[k] = g[k]}
<1>9. 0 \in S
  <2>1. 0 \in 0 .. n
    BY <1>1
  <2>2. h[0] = body(h, 0)
    BY <1>8, <2>1
  <2>3. h[0] = g[0]
    BY <1>5, <2>2 DEF GoesUp
  <2> QED
    BY <2>3
<1>10. ASSUME NEW k \in Nat, k \in S
       PROVE  k + 1 \in S
  <2> SUFFICES ASSUME k + 1 <= n PROVE h[k + 1] = g[k + 1]
    OBVIOUS
  <2> DEFINE l == k + 1
  <2>1. l \in 1 .. n /\ l \in 0 .. n /\ l - 1 = k /\ l # 0 /\ k \in 0 .. n /\ k <= n
    BY <1>1
  <2> HIDE DEF l
  <2>2. h[l] = h[k] \cup Following(h[k])
    BY <1>8, <2>1
  <2>3. g[l] = s[g[k]] /\ g[k] \in SUBSET Nat
    BY <1>5, <2>1 DEF GoesUp
  <2>4. g[l] = g[k] \cup Following(g[k])
    BY <1>4, <2>3
  <2>5. h[k] = g[k]
    BY <1>10, <2>1
  <2>6. h[l] = g[l]
    BY <2>2, <2>4, <2>5
  <2> QED
    BY <2>6 DEF l
<1>11. n \in S
  <2> HIDE DEF S
  <2> QED
    BY <1>1, <1>9, <1>10, Induct
<1>12. h[n] = g[n]
  BY <1>11
<1> QED
  BY <1>2, <1>5, <1>12 DEF n, s

\* What the bytecode table marks as code is where the machine's instructions start.
LEMMA CodeIsStarts ==
  ASSUME code \in Seq(0 .. 255), NEW dest \in Nat, dest < Len(code)
  PROVE  is_code(dest) <=> dest \in Evm!Starts
<1> DEFINE n == Len(code)
           left == push_data_left
           s == [set \in SUBSET Nat |-> set \cup Following(set)]
<1>1. PICK g : GoesUp(g, s, n) /\ Evm!Starts = g[n]
  BY StartsAre
<1>2. \A set \in SUBSET Nat : s[set] = set \cup Following(set)
  OBVIOUS
<1>3. n \in Nat /\ \A k \in 1 .. n : code[k] \in 0 .. 255
  BY InSequence
<1>4. left \in [0 .. n -> Nat] /\ left[0] = 0
      /\ \A k \in 1 .. n :
           left[k] = IF left[k - 1] = 0 THEN get_push_size(code[k]) ELSE left[k - 1] - 1
  BY PushDataIs
<1> HIDE DEF s
<1>5. /\ g[0] = {0} /\ \A k \in 0 .. n : g[k] \in SUBSET Nat
      /\ \A k \in 1 .. n : g[k] = g[k - 1] \cup Following(g[k - 1])
  <2>1. g \in [0 .. n -> SUBSET Nat] /\ g[0] = {0} /\ \A k \in 1 .. n : g[k] = s[g[k - 1]]
    BY <1>1 DEF GoesUp
  <2>2. \A k \in 1 .. n : k - 1 \in 0 .. n
    BY <1>3
  <2> QED
    BY <1>2, <2>1, <2>2
<1> HIDE DEF n, left
\* Every start is code.
<1> DEFINE S == {k \in Nat : k <= n => \A p \in g[k] : p < n => left[p] = 0}
<1>6. 0 \in S
  <2>1. ASSUME NEW p \in g[0] PROVE left[p] = 0
    BY <1>4, <1>5
  <2> QED
    BY <2>1
<1>7. ASSUME NEW k \in Nat, k \in S
      PROVE  k + 1 \in S
  <2> DEFINE l == k + 1
  <2> SUFFICES ASSUME l <= n, NEW p \in g[l], p < n PROVE left[p] = 0
    BY DEF l
  <2>1. l \in 1 .. n /\ l - 1 = k /\ k \in 0 .. n /\ k <= n
    BY <1>3
  <2> HIDE DEF l
  <2>2. p \in g[k] \/ p \in Following(g[k])
    BY <1>5, <2>1
  <2>3. CASE p \in g[k]
    BY <1>7, <2>1, <2>3
  <2>4. CASE p \in Following(g[k])
    <3>1. PICK q \in g[k] : q < n /\ p = Behind(q)
      BY <2>4 DEF Following, Behind, n
    <3>2. q \in Nat /\ left[q] = 0
      BY <1>5, <1>7, <2>1, <3>1
    <3> QED
      BY <3>1, <3>2, BehindInstruction DEF left, n
  <2> QED
    BY <2>2, <2>3, <2>4
<1>8. n \in S
  <2> HIDE DEF S
  <2> QED
    BY <1>3, <1>6, <1>7, Induct
\* The instruction after the data that is left starts there.
<1> DEFINE T == {k \in Nat : k <= n => k + left[k] \in g[k]}
<1>9. 0 \in T
  BY <1>4, <1>5
<1>10. ASSUME NEW k \in Nat, k \in T
       PROVE  k + 1 \in T
  <2> DEFINE l == k + 1
  <2> SUFFICES ASSUME l <= n PROVE l + left[l] \in g[l]
    BY DEF l
  <2>1. l \in 1 .. n /\ l - 1 = k /\ k \in 0 .. n /\ k <= n /\ k < n
    BY <1>3
  <2>2. g[l] = g[k] \cup Following(g[k]) /\ k + left[k] \in g[k] /\ left[k] \in Nat
    BY <1>4, <1>5, <1>10, <2>1
  <2>3. left[l] = IF left[k] = 0 THEN get_push_size(code[l]) ELSE left[k] - 1
    BY <1>4, <2>1
  <2>4. CASE left[k] = 0
    <3>1. k \in g[k] /\ k < Len(code)
      BY <2>1, <2>2, <2>4 DEF n
    <3>2. k + 1 + get_push_size(code[k + 1]) \in Following(g[k])
      BY <3>1 DEF Following
    <3> QED
      BY <2>2, <2>3, <2>4, <3>2
  <2>5. CASE left[k] # 0
    <3> HIDE DEF l, left
    <3>1. left[l] = left[k] - 1
      BY <2>3, <2>5
    <3>2. l + left[l] = k + left[k]
      BY <2>1, <2>2, <3>1
    <3> QED
      BY <2>2, <3>2
  <2> QED
    BY <2>4, <2>5
<1>11. dest \in T
  <2> HIDE DEF T
  <2> QED
    BY <1>9, <1>10, Induct
\* Starts stay.
<1> DEFINE U == {k \in Nat : dest + k <= n => g[dest] \subseteq g[dest + k]}
<1>12. 0 \in U
  OBVIOUS
<1>13. ASSUME NEW k \in Nat, k \in U
       PROVE  k + 1 \in U
  <2> DEFINE l == dest + (k + 1)
  <2> SUFFICES ASSUME l <= n PROVE g[dest] \subseteq g[l]
    BY DEF l
  <2>1. l \in 1 .. n /\ l - 1 = dest + k /\ dest + k <= n
    BY <1>3
  <2> HIDE DEF l
  <2> QED
    BY <1>5, <1>13, <2>1
<1>14. g[dest] \subseteq g[n]
  <2>1. n - dest \in Nat /\ dest + (n - dest) = n
    BY <1>3 DEF n
  <2>2. n - dest \in U
    <3> HIDE DEF U
    <3> QED
      BY <1>12, <1>13, <2>1, Induct
  <2> DEFINE d == n - dest
  <2> HIDE DEF d
  <2> QED
    BY <2>1, <2>2 DEF d
<1>15. dest < n /\ n <= n
  BY <1>3 DEF n
<1>16. ASSUME left[dest] = 0 PROVE dest \in g[n]
  <2>1. dest + left[dest] \in g[dest] /\ dest + 0 = dest
    BY <1>3, <1>11, <1>15
  <2> QED
    BY <1>14, <1>16, <2>1
<1>17. dest \in g[n] => left[dest] = 0
  BY <1>8, <1>15
<1> QED
  BY <1>1, <1>16, <1>17 DEF is_code, left

-----------------------------------------------------------------------------
(* The stack as a sequence.                                                *)

StackAt(c, pointer) == [i \in 1 .. StackSize - pointer |-> c[pointer + i - 1]]

LEMMA StackIsSequence ==
  ASSUME NEW c \in [Pointers -> Words], NEW p \in 0 .. StackSize
  PROVE  /\ StackAt(c, p) \in Seq(Words) /\ Len(StackAt(c, p)) = StackSize - p
         /\ \A i \in 1 .. StackSize - p : StackAt(c, p)[i] = c[p + i - 1]
<1> DEFINE n == StackSize - p
           s == StackAt(c, p)
<1>1. n \in Nat
  BY Numbers
<1>2. \A i \in 1 .. n : c[p + i - 1] \in Words
  <2>1. \A i \in 1 .. n : p + i - 1 \in Pointers
    BY Numbers DEF Pointers
  <2> QED
    BY <2>1
<1>3. s \in [1 .. n -> Words] /\ \A i \in 1 .. n : s[i] = c[p + i - 1]
  BY <1>2 DEF StackAt
<1> HIDE DEF s
<1>4. s \in Seq(Words) /\ Len(s) = n
  <2> HIDE DEF n
  <2> QED
    BY <1>1, <1>3
<1> QED
  BY <1>3, <1>4 DEF s

LEMMA StackBelow ==
  ASSUME NEW c \in [Pointers -> Words], NEW p \in 0 .. StackSize, NEW k \in 0 .. 2,
         p + k <= StackSize
  PROVE  LET s == StackAt(c, p)
             rest == SubSeq(s, k + 1, Len(s))
         IN  /\ rest \in Seq(Words) /\ Len(rest) = StackSize - (p + k)
             /\ \A i \in 1 .. StackSize - (p + k) : rest[i] = c[p + k + i - 1]
<1> DEFINE s == StackAt(c, p)
           l == StackSize - p
           rest == SubSeq(s, k + 1, l)
<1>1. /\ s \in Seq(Words) /\ Len(s) = l /\ l \in Nat
      /\ \A i \in 1 .. l : s[i] = c[p + i - 1]
  <2>1. l \in Nat
    BY Numbers
  <2> HIDE DEF s
  <2>2. s = StackAt(c, p)
    BY DEF s
  <2> QED
    BY <2>1, <2>2, StackIsSequence
<1>2. k + 1 \in 1 .. l + 1 /\ l - k = StackSize - (p + k) /\ l - k \in Nat
  BY Numbers
<1> HIDE DEF s, l
<1>3. rest \in Seq(Words) /\ Len(rest) = l - k
      /\ \A i \in 1 .. l - k : rest[i] = s[k + i]
  BY <1>1, <1>2
<1>4. ASSUME NEW i \in 1 .. l - k PROVE rest[i] = c[p + k + i - 1]
  <2>1. k + i \in 1 .. l /\ p + (k + i) - 1 = p + k + i - 1
    BY <1>1, <1>2
  <2> HIDE DEF rest
  <2> QED
    BY <1>1, <1>3, <2>1
<1> QED
  BY <1>1, <1>2, <1>3, <1>4 DEF s

LEMMA SameSequence ==
  ASSUME NEW S, NEW s \in Seq(S), NEW t \in Seq(S), NEW n \in Nat, Len(s) = n, Len(t) = n,
         \A i \in 1 .. n : s[i] = t[i]
  PROVE  s = t
BY SeqEqual

LEMMA StackPopped ==
  ASSUME NEW c \in [Pointers -> Words], NEW p \in 0 .. StackSize, NEW k \in 0 .. 2,
         p + k <= StackSize
  PROVE  StackAt(c, p + k)
           = <<>> \o SubSeq(StackAt(c, p), k + 1, Len(StackAt(c, p)))
<1> DEFINE s == StackAt(c, p)
           t == StackAt(c, p + k)
           n == StackSize - (p + k)
           rest == SubSeq(s, k + 1, Len(s))
<1>1. rest \in Seq(Words) /\ Len(rest) = n /\ \A i \in 1 .. n : rest[i] = c[p + k + i - 1]
  BY StackBelow
<1>2. p + k \in 0 .. StackSize /\ n \in Nat
  BY Numbers
<1>3. t \in Seq(Words) /\ Len(t) = n /\ \A i \in 1 .. n : t[i] = c[p + k + i - 1]
  BY <1>2, StackIsSequence
<1> HIDE DEF s, t, n, rest
<1>4. t = rest
  <2>1. \A i \in 1 .. n : t[i] = rest[i]
    BY <1>1, <1>3
  <2> QED
    BY <1>1, <1>2, <1>3, <2>1, SameSequence
<1>5. <<>> \o rest = rest
  BY <1>1, ConcatEmptySeq
<1> QED
  BY <1>4, <1>5 DEF s, t, rest

LEMMA StackPushed ==
  ASSUME NEW c \in [Pointers -> Words], NEW p \in 0 .. StackSize, NEW k \in 0 .. 2,
         p + k <= StackSize, NEW top \in Pointers, top = p + k - 1, NEW w \in Words
  PROVE  StackAt([c EXCEPT ![top] = w], top)
           = <<w>> \o SubSeq(StackAt(c, p), k + 1, Len(StackAt(c, p)))
<1> DEFINE s == StackAt(c, p)
           d == [c EXCEPT ![top] = w]
           t == StackAt(d, top)
           n == StackSize - top
           m == StackSize - (p + k)
           rest == SubSeq(s, k + 1, Len(s))
<1>1. rest \in Seq(Words) /\ Len(rest) = m /\ \A i \in 1 .. m : rest[i] = c[p + k + i - 1]
  BY StackBelow
<1>2. top \in 0 .. StackSize /\ m \in Nat /\ n = m + 1 /\ n \in Nat /\ top \in Nat
      /\ p + k = top + 1
  BY Numbers DEF Pointers
<1>3. /\ d \in [Pointers -> Words] /\ d[top] = w
      /\ \A q \in Pointers \ {top} : d[q] = c[q]
  OBVIOUS
<1> HIDE DEF d, n
<1>4. t \in Seq(Words) /\ Len(t) = n /\ \A i \in 1 .. n : t[i] = d[top + i - 1]
  BY <1>2, <1>3, StackIsSequence DEF n
<1>5. m = StackSize - top - 1
  BY <1>2, Numbers
<1> HIDE DEF s, t, m, rest
<1>6. <<w>> \in Seq(Words) /\ Len(<<w>>) = 1 /\ <<w>>[1] = w
  OBVIOUS
<1> DEFINE u == <<w>>
           all == u \o rest
<1> HIDE DEF u
<1>7. all \in Seq(Words) /\ Len(all) = 1 + m
      /\ \A i \in 1 .. 1 + m : all[i] = IF i <= 1 THEN u[i] ELSE rest[i - 1]
  BY <1>1, <1>6, ConcatProperties DEF u
<1> HIDE DEF all
<1>8. ASSUME NEW i \in 1 .. n PROVE t[i] = all[i]
  <2>1. t[i] = d[top + i - 1] /\ all[i] = IF i <= 1 THEN u[i] ELSE rest[i - 1]
    BY <1>2, <1>4, <1>7
  <2>2. CASE i = 1
    <3>1. top + 1 - 1 = top
      BY <1>2
    <3> QED
      BY <1>3, <1>6, <2>1, <2>2, <3>1 DEF u
  <2>3. CASE i # 1
    <3>1. i - 1 \in 1 .. m /\ ~(i <= 1) /\ p + k + (i - 1) - 1 = top + i - 1
      BY <1>2, <2>3
    <3>2. rest[i - 1] = c[top + i - 1]
      BY <1>1, <3>1
    <3>3. top + i - 1 \in Pointers \ {top}
      BY <1>2, <1>5, <3>1, Numbers DEF Pointers
    <3>4. d[top + i - 1] = c[top + i - 1]
      BY <1>3, <3>3
    <3> QED
      BY <2>1, <3>1, <3>2, <3>4
  <2> QED
    BY <2>2, <2>3
<1>9. Len(all) = n
  BY <1>2, <1>7
<1>10. t = all
  BY <1>2, <1>4, <1>7, <1>8, <1>9, SameSequence
<1> QED
  BY <1>10 DEF t, all, u, rest, s, d

-----------------------------------------------------------------------------
(* The opcode table is that of the machine.                                *)

\* The machine's opcodes are these.
Op == Evm!Op

LEMMA PopsAre ==
  /\ Op \in 128 .. 143 => Evm!Pops = Op - 127
  /\ Op \in 144 .. 159 => Evm!Pops = Op - 142
  /\ Op \in 160 .. 164 => Evm!Pops = Op - 158
  /\ Op \in {241, 242} => Evm!Pops = 7
  /\ Op \in {244, 250} => Evm!Pops = 6
  /\ Op \in {60, 245} => Evm!Pops = 4
  /\ Op \in {8, 9, 55, 57, 62, 240} => Evm!Pops = 3
  /\ Op \in ((1 .. 32) \ {8, 9, 21, 25}) \cup {82, 83, 85, 87, 243, 253} => Evm!Pops = 2
  /\ Op \in {21, 25, 49, 53, 59, 63, 64, 80, 81, 84, 86, 255} => Evm!Pops = 1
  /\ Op \in {0, 56, 91} \cup (88 .. 90) \cup (95 .. 127) \cup (65 .. 72)
               \cup {48, 50, 51, 52, 54, 58, 61} => Evm!Pops = 0
<1> DEFINE pops == Evm!Pops
<1>1. pops = Evm!Pops /\ Op = Evm!Op
  BY DEF Op
<1> HIDE DEF pops
<1>2. Evm!ReturnOpcodes = {243, 253}
  BY DEF Evm!ReturnOpcodes, Evm!RETURN, Evm!REVERT
<1>3. /\ Op \in 128 .. 143 => pops = Op - 127
      /\ Op \in 144 .. 159 => pops = Op - 142
      /\ Op \in 160 .. 164 => pops = Op - 158
      /\ Op \in {241, 242} => pops = 7
      /\ Op \in {244, 250} => pops = 6
      /\ Op \in {60, 245} => pops = 4
      /\ Op \in {8, 9, 55, 57, 62, 240} => pops = 3
      /\ Op \in ((1 .. 32) \ {8, 9, 21, 25}) \cup {82, 83, 85, 87, 243, 253} => pops = 2
      /\ Op \in {21, 25, 49, 53, 59, 63, 64, 80, 81, 84, 86, 255} => pops = 1
      /\ Op \in {0, 56, 91} \cup (88 .. 90) \cup (95 .. 127) \cup (65 .. 72)
                   \cup {48, 50, 51, 52, 54, 58, 61} => pops = 0
  BY <1>1, <1>2 DEF Evm!Pops, Evm!Between
<1> QED
  BY <1>1, <1>3

LEMMA PushesAre ==
  /\ Op \in 128 .. 143 => Evm!Pushes = Op - 126
  /\ Op \in 144 .. 159 => Evm!Pushes = Op - 142
  /\ Op \in {0, 55, 57, 60, 62, 80, 82, 83, 85, 86, 87, 91, 255, 243, 253} \cup (160 .. 164)
       => Evm!Pushes = 0
  /\ Op \in (1 .. 54) \cup {56, 58, 59, 61} \cup (63 .. 72) \cup {81, 84, 88, 89, 90}
               \cup (95 .. 127) \cup {240, 241, 242, 244, 245, 250} => Evm!Pushes = 1
<1> DEFINE pushes == Evm!Pushes
<1>1. pushes = Evm!Pushes /\ Op = Evm!Op
  BY DEF Op
<1> HIDE DEF pushes
<1>2. Evm!ReturnOpcodes = {243, 253}
  BY DEF Evm!ReturnOpcodes, Evm!RETURN, Evm!REVERT
<1>3. /\ Op \in 128 .. 143 => pushes = Op - 126
      /\ Op \in 144 .. 159 => pushes = Op - 142
      /\ Op \in {0, 55, 57, 60, 62, 80, 82, 83, 85, 86, 87, 91, 255, 243, 253} \cup (160 .. 164)
           => pushes = 0
      /\ Op \in (1 .. 54) \cup {56, 58, 59, 61} \cup (63 .. 72) \cup {81, 84, 88, 89, 90}
                   \cup (95 .. 127) \cup {240, 241, 242, 244, 245, 250} => pushes = 1
  BY <1>1, <1>2 DEF Evm!Pushes, Evm!Between
<1> QED
  BY <1>1, <1>3

LEMMA InfoIsThatOfMachine ==
  ASSUME NEW info \in OPCODE_INFO_MAP, Op \in info[1]
  PROVE  /\ info[2] = Evm!Pushes - Evm!Pops
         /\ info[3] = Evm!Pops
         /\ Evm!Pops \in Nat /\ Evm!Pushes \in Nat
<1> DEFINE Right == /\ info[2] = Evm!Pushes - Evm!Pops
                    /\ info[3] = Evm!Pops
                    /\ Evm!Pops \in Nat /\ Evm!Pushes \in Nat
<1> SUFFICES Right
  OBVIOUS
<1>1. Op \in info[1]
  OBVIOUS
<1>2. CASE info = <<{STOP, JUMPDEST}, 0, 0>>
  BY <1>1, <1>2, PopsAre, PushesAre DEF STOP, JUMPDEST
<1>3. CASE info = <<{21, 25, 49, 53, 59, 63, BLOCKHASH, MLOAD, 84}, 0, 1>>
  BY <1>1, <1>3, PopsAre, PushesAre DEF BLOCKHASH, MLOAD
<1>4. CASE info = <<(1 .. 7) \cup {10, 11} \cup (16 .. 20) \cup (22 .. 24) \cup (26 .. 29)
                      \cup {32}, -1, 2>>
  BY <1>1, <1>4, PopsAre, PushesAre
<1>5. CASE info = <<{8, 9}, -2, 3>>
  BY <1>1, <1>5, PopsAre, PushesAre
<1>6. CASE info = <<ContextOpcodes \cup {CODESIZE, 88, MSIZE, GAS} \cup PushOpcodes, 1, 0>>
  BY <1>1, <1>6, PopsAre, PushesAre DEF ContextOpcodes, BlockOpcodes, SELFBALANCE, CODESIZE,
     MSIZE, GAS, PushOpcodes, PUSH0, PUSH32
<1>7. CASE info = <<{POP, JUMP, 255}, -1, 1>>
  BY <1>1, <1>7, PopsAre, PushesAre DEF POP, JUMP
<1>8. CASE info = <<{MSTORE, MSTORE8, 85, JUMPI} \cup ReturnOpcodes, -2, 2>>
  BY <1>1, <1>8, PopsAre, PushesAre DEF MSTORE, MSTORE8, JUMPI, ReturnOpcodes, RETURN, REVERT
<1>9. CASE info = <<{55, 57, 62}, -3, 3>>
  BY <1>1, <1>9, PopsAre, PushesAre
<1>10. CASE info = <<{60}, -4, 4>>
  BY <1>1, <1>10, PopsAre, PushesAre
<1>11. CASE info = <<{240}, -2, 3>>
  BY <1>1, <1>11, PopsAre, PushesAre
<1>12. CASE info = <<{245}, -3, 4>>
  BY <1>1, <1>12, PopsAre, PushesAre
<1>13. CASE info = <<{241, 242}, -6, 7>>
  BY <1>1, <1>13, PopsAre, PushesAre
<1>14. CASE info = <<{244, 250}, -5, 6>>
  BY <1>1, <1>14, PopsAre, PushesAre
<1>15. ASSUME NEW n \in 1 .. 16, info = <<{127 + n}, 1, n>> PROVE Right
  BY <1>1, <1>15, PopsAre, PushesAre
<1>16. ASSUME NEW n \in 1 .. 16, info = <<{143 + n}, 0, n + 1>> PROVE Right
  BY <1>1, <1>16, PopsAre, PushesAre
<1>17. ASSUME NEW n \in 0 .. 4, info = <<{160 + n}, -n - 2, n + 2>> PROVE Right
  BY <1>1, <1>17, PopsAre, PushesAre
<1> HIDE DEF Right
<1> QED
  BY <1>2, <1>3, <1>4, <1>5, <1>6, <1>7, <1>8, <1>9, <1>10, <1>11, <1>12, <1>13, <1>14,
     <1>15, <1>16, <1>17 DEF OPCODE_INFO_MAP

LEMMA EveryOpcodeHasInfo ==
  ASSUME NEW op \in ValidOpcodes
  PROVE  \E info \in OPCODE_INFO_MAP : op \in info[1]
<1> DEFINE Has == \E info \in OPCODE_INFO_MAP : op \in info[1]
<1>a. ASSUME NEW info, info \in OPCODE_INFO_MAP, op \in info[1] PROVE Has
  BY <1>a
<1>1. \/ op \in {0, 91}
      \/ op \in {21, 25, 49, 53, 59, 63, 64, 81, 84}
      \/ op \in (1 .. 7) \cup {10, 11} \cup (16 .. 20) \cup (22 .. 24) \cup (26 .. 29) \cup {32}
      \/ op \in {8, 9}
      \/ op \in (65 .. 70) \cup {72, 48, 50, 51, 52, 54, 58, 61, 71, 56, 88, 89, 90} \cup (95 .. 127)
      \/ op \in {80, 86, 255}
      \/ op \in {82, 83, 85, 87, 243, 253}
      \/ op \in {55, 57, 62} \/ op = 60 \/ op = 240 \/ op = 245
      \/ op \in {241, 242} \/ op \in {244, 250}
      \/ op \in 128 .. 143 \/ op \in 144 .. 159 \/ op \in 160 .. 164
  BY DEF ValidOpcodes, PUSH0, REVERT
<1>2. CASE op \in {0, 91}
  <2> DEFINE info == <<{STOP, JUMPDEST}, 0, 0>>
  <2>1. info \in OPCODE_INFO_MAP
    BY DEF OPCODE_INFO_MAP
  <2> QED
    BY <1>2, <1>a, <2>1 DEF STOP, JUMPDEST
<1>3. CASE op \in {21, 25, 49, 53, 59, 63, 64, 81, 84}
  <2> DEFINE info == <<{21, 25, 49, 53, 59, 63, BLOCKHASH, MLOAD, 84}, 0, 1>>
  <2>1. info \in OPCODE_INFO_MAP
    BY DEF OPCODE_INFO_MAP
  <2> QED
    BY <1>3, <1>a, <2>1 DEF BLOCKHASH, MLOAD
<1>4. CASE op \in (1 .. 7) \cup {10, 11} \cup (16 .. 20) \cup (22 .. 24) \cup (26 .. 29) \cup {32}
  <2> DEFINE info == <<(1 .. 7) \cup {10, 11} \cup (16 .. 20) \cup (22 .. 24) \cup (26 .. 29)
                         \cup {32}, -1, 2>>
  <2>1. info \in OPCODE_INFO_MAP
    BY DEF OPCODE_INFO_MAP
  <2> QED
    BY <1>4, <1>a, <2>1
<1>5. CASE op \in {8, 9}
  <2> DEFINE info == <<{8, 9}, -2, 3>>
  <2>1. info \in OPCODE_INFO_MAP
    BY DEF OPCODE_INFO_MAP
  <2> QED
    BY <1>5, <1>a, <2>1
<1>6. CASE op \in (65 .. 70) \cup {72, 48, 50, 51, 52, 54, 58, 61, 71, 56, 88, 89, 90} \cup (95 .. 127)
  <2> DEFINE info == <<ContextOpcodes \cup {CODESIZE, 88, MSIZE, GAS} \cup PushOpcodes, 1, 0>>
  <2>1. info \in OPCODE_INFO_MAP
    BY DEF OPCODE_INFO_MAP
  <2> QED
    BY <1>6, <1>a, <2>1 DEF ContextOpcodes, BlockOpcodes, SELFBALANCE, CODESIZE, MSIZE, GAS,
                             PushOpcodes, PUSH0, PUSH32
<1>7. CASE op \in {80, 86, 255}
  <2> DEFINE info == <<{POP, JUMP, 255}, -1, 1>>
  <2>1. info \in OPCODE_INFO_MAP
    BY DEF OPCODE_INFO_MAP
  <2> QED
    BY <1>7, <1>a, <2>1 DEF POP, JUMP
<1>8. CASE op \in {82, 83, 85, 87, 243, 253}
  <2> DEFINE info == <<{MSTORE, MSTORE8, 85, JUMPI} \cup ReturnOpcodes, -2, 2>>
  <2>1. info \in OPCODE_INFO_MAP
    BY DEF OPCODE_INFO_MAP
  <2> QED
    BY <1>8, <1>a, <2>1 DEF MSTORE, MSTORE8, JUMPI, ReturnOpcodes, RETURN, REVERT
<1>9. CASE op \in {55, 57, 62} \/ op = 60 \/ op = 240 \/ op = 245
           \/ op \in {241, 242} \/ op \in {244, 250}
  <2>1. /\ <<{55, 57, 62}, -3, 3>> \in OPCODE_INFO_MAP /\ <<{60}, -4, 4>> \in OPCODE_INFO_MAP
        /\ <<{240}, -2, 3>> \in OPCODE_INFO_MAP /\ <<{245}, -3, 4>> \in OPCODE_INFO_MAP
        /\ <<{241, 242}, -6, 7>> \in OPCODE_INFO_MAP /\ <<{244, 250}, -5, 6>> \in OPCODE_INFO_MAP
    BY DEF OPCODE_INFO_MAP
  <2>2. /\ <<{55, 57, 62}, -3, 3>>[1] = {55, 57, 62} /\ <<{60}, -4, 4>>[1] = {60}
        /\ <<{240}, -2, 3>>[1] = {240} /\ <<{245}, -3, 4>>[1] = {245}
        /\ <<{241, 242}, -6, 7>>[1] = {241, 242} /\ <<{244, 250}, -5, 6>>[1] = {244, 250}
    OBVIOUS
  <2> QED
    BY <1>9, <1>a, <2>1, <2>2
<1>10. CASE op \in 128 .. 143
  <2> DEFINE n == op - 127
             info == <<{127 + n}, 1, n>>
  <2>1. n \in 1 .. 16 /\ 127 + n = op
    BY <1>10
  <2> HIDE DEF n
  <2>2. info \in OPCODE_INFO_MAP
    BY <2>1 DEF OPCODE_INFO_MAP
  <2>3. op \in info[1]
    BY <2>1
  <2> QED
    BY <1>a, <2>2, <2>3
<1>11. CASE op \in 144 .. 159
  <2> DEFINE n == op - 143
             info == <<{143 + n}, 0, n + 1>>
  <2>1. n \in 1 .. 16 /\ 143 + n = op
    BY <1>11
  <2> HIDE DEF n
  <2>2. info \in OPCODE_INFO_MAP
    BY <2>1 DEF OPCODE_INFO_MAP
  <2>3. op \in info[1]
    BY <2>1
  <2> QED
    BY <1>a, <2>2, <2>3
<1>12. CASE op \in 160 .. 164
  <2> DEFINE n == op - 160
             info == <<{160 + n}, -n - 2, n + 2>>
  <2>1. n \in 0 .. 4 /\ 160 + n = op
    BY <1>12
  <2> HIDE DEF n
  <2>2. info \in OPCODE_INFO_MAP
    BY <2>1 DEF OPCODE_INFO_MAP
  <2>3. op \in info[1]
    BY <2>1
  <2> QED
    BY <1>a, <2>2, <2>3
<1> HIDE DEF Has
<1> QED
  BY <1>1, <1>2, <1>3, <1>4, <1>5, <1>6, <1>7, <1>8, <1>9, <1>10, <1>11, <1>12

\* The pointers an opcode may have are those at which it finds and leaves a stack.
LEMMA StackPointersAre ==
  ASSUME Op \in ValidOpcodes
  PROVE  /\ min_stack_pointer(Op) = Evm!Pushes - Evm!Pops
         /\ max_stack_pointer(Op) = StackSize - Evm!Pops
         /\ Evm!Pops \in Nat /\ Evm!Pushes \in Nat
<1> DEFINE op == Op
           info == CHOOSE i \in OPCODE_INFO_MAP : op \in i[1]
<1>1. StackInfo[op] = info
  BY DEF StackInfo
<1>2. info \in OPCODE_INFO_MAP /\ op \in info[1]
  <2> HIDE DEF op
  <2>1. \E i \in OPCODE_INFO_MAP : op \in i[1]
    BY EveryOpcodeHasInfo DEF op
  <2> QED
    BY <2>1
<1> HIDE DEF info
<1>3. info[2] = Evm!Pushes - Evm!Pops /\ info[3] = Evm!Pops
      /\ Evm!Pops \in Nat /\ Evm!Pushes \in Nat
  BY <1>2, InfoIsThatOfMachine
<1> QED
  BY <1>1, <1>3 DEF min_stack_pointer, max_stack_pointer

\* The constant gas of an opcode that costs no more, or memory only.
LEMMA StaticCostIs ==
  ASSUME Op \in ValidOpcodes,
         ~has_dynamic_gas(Op) \/ Op \in MemoryOpcodes \cup ReturnOpcodes \cup {STOP}
  PROVE  constant_gas_cost[Op] = Evm!StaticCost /\ Evm!StaticCost \in Nat
<1> DEFINE op == Op
           c == Evm!StaticCost
           k == constant_gas_cost[op]
           Two == {65, 66, 67, 68, 69, 70, 72, 48, 50, 51, 52, 54, 58, 61, 56, 80, 88, 89, 90, 95}
<1>1. op = Evm!Op /\ c = Evm!StaticCost
  BY DEF Op
<1>2. op \in ValidOpcodes
  OBVIOUS
<1> HIDE DEF op, c
<1>3. /\ Evm!ReturnOpcodes = {243, 253}
      /\ (Evm!ContextOpcodes \ {Evm!SELFBALANCE})
            \cup {Evm!CODESIZE, Evm!POP, 88, Evm!MSIZE, Evm!GAS, Evm!PUSH0} = Two
      /\ Evm!STOP = 0 /\ Evm!JUMPDEST = 91 /\ Evm!SELFBALANCE = 71 /\ Evm!JUMP = 86
      /\ Evm!JUMPI = 87 /\ Evm!BLOCKHASH = 64
  BY DEF Evm!ReturnOpcodes, Evm!RETURN, Evm!REVERT, Evm!STOP, Evm!JUMPDEST, Evm!SELFBALANCE,
         Evm!ContextOpcodes, Evm!BlockOpcodes, Evm!CODESIZE, Evm!POP, Evm!MSIZE, Evm!GAS, Evm!PUSH0,
         Evm!JUMP, Evm!JUMPI, Evm!BLOCKHASH
<1>4. /\ op \in {0, 10, 84, 85, 255, 243, 253} \cup (160 .. 250) => c = 0
      /\ op = 91 => c = 1
      /\ op \in Two => c = 2
      /\ op \in {2, 4, 5, 6, 7, 11, 71} => c = 5
      /\ op \in {8, 9, 86} => c = 8
      /\ op = 87 => c = 10
      /\ op = 64 => c = 20
      /\ op \in {1, 3, 53, 55, 57, 62, 81, 82, 83} \cup (16 .. 29) \cup (96 .. 159) => c = 3
  BY <1>1, <1>3 DEF Evm!StaticCost, Evm!Between
<1>5. /\ ReturnOpcodes = {243, 253}
      /\ (ContextOpcodes \ {SELFBALANCE}) \cup {CODESIZE, POP, 88, MSIZE, GAS, PUSH0} = Two
      /\ STOP = 0 /\ JUMPDEST = 91 /\ SELFBALANCE = 71 /\ JUMP = 86 /\ JUMPI = 87 /\ BLOCKHASH = 64
  BY DEF ReturnOpcodes, RETURN, REVERT, STOP, JUMPDEST, SELFBALANCE, ContextOpcodes, BlockOpcodes,
         CODESIZE, POP, MSIZE, GAS, PUSH0, JUMP, JUMPI, BLOCKHASH
<1>6. k = IF op \in {0, 10, 84, 85} \cup (160 .. 164) \cup {243, 253} THEN 0
          ELSE IF op = 91 THEN 1
          ELSE IF op \in Two THEN 2
          ELSE IF op \in {2, 4, 5, 6, 7, 11, 71} THEN 5
          ELSE IF op \in {8, 9, 86} THEN 8
          ELSE IF op = 87 THEN 10
          ELSE IF op = 64 THEN 20
          ELSE IF op = 32 THEN 30
          ELSE IF op \in {49, 59, 60, 63, 241, 242, 244, 250} THEN 100
          ELSE IF op = 255 THEN 5000
          ELSE IF op \in {240, 245} THEN 32000
          ELSE 3
  BY <1>2, <1>5 DEF constant_gas_cost
<1>7. \/ op \notin {10, 32, 49, 55, 57, 59, 60, 62, 63, 84, 85, 255, 81, 82, 83, 243, 253}
                       \cup (160 .. 250)
      \/ op \in {81, 82, 83, 243, 253, 0}
  BY DEF op, has_dynamic_gas, MemoryOpcodes, ReturnOpcodes, MLOAD, MSTORE, MSTORE8, RETURN, REVERT, STOP
<1>8. op \in (0 .. 11) \cup (16 .. 29) \cup {32} \cup (48 .. 72) \cup (80 .. 91) \cup (95 .. 164)
              \cup (240 .. 245) \cup {250, 253, 255}
  BY <1>2 DEF ValidOpcodes, PUSH0, REVERT
<1> HIDE DEF k
<1>9. k = c /\ c \in Nat
  BY <1>4, <1>6, <1>7, <1>8
<1> QED
  BY <1>9 DEF k, c, op

-----------------------------------------------------------------------------
(* A step of the call as one of the machine.                               *)

LEMMA SameNames ==
  /\ Evm!STOP = STOP /\ Evm!ADD = ADD /\ Evm!SUB = SUB /\ Evm!NUMBER = NUMBER
  /\ Evm!CODESIZE = CODESIZE /\ Evm!BLOCKHASH = BLOCKHASH /\ Evm!POP = POP
  /\ Evm!MLOAD = MLOAD /\ Evm!MSTORE = MSTORE /\ Evm!MSTORE8 = MSTORE8
  /\ Evm!JUMP = JUMP /\ Evm!JUMPI = JUMPI /\ Evm!MSIZE = MSIZE /\ Evm!GAS = GAS
  /\ Evm!JUMPDEST = JUMPDEST /\ Evm!RETURN = RETURN /\ Evm!REVERT = REVERT
BY DEF Evm!STOP, STOP, Evm!ADD, ADD, Evm!SUB, SUB, Evm!NUMBER, NUMBER, Evm!CODESIZE, CODESIZE,
       Evm!BLOCKHASH, BLOCKHASH, Evm!POP, POP, Evm!MLOAD, MLOAD, Evm!MSTORE, MSTORE,
       Evm!MSTORE8, MSTORE8, Evm!JUMP, JUMP, Evm!JUMPI, JUMPI, Evm!MSIZE, MSIZE, Evm!GAS, GAS,
       Evm!JUMPDEST, JUMPDEST, Evm!RETURN, RETURN, Evm!REVERT, REVERT

LEMMA SameSets ==
  /\ Evm!MemoryOpcodes = MemoryOpcodes /\ Evm!ReturnOpcodes = ReturnOpcodes
  /\ Evm!PushOpcodes = PushOpcodes /\ Evm!ContextOpcodes = ContextOpcodes
  /\ Evm!ValidOpcodes = ValidOpcodes
  /\ \A op : Evm!get_push_size(op) = get_push_size(op)
<1>1. /\ Evm!MemoryOpcodes = MemoryOpcodes /\ Evm!ReturnOpcodes = ReturnOpcodes
      /\ Evm!ContextOpcodes = ContextOpcodes
  BY DEF Evm!MemoryOpcodes, MemoryOpcodes, Evm!MLOAD, MLOAD, Evm!MSTORE, MSTORE,
         Evm!MSTORE8, MSTORE8, Evm!ReturnOpcodes, ReturnOpcodes, Evm!RETURN, RETURN,
         Evm!REVERT, REVERT, Evm!ContextOpcodes, ContextOpcodes, Evm!BlockOpcodes, BlockOpcodes,
         Evm!SELFBALANCE, SELFBALANCE
<1>2. Evm!PushOpcodes = PushOpcodes /\ Evm!PUSH0 = PUSH0
  BY DEF Evm!PushOpcodes, PushOpcodes, Evm!PUSH0, PUSH0, Evm!PUSH32, PUSH32
<1>3. Evm!ValidOpcodes = ValidOpcodes
  BY DEF Evm!ValidOpcodes, ValidOpcodes, Evm!PUSH0, PUSH0, Evm!REVERT, REVERT
<1>4. \A op : Evm!get_push_size(op) = get_push_size(op)
  BY <1>2 DEF Evm!get_push_size, get_push_size
<1> QED
  BY <1>1, <1>2, <1>3, <1>4

LEMMA OpIs ==
  ASSUME InRange, NEW ops, AtOpcode(ops)
  PROVE  Op = Opcode /\ Op \in ops /\ Op \in 0 .. 255 /\ status = "running"
<1>1. program_counter \in Nat /\ program_counter < Len(code) /\ Opcode \in ops
      /\ status = "running"
  BY DEF InRange, AtOpcode, InCode
<1>2. program_counter + 1 \in 1 .. Len(code)
  BY <1>1, CodeTyped
<1>3. Opcode \in 0 .. 255
  BY <1>2, CodeTyped DEF Opcode
<1>4. Op = Opcode
  BY <1>1 DEF Op, Evm!Op, Opcode
<1> QED
  BY <1>1, <1>3, <1>4

LEMMA OpPastEnd ==
  ASSUME ~InCode(program_counter)
  PROVE  Op = STOP
BY SameNames DEF Op, Evm!Op, InCode

LEMMA StackIs ==
  ASSUME Typed
  PROVE  /\ stack = StackAt(cells, stack_pointer)
         /\ cells \in [Pointers -> Words] /\ stack_pointer \in 0 .. StackSize
         /\ stack \in Seq(Words) /\ Len(stack) = StackSize - stack_pointer
         /\ \A i \in 1 .. StackSize - stack_pointer : stack[i] = Popped(i)
<1>1. stack = StackAt(cells, stack_pointer)
  BY DEF stack, StackAt
<1>2. cells \in [Pointers -> Words] /\ stack_pointer \in 0 .. StackSize
  BY DEF Typed, TypeOK, InRange, Words
<1>3. \A i : Popped(i) = cells[stack_pointer + i - 1]
  BY DEF Popped
<1> HIDE DEF stack
<1> QED
  BY <1>1, <1>2, <1>3, StackIsSequence

\* What a step has looked up is on the stack.
LEMMA LookedUp ==
  ASSUME Typed, NEW count \in 0 .. 2, stack_pops(count)
  PROVE  /\ stack_pointer + count <= StackSize /\ Len(stack) >= count
         /\ \A n \in 1 .. count : stack[n] = Popped(n) /\ stack[n] \in Words /\ stack[n] \in Nat
<1>1. /\ stack_pointer \in 0 .. StackSize /\ Len(stack) = StackSize - stack_pointer
      /\ stack \in Seq(Words)
      /\ \A i \in 1 .. StackSize - stack_pointer : stack[i] = Popped(i)
  BY StackIs
<1>2. stack_pointer + count <= StackSize
  <2>1. count # 0 => stack_pointer + (count - 1) \in 0 .. StackSize - 1
    BY DEF stack_pops, Pointers
  <2> QED
    BY <1>1, <2>1, Numbers
<1>3. \A n \in 1 .. count : n \in 1 .. StackSize - stack_pointer
  BY <1>1, <1>2, Numbers
<1>4. \A w \in Words : w \in Nat
  BY Numbers DEF Words
<1>5. \A n \in 1 .. count : stack[n] \in Words
  BY <1>1, <1>3, InSequence
<1> QED
  BY <1>1, <1>2, <1>3, <1>4, <1>5, Numbers

LEMMA SameCosts ==
  /\ \A size : Evm!MemoryCost(size) = memory_gas_cost(size)
  /\ \A size : Evm!Expansion(size) = expansion_gas_cost(size)
  /\ \A bytes : Evm!Ceiling(bytes) = WordsOf(bytes)
BY DEF Evm!MemoryCost, memory_gas_cost, Evm!Expansion, expansion_gas_cost, Evm!Ceiling, WordsOf

LEMMA NeededIs ==
  ASSUME InRange
  PROVE  /\ Op \notin MemoryOpcodes \cup ReturnOpcodes => Evm!Needed = memory_word_size
         /\ Op \in {MLOAD, MSTORE} => Evm!Needed = Larger(memory_word_size, WordsOf(stack[1] + 32))
         /\ Op = MSTORE8 => Evm!Needed = Larger(memory_word_size, WordsOf(stack[1] + 1))
         /\ Op \in ReturnOpcodes /\ stack[2] = 0 => Evm!Needed = memory_word_size
         /\ Op \in ReturnOpcodes /\ stack[2] # 0
              => Evm!Needed = Larger(memory_word_size, WordsOf(stack[1] + stack[2]))
<1> DEFINE needed == Evm!Needed
<1>1. needed = Evm!Needed
  OBVIOUS
<1> HIDE DEF needed
<1>2. /\ Evm!Op = Op /\ Evm!ReturnOpcodes = {243, 253} /\ {Evm!MLOAD, Evm!MSTORE} = {81, 82}
      /\ Evm!MSTORE8 = 83 /\ \A bytes : Evm!Ceiling(bytes) = WordsOf(bytes)
  BY SameCosts DEF Op, Evm!ReturnOpcodes, Evm!MLOAD, Evm!MSTORE, Evm!MSTORE8, Evm!RETURN, Evm!REVERT
<1>3. MemoryOpcodes = {81, 82, 83} /\ ReturnOpcodes = {243, 253} /\ {MLOAD, MSTORE} = {81, 82}
      /\ MSTORE8 = 83
  BY DEF MemoryOpcodes, ReturnOpcodes, MLOAD, MSTORE, MSTORE8, RETURN, REVERT
<1>4. /\ Op \notin {81, 82, 83, 243, 253} => needed = Larger(memory_word_size, WordsOf(0))
      /\ Op \in {81, 82} => needed = Larger(memory_word_size, WordsOf(stack[1] + 32))
      /\ Op = 83 => needed = Larger(memory_word_size, WordsOf(stack[1] + 1))
      /\ Op \in {243, 253} /\ stack[2] = 0 => needed = Larger(memory_word_size, WordsOf(0))
      /\ Op \in {243, 253} /\ stack[2] # 0
           => needed = Larger(memory_word_size, WordsOf(stack[1] + stack[2]))
  BY <1>1, <1>2 DEF Evm!Needed, Larger
<1>5. Larger(memory_word_size, WordsOf(0)) = memory_word_size
  <2>1. memory_word_size \in Nat
    BY Numbers DEF InRange
  <2> QED
    BY <2>1 DEF Larger, WordsOf
<1> QED
  BY <1>1, <1>3, <1>4, <1>5

\* Memory is never needed less than there is.
LEMMA NeededGrows ==
  ASSUME InRange, \A n \in 1 .. Evm!Pops : stack[n] \in Nat, Op \in ValidOpcodes
  PROVE  Evm!Needed \in Nat /\ memory_word_size <= Evm!Needed
<1>1. memory_word_size \in Nat
  BY Numbers DEF InRange
<1>2. \A b \in Nat : WordsOf(b) \in Nat
  BY DEF WordsOf
<1>3. \A w \in Nat : /\ Larger(memory_word_size, w) \in Nat
                     /\ memory_word_size <= Larger(memory_word_size, w)
  BY <1>1 DEF Larger
<1>4. /\ MemoryOpcodes = {81, 82, 83} /\ ReturnOpcodes = {243, 253} /\ MLOAD = 81 /\ MSTORE = 82
      /\ MSTORE8 = 83
  BY DEF MemoryOpcodes, ReturnOpcodes, MLOAD, MSTORE, MSTORE8, RETURN, REVERT
<1>5. CASE Op \notin MemoryOpcodes \cup ReturnOpcodes
  BY <1>1, <1>5, NeededIs
<1>6. CASE Op \in MemoryOpcodes
  <2>1. stack[1] \in Nat
    <3>1. Evm!Pops \in 1 .. 2
      BY <1>4, <1>6, PopsAre
    <3> QED
      BY <3>1
  <2>2. Evm!Needed = Larger(memory_word_size, WordsOf(stack[1] + 32))
        \/ Evm!Needed = Larger(memory_word_size, WordsOf(stack[1] + 1))
    BY <1>4, <1>6, NeededIs
  <2>3. stack[1] + 32 \in Nat /\ stack[1] + 1 \in Nat
    BY <2>1
  <2> QED
    BY <1>2, <1>3, <2>2, <2>3
<1>7. CASE Op \in ReturnOpcodes
  <2>1. stack[1] \in Nat /\ stack[2] \in Nat
    <3>1. Evm!Pops = 2
      BY <1>4, <1>7, PopsAre
    <3> QED
      BY <3>1
  <2>2. stack[1] + stack[2] \in Nat
    BY <2>1
  <2>3. Evm!Needed = memory_word_size
        \/ Evm!Needed = Larger(memory_word_size, WordsOf(stack[1] + stack[2]))
    BY <1>7, NeededIs
  <2> QED
    BY <1>1, <1>2, <1>3, <2>2, <2>3
<1> QED
  BY <1>5, <1>6, <1>7

LEMMA ExpansionGrows ==
  ASSUME InRange, NEW a \in Nat, NEW b \in Nat, memory_word_size <= a, a <= b
  PROVE  /\ Evm!Expansion(a) \in Nat /\ Evm!Expansion(b) \in Nat
         /\ Evm!Expansion(a) <= Evm!Expansion(b)
<1>1. memory_word_size \in Nat /\ memory_word_size <= b
  BY Numbers DEF InRange
<1>2. /\ memory_gas_cost(memory_word_size) \in Nat /\ memory_gas_cost(a) \in Nat
      /\ memory_gas_cost(b) \in Nat /\ memory_gas_cost(memory_word_size) <= memory_gas_cost(a)
      /\ memory_gas_cost(a) <= memory_gas_cost(b)
  BY <1>1, MoreMemoryCostsMore
<1>3. Evm!Expansion(a) = memory_gas_cost(a) - memory_gas_cost(memory_word_size)
      /\ Evm!Expansion(b) = memory_gas_cost(b) - memory_gas_cost(memory_word_size)
  BY SameCosts DEF expansion_gas_cost
<1> QED
  BY <1>2, <1>3

LEMMA StayingIs ==
  ASSUME Op \in Staying
  PROVE  /\ Op \in ValidOpcodes
         /\ Op \in Evm!Described \ ({Evm!STOP} \cup Evm!ReturnOpcodes)
         /\ constant_gas_cost[Op] = Evm!StaticCost /\ Evm!StaticCost \in Nat
<1>1. Op \in ValidOpcodes
  BY DEF Staying, ValidOpcodes, MemoryOpcodes, ContextOpcodes, BlockOpcodes, PushOpcodes,
         ADD, SUB, POP, GAS, MSIZE, CODESIZE, BLOCKHASH, JUMP, JUMPI, MLOAD, MSTORE, MSTORE8,
         SELFBALANCE, PUSH0, PUSH32, REVERT
<1>2. ~has_dynamic_gas(Op) \/ Op \in MemoryOpcodes
  BY DEF Staying, has_dynamic_gas, MemoryOpcodes, ReturnOpcodes, ContextOpcodes, BlockOpcodes,
         PushOpcodes, ADD, SUB, POP, GAS, MSIZE, CODESIZE, BLOCKHASH, JUMP, JUMPI, MLOAD, MSTORE,
         MSTORE8, SELFBALANCE, PUSH0, PUSH32, RETURN, REVERT
<1>3. Op # STOP /\ Op \notin ReturnOpcodes
  BY DEF Staying, MemoryOpcodes, ContextOpcodes, BlockOpcodes, PushOpcodes, ReturnOpcodes,
         ADD, SUB, POP, GAS, MSIZE, CODESIZE, BLOCKHASH, JUMP, JUMPI, MLOAD, MSTORE, MSTORE8,
         SELFBALANCE, PUSH0, PUSH32, RETURN, REVERT, STOP
<1>4. Op \in Evm!Described
  BY SameNames, SameSets DEF Staying, Evm!Described
<1> QED
  BY <1>1, <1>2, <1>3, <1>4, StaticCostIs, SameNames, SameSets

\* A step that stays in the call is the machine's, given what its instruction needs and pushes.
LEMMA Executes ==
  ASSUME Typed, Typed', NEW ops, AtOpcode(ops), ops \subseteq Staying,
         NEW popped \in 0 .. 2, popped = Evm!Pops, stack_pops(popped),
         NEW pushed, NEW results,
         \/ pushed = <<>> /\ Evm!Pushes = 0
         \/ Evm!Pushes = 1 /\ \E w \in results : pushed = <<w>>,
         NEW next_pc, NEW size \in Nat, Evm!Needed <= size,
         step_state_transition_in_same_context(popped, pushed, next_pc, size),
         Evm!Jumps => Evm!IsDestination(stack[1]),
         next_pc = IF Evm!Jumps THEN stack[1] ELSE program_counter + 1 + get_push_size(Op)
  PROVE  ~Evm!Fails /\ Evm!ExecuteTo(size, results)
<1> DEFINE top == stack_pointer + popped - Len(pushed)
           cost == Evm!StaticCost
           kept == SubSeq(stack, popped + 1, Len(stack))
<1>1. InRange /\ stack_pointer \in 0 .. StackSize /\ gas_left \in Nat
  BY DEF Typed, TypeOK, InRange
<1>2. Op = Opcode /\ Op \in Staying /\ status = "running"
  BY <1>1, OpIs
<1>3. Op \in ValidOpcodes /\ constant_gas_cost[Op] = cost /\ cost \in Nat
      /\ Op \in Evm!Described \ ({Evm!STOP} \cup Evm!ReturnOpcodes)
  BY <1>2, StayingIs
<1>4. /\ stack_pointer' = top /\ (pushed # <<>> => top \in Pointers)
      /\ cells' = IF pushed = <<>> THEN cells ELSE [cells EXCEPT ![top] = pushed[1]]
      /\ gas_left' = gas_left - constant_gas_cost[Opcode] - expansion_gas_cost(size)
      /\ gas_left' >= 0 /\ program_counter' = next_pc /\ memory_word_size' = size
      /\ code' = code /\ is_root' = is_root /\ status' = status /\ gas_after' = gas_after
  BY DEF step_state_transition_in_same_context
<1>5. /\ stack_pointer + popped <= StackSize /\ Len(stack) >= popped
      /\ Len(stack) = StackSize - stack_pointer
      /\ \A n \in 1 .. popped : stack[n] \in Nat
      /\ stack = StackAt(cells, stack_pointer) /\ cells \in [Pointers -> Words]
  BY LookedUp, StackIs
<1> HIDE DEF cost, kept, top
<1>6. /\ Len(stack) - popped + Evm!Pushes <= StackSize
      /\ \E last \in IF Evm!Pushes = 1 THEN {<<v>> : v \in results} ELSE {<<>>} :
           stack' = last \o kept
  <2>1. stack' = StackAt(cells', stack_pointer')
    BY DEF stack, StackAt
  <2>2. CASE pushed = <<>> /\ Evm!Pushes = 0
    <3>1. top = stack_pointer + popped
      BY <1>1, <2>2 DEF top
    <3>2. stack' = StackAt(cells, stack_pointer + popped)
      BY <1>4, <2>1, <2>2, <3>1
    <3>3. stack' = <<>> \o kept
      BY <1>1, <1>5, <3>2, StackPopped DEF kept
    <3>4. Len(stack) - popped + 0 <= StackSize
      BY <1>1, <1>5, Numbers
    <3> QED
      BY <2>2, <3>3, <3>4
  <2>3. CASE Evm!Pushes = 1 /\ \E w \in results : pushed = <<w>>
    <3>1. PICK w \in results : pushed = <<w>>
      BY <2>3
    <3>2. pushed # <<>> /\ pushed[1] = w /\ Len(pushed) = 1
      BY <3>1
    <3>3. top = stack_pointer + popped - 1 /\ top \in Pointers
      BY <1>4, <3>2 DEF top
    <3>4. stack' = StackAt([cells EXCEPT ![top] = w], top)
      BY <1>4, <2>1, <3>2
    <3>8. w \in Words
      <4>1. cells' = [cells EXCEPT ![top] = w] /\ cells' \in [Pointers -> Words]
        BY <1>4, <3>2 DEF Typed, TypeOK, Words, Pointers
      <4> QED
        BY <1>5, <3>3, <4>1
    <3>5. stack' = <<w>> \o kept
      BY <1>1, <1>5, <3>3, <3>4, <3>8, StackPushed DEF kept
    <3>6. Len(stack) - popped + 1 <= StackSize
      BY <1>1, <1>5, <3>3, Numbers DEF Pointers
    <3> QED
      BY <2>3, <3>1, <3>5, <3>6
  <2> QED
    BY <2>2, <2>3
<1>7. Evm!Needed \in Nat /\ memory_word_size <= Evm!Needed
  BY <1>1, <1>3, <1>5, NeededGrows
<1>8. memory_word_size <= size
  BY <1>1, <1>7, Numbers DEF InRange
<1>9. /\ Evm!Expansion(Evm!Needed) \in Nat /\ Evm!Expansion(size) \in Nat
      /\ Evm!Expansion(Evm!Needed) <= Evm!Expansion(size)
  <2> DEFINE needed == Evm!Needed
  <2>1. needed \in Nat /\ memory_word_size <= needed /\ needed <= size
    BY <1>7
  <2> HIDE DEF needed
  <2>2. /\ Evm!Expansion(needed) \in Nat /\ Evm!Expansion(size) \in Nat
        /\ Evm!Expansion(needed) <= Evm!Expansion(size)
    BY <1>1, <2>1, ExpansionGrows
  <2> QED
    BY <2>2 DEF needed
<1>10. gas_left' = gas_left - cost - Evm!Expansion(size)
  BY <1>2, <1>3, <1>4, SameCosts
<1>11. ~(gas_left < cost + Evm!Expansion(Evm!Needed))
  BY <1>1, <1>3, <1>4, <1>9, <1>10
<1>12. ~Evm!Fails
  <2>1. Len(stack) \in Nat /\ ~(Len(stack) < popped)
    BY <1>1, <1>5, Numbers
  <2>2. ~(Len(stack) - popped + Evm!Pushes > StackSize)
    <3>1. Evm!Pushes \in Nat /\ StackSize \in Nat
      BY Numbers
    <3> QED
      BY <1>6, <2>1, <3>1
  <2>3. Op \in Evm!ValidOpcodes
    BY <1>3, SameSets
  <2> QED
    BY <1>11, <2>1, <2>2, <2>3 DEF Evm!Fails, Op, cost
<1>13. Evm!ExecuteTo(size, results)
  BY <1>2, <1>3, <1>4, <1>6, <1>10, <1>12, SameSets DEF Evm!ExecuteTo, Op, cost, kept
<1> QED
  BY <1>12, <1>13

-----------------------------------------------------------------------------
(* The steps that stay in the call.                                        *)

\* What a step may be.
Allowed ==
  \/ Evm!Next
  \/ MemoryTooLarge \/ OldestHashMissing \/ JumpIsLost
  \/ AnyGasAfter \/ ReturnedForOther \/ AnythingReverts

LEMMA PushedIs ==
  /\ Op = ADD => Evm!Pushed = {(stack[1] + stack[2]) % WordModulus}
  /\ Op = SUB => Evm!Pushed = {(stack[1] - stack[2] + WordModulus) % WordModulus}
  /\ Op = MLOAD => Evm!Pushed = Loaded
  /\ Op = MSIZE => Evm!Pushed = {32 * memory_word_size}
  /\ Op = GAS => Evm!Pushed = {gas_left - Evm!StaticCost}
  /\ Op = CODESIZE => Evm!Pushed = {Len(code)}
  /\ Op = BLOCKHASH =>
       Evm!Pushed = {IF Context[NUMBER] - Recent <= stack[1] /\ stack[1] < Context[NUMBER]
                     THEN HistoryHash(stack[1]) ELSE 0}
  /\ Op \in ContextOpcodes => Evm!Pushed = {Context[Op]}
  /\ Op \in PushOpcodes => Evm!Pushed = {Evm!Immediate}
<1> DEFINE pushed == Evm!Pushed
<1>1. pushed = Evm!Pushed
  OBVIOUS
<1> HIDE DEF pushed
<1>2. /\ Evm!Op = Op /\ Evm!ADD = 1 /\ Evm!SUB = 3 /\ Evm!MLOAD = 81 /\ Evm!MSIZE = 89
      /\ Evm!GAS = 90 /\ Evm!CODESIZE = 56 /\ Evm!BLOCKHASH = 64 /\ Evm!NUMBER = NUMBER
      /\ Evm!ContextOpcodes = {65, 66, 67, 68, 69, 70, 72, 48, 50, 51, 52, 54, 58, 61, 71}
      /\ Evm!PushOpcodes = 95 .. 127 /\ \A n : Evm!BlockHash(n) = HistoryHash(n)
  BY DEF Op, Evm!ADD, Evm!SUB, Evm!MLOAD, Evm!MSIZE, Evm!GAS, Evm!CODESIZE, Evm!BLOCKHASH,
         Evm!NUMBER, NUMBER, Evm!ContextOpcodes, Evm!BlockOpcodes, Evm!SELFBALANCE,
         Evm!PushOpcodes, Evm!PUSH0, Evm!PUSH32, Evm!BlockHash, HistoryHash
<1>3. /\ ADD = 1 /\ SUB = 3 /\ MLOAD = 81 /\ MSIZE = 89 /\ GAS = 90 /\ CODESIZE = 56
      /\ BLOCKHASH = 64 /\ PushOpcodes = 95 .. 127
      /\ ContextOpcodes = {65, 66, 67, 68, 69, 70, 72, 48, 50, 51, 52, 54, 58, 61, 71}
  BY DEF ADD, SUB, MLOAD, MSIZE, GAS, CODESIZE, BLOCKHASH, PushOpcodes, PUSH0, PUSH32,
         ContextOpcodes, BlockOpcodes, SELFBALANCE
<1> DEFINE hash == {IF Context[NUMBER] - Recent <= stack[1] /\ stack[1] < Context[NUMBER]
                    THEN HistoryHash(stack[1]) ELSE 0}
<1>4. hash = {IF Context[Evm!NUMBER] - Recent <= stack[1] /\ stack[1] < Context[Evm!NUMBER]
              THEN Evm!BlockHash(stack[1]) ELSE 0}
  BY <1>2
<1> HIDE DEF hash
<1>a. Op = 1 => pushed = {(stack[1] + stack[2]) % WordModulus}
  BY <1>1, <1>2 DEF Evm!Pushed
<1>b. Op = 3 => pushed = {(stack[1] - stack[2] + WordModulus) % WordModulus}
  BY <1>1, <1>2 DEF Evm!Pushed
<1>c. Op = 81 => pushed = Loaded
  BY <1>1, <1>2 DEF Evm!Pushed
<1>d. Op = 89 => pushed = {32 * memory_word_size}
  BY <1>1, <1>2 DEF Evm!Pushed
<1>e. Op = 90 => pushed = {gas_left - Evm!StaticCost}
  BY <1>1, <1>2 DEF Evm!Pushed
<1>f. Op = 56 => pushed = {Len(code)}
  BY <1>1, <1>2 DEF Evm!Pushed
<1>g. Op = 64 => pushed = hash
  BY <1>1, <1>2, <1>4 DEF Evm!Pushed
<1>h. Op \in {65, 66, 67, 68, 69, 70, 72, 48, 50, 51, 52, 54, 58, 61, 71} => pushed = {Context[Op]}
  BY <1>1, <1>2 DEF Evm!Pushed
<1>i. Op \in 95 .. 127 => pushed = {Evm!Immediate}
  BY <1>1, <1>2 DEF Evm!Pushed
<1>5. Op = BLOCKHASH => pushed = hash
  BY <1>3, <1>g
<1>6. /\ Op = ADD => pushed = {(stack[1] + stack[2]) % WordModulus}
      /\ Op = SUB => pushed = {(stack[1] - stack[2] + WordModulus) % WordModulus}
      /\ Op = MLOAD => pushed = Loaded
      /\ Op = MSIZE => pushed = {32 * memory_word_size}
  BY <1>3, <1>a, <1>b, <1>c, <1>d
<1>7. /\ Op = GAS => pushed = {gas_left - Evm!StaticCost}
      /\ Op = CODESIZE => pushed = {Len(code)}
      /\ Op \in ContextOpcodes => pushed = {Context[Op]}
      /\ Op \in PushOpcodes => pushed = {Evm!Immediate}
  BY <1>3, <1>e, <1>f, <1>h, <1>i
<1> QED
  BY <1>1, <1>5, <1>6, <1>7 DEF hash

LEMMA NoJump ==
  ASSUME Op \notin {JUMP, JUMPI}
  PROVE  ~Evm!Jumps
BY SameNames DEF Evm!Jumps, Op

\* An instruction without data that pushes a word.
LEMMA Pushing ==
  ASSUME Typed, Typed', NEW ops, AtOpcode(ops),
         ops \subseteq Staying \ (MemoryOpcodes \cup PushOpcodes \cup {JUMP, JUMPI}),
         NEW popped \in 0 .. 2, popped = Evm!Pops, Evm!Pushes = 1, stack_pops(popped),
         NEW word, Push(popped, word), NEW results, word \in results
  PROVE  /\ ~Evm!Fails /\ Evm!ExecuteTo(memory_word_size, results)
         /\ results = Evm!Pushed => Evm!Execute
<1>1. InRange /\ memory_word_size \in Nat
  BY Numbers DEF Typed, TypeOK, InRange
<1>2. Op \in Staying /\ Op \notin MemoryOpcodes \cup PushOpcodes \cup {JUMP, JUMPI}
  BY <1>1, OpIs
<1>3. Op \notin ReturnOpcodes
  <2>1. Op \in Evm!Described \ ({Evm!STOP} \cup Evm!ReturnOpcodes)
    BY <1>2, StayingIs
  <2> QED
    BY <2>1, SameSets
<1>4. Evm!Needed = memory_word_size
  BY <1>1, <1>2, <1>3, NeededIs
<1>5. ~Evm!Jumps
  BY <1>2, NoJump
<1>6. program_counter + 1 = program_counter + 1 + get_push_size(Op)
  <2>1. get_push_size(Op) = 0 /\ program_counter \in Nat
    BY <1>1, <1>2 DEF get_push_size, InRange
  <2> QED
    BY <2>1
<1>7. step_state_transition_in_same_context(popped, <<word>>, program_counter + 1, memory_word_size)
  BY DEF Push
<1>8. ops \subseteq Staying
  OBVIOUS
<1>9. Evm!Needed <= memory_word_size
  BY <1>1, <1>4
<1>10. ~Evm!Fails /\ Evm!ExecuteTo(memory_word_size, results)
  BY <1>1, <1>5, <1>6, <1>7, <1>8, <1>9, Executes
<1> QED
  BY <1>4, <1>10 DEF Evm!Execute

LEMMA add_subImplements ==
  ASSUME Typed, Typed', add_sub
  PROVE  Evm!Execute
<1>1. AtOpcode({ADD, SUB}) /\ stack_pops(2)
  BY DEF add_sub
<1>2. Op = Opcode /\ Op \in {ADD, SUB}
  BY <1>1, OpIs DEF Typed, TypeOK
<1>3. Evm!Pops = 2 /\ Evm!Pushes = 1
  BY <1>2, PopsAre, PushesAre DEF ADD, SUB
<1>4. {ADD, SUB} \subseteq Staying \ (MemoryOpcodes \cup PushOpcodes \cup {JUMP, JUMPI})
  BY DEF Staying, MemoryOpcodes, PushOpcodes, JUMP, JUMPI, ADD, SUB, MLOAD, MSTORE, MSTORE8,
         PUSH0, PUSH32
<1> DEFINE word == IF Opcode = SUB THEN (Popped(1) - Popped(2) + WordModulus) % WordModulus
                                   ELSE (Popped(1) + Popped(2)) % WordModulus
<1>5. Push(2, word)
  BY DEF add_sub
<1>6. stack[1] = Popped(1) /\ stack[2] = Popped(2)
  BY <1>1, LookedUp
<1>7. word \in Evm!Pushed
  <2>1. CASE Op = ADD
    BY <1>2, <1>6, <2>1, PushedIs DEF ADD, SUB
  <2>2. CASE Op = SUB
    BY <1>2, <1>6, <2>2, PushedIs
  <2> QED
    BY <1>2, <2>1, <2>2
<1> HIDE DEF word
<1>8. 2 \in 0 .. 2 /\ 2 = Evm!Pops
  BY <1>3
<1> QED
  BY <1>1, <1>3, <1>4, <1>5, <1>7, <1>8, Pushing

LEMMA gasImplements ==
  ASSUME Typed, Typed', gas
  PROVE  Evm!Execute
<1>1. AtOpcode({GAS}) /\ Push(0, gas_left - constant_gas_cost[GAS])
  BY DEF gas
<1>2. Op = GAS
  BY <1>1, OpIs DEF Typed, TypeOK
<1>3. Evm!Pops = 0 /\ Evm!Pushes = 1
  BY <1>2, PopsAre, PushesAre DEF GAS
<1>4. {GAS} \subseteq Staying \ (MemoryOpcodes \cup PushOpcodes \cup {JUMP, JUMPI})
  BY DEF Staying, MemoryOpcodes, PushOpcodes, JUMP, JUMPI, GAS, MLOAD, MSTORE, MSTORE8, PUSH0, PUSH32
<1> DEFINE word == gas_left - constant_gas_cost[GAS]
<1>5. Push(0, word)
  BY <1>1
<1>6. word \in Evm!Pushed
  BY <1>2, <1>4, StayingIs, PushedIs
<1> HIDE DEF word
<1>7. stack_pops(0)
  BY DEF stack_pops
<1>8. 0 \in 0 .. 2 /\ 0 = Evm!Pops
  BY <1>3
<1> QED
  BY <1>1, <1>3, <1>4, <1>5, <1>6, <1>7, <1>8, Pushing

\* The instructions that push something the call knows, and pop nothing.
LEMMA ReadingIs ==
  ASSUME NEW op \in {MSIZE, CODESIZE} \cup ContextOpcodes, Op = op
  PROVE  /\ Evm!Pops = 0 /\ Evm!Pushes = 1 /\ stack_pops(0) /\ 0 \in 0 .. 2
         /\ op \in Staying \ (MemoryOpcodes \cup PushOpcodes \cup {JUMP, JUMPI})
<1>1. op \in {89, 56, 65, 66, 67, 68, 69, 70, 72, 48, 50, 51, 52, 54, 58, 61, 71}
  BY DEF MSIZE, CODESIZE, ContextOpcodes, BlockOpcodes, SELFBALANCE
<1>2. Evm!Pops = 0
  BY <1>1, PopsAre
<1>3. Evm!Pushes = 1
  BY <1>1, PushesAre
<1>4. op \in Staying
  BY DEF Staying
<1>5. op \notin MemoryOpcodes \cup PushOpcodes \cup {JUMP, JUMPI}
  BY <1>1 DEF MemoryOpcodes, PushOpcodes, JUMP, JUMPI, MLOAD, MSTORE, MSTORE8, PUSH0, PUSH32
<1>6. stack_pops(0) /\ 0 \in 0 .. 2
  BY DEF stack_pops
<1> QED
  BY <1>2, <1>3, <1>4, <1>5, <1>6

LEMMA msizeImplements ==
  ASSUME Typed, Typed', msize
  PROVE  Evm!Execute
<1>1. AtOpcode({MSIZE}) /\ Push(0, 32 * memory_word_size)
  BY DEF msize
<1>2. Op = MSIZE
  BY <1>1, OpIs DEF Typed, TypeOK
<1>3. /\ Evm!Pops = 0 /\ Evm!Pushes = 1 /\ stack_pops(0) /\ 0 \in 0 .. 2
      /\ {MSIZE} \subseteq Staying \ (MemoryOpcodes \cup PushOpcodes \cup {JUMP, JUMPI})
  BY <1>2, ReadingIs
<1> DEFINE word == 32 * memory_word_size
<1>4. Push(0, word) /\ word \in Evm!Pushed
  BY <1>1, <1>2, PushedIs
<1> HIDE DEF word
<1>5. 0 = Evm!Pops
  BY <1>3
<1> QED
  BY <1>1, <1>3, <1>4, <1>5, Pushing

LEMMA codesizeImplements ==
  ASSUME Typed, Typed', codesize
  PROVE  Evm!Execute
<1>1. AtOpcode({CODESIZE}) /\ Push(0, Len(code))
  BY DEF codesize
<1>2. Op = CODESIZE
  BY <1>1, OpIs DEF Typed, TypeOK
<1>3. /\ Evm!Pops = 0 /\ Evm!Pushes = 1 /\ stack_pops(0) /\ 0 \in 0 .. 2
      /\ {CODESIZE} \subseteq Staying \ (MemoryOpcodes \cup PushOpcodes \cup {JUMP, JUMPI})
  BY <1>2, ReadingIs
<1>4. Len(code) \in Evm!Pushed /\ 0 = Evm!Pops
  BY <1>2, <1>3, PushedIs
<1> QED
  BY <1>1, <1>3, <1>4, Pushing

LEMMA FieldImplements ==
  ASSUME Typed, Typed', NEW ops, ops \subseteq ContextOpcodes, AtOpcode(ops), Push(0, Context[Opcode])
  PROVE  Evm!Execute
<1>1. Op = Opcode /\ Op \in ops /\ Op \in ContextOpcodes
  BY OpIs DEF Typed, TypeOK
<1>2. Evm!Pops = 0 /\ Evm!Pushes = 1 /\ stack_pops(0) /\ 0 \in 0 .. 2
  BY <1>1, ReadingIs
<1>3. ops \subseteq Staying \ (MemoryOpcodes \cup PushOpcodes \cup {JUMP, JUMPI})
  BY DEF Staying, ContextOpcodes, BlockOpcodes, SELFBALANCE, MemoryOpcodes, PushOpcodes, JUMP,
         JUMPI, MLOAD, MSTORE, MSTORE8, PUSH0, PUSH32
<1>4. Context[Opcode] \in Evm!Pushed /\ 0 = Evm!Pops
  BY <1>1, <1>2, PushedIs
<1> QED
  BY <1>2, <1>3, <1>4, Pushing

LEMMA ContextImplements ==
  ASSUME Typed, Typed',
         \/ address \/ origin \/ caller \/ callvalue \/ calldatasize \/ gasprice \/ returndatasize
         \/ selfbalance \/ blockctx
  PROVE  Evm!Execute
<1>1. \E ops \in SUBSET ContextOpcodes : AtOpcode(ops) /\ Push(0, Context[Opcode])
  <2>1. /\ {48} \in SUBSET ContextOpcodes /\ {50} \in SUBSET ContextOpcodes
        /\ {51} \in SUBSET ContextOpcodes /\ {52} \in SUBSET ContextOpcodes
        /\ {54} \in SUBSET ContextOpcodes /\ {58} \in SUBSET ContextOpcodes
        /\ {61} \in SUBSET ContextOpcodes /\ {SELFBALANCE} \in SUBSET ContextOpcodes
        /\ BlockOpcodes \in SUBSET ContextOpcodes
    BY DEF ContextOpcodes
  <2> QED
    BY <2>1 DEF address, origin, caller, callvalue, calldatasize, gasprice, returndatasize,
                selfbalance, blockctx
<1> QED
  BY <1>1, FieldImplements

LEMMA blockhashImplements ==
  ASSUME Typed, Typed', blockhash
  PROVE  Evm!Execute \/ OldestHashMissing
<1> DEFINE n == Popped(1)
           current == Context[NUMBER]
           word == IF n < current /\ current < Recent + n THEN HistoryHash(n) ELSE 0
<1>1. AtOpcode({BLOCKHASH}) /\ stack_pops(1) /\ Push(1, word)
  BY DEF blockhash
<1>2. Op = BLOCKHASH
  BY <1>1, OpIs DEF Typed, TypeOK
<1>3. Evm!Pops = 1 /\ Evm!Pushes = 1 /\ 1 \in 0 .. 2 /\ 1 = Evm!Pops
  BY <1>2, PopsAre, PushesAre DEF BLOCKHASH
<1>4. {BLOCKHASH} \subseteq Staying \ (MemoryOpcodes \cup PushOpcodes \cup {JUMP, JUMPI})
  BY DEF Staying, MemoryOpcodes, PushOpcodes, JUMP, JUMPI, BLOCKHASH, MLOAD, MSTORE, MSTORE8,
         PUSH0, PUSH32
<1>5. stack[1] = n /\ n \in Nat
  BY <1>1, LookedUp
<1>6. current \in Nat /\ Recent \in Nat \ {0}
  <2>1. NUMBER \in ContextOpcodes
    BY DEF NUMBER, ContextOpcodes, BlockOpcodes
  <2> QED
    BY <2>1, CallStepsAssumption, Numbers DEF CallStepsAssumption
<1>7. Evm!Pushed = {IF current - Recent <= n /\ n < current THEN HistoryHash(n) ELSE 0}
  BY <1>2, <1>5, PushedIs
<1> HIDE DEF n, current
<1>8. CASE current # Recent + n \/ ~(n < current)
  <2>1. word \in Evm!Pushed
    BY <1>5, <1>6, <1>7, <1>8
  <2> HIDE DEF word
  <2> QED
    BY <1>1, <1>3, <1>4, <2>1, Pushing
<1>9. CASE current = Recent + n
  <2>1. word = 0 /\ word \in {0}
    BY <1>5, <1>6, <1>9
  <2> HIDE DEF word
  <2>2. ~Evm!Fails /\ Evm!ExecuteTo(memory_word_size, {0})
    BY <1>1, <1>3, <1>4, <2>1, Pushing
  <2>3. stack[1] = Context[NUMBER] - Recent
    BY <1>5, <1>6, <1>9 DEF n, current
  <2> QED
    BY <1>2, <2>2, <2>3 DEF OldestHashMissing, Op
<1> QED
  BY <1>8, <1>9

LEMMA ImmediateIs ==
  ASSUME Typed, AtOpcode(PushOpcodes),
         NEW n, n = get_push_size(Opcode), n \in Nat,
         NEW present, present = {i \in 1 .. n : i <= Len(code) - program_counter - 1}
  PROVE  Evm!Immediate = PushedValue(n, present)[n]
<1> DEFINE pc == program_counter
           mine(f, i) ==
             IF i = 0 THEN 0
             ELSE 256 * f[i - 1] + (IF i \in present THEN code[pc + i + 1] ELSE 0)
           its(f, i) ==
             IF i = 0 THEN 0
             ELSE 256 * f[i - 1] + (IF pc + i < Len(code) THEN code[pc + i + 1] ELSE 0)
<1>1. Evm!get_push_size(Evm!Op) = n
  BY OpIs, SameSets DEF Typed, TypeOK, Op
<1>2. Evm!Immediate = (CHOOSE f : f = [i \in 0 .. n |-> its(f, i)])[n]
  BY <1>1 DEF Evm!Immediate
<1>3. PushedValue(n, present) = CHOOSE f : f = [i \in 0 .. n |-> mine(f, i)]
  BY DEF PushedValue
<1>4. \A i \in 1 .. n : i \in present <=> pc + i < Len(code)
  <2>1. Len(code) \in Nat /\ pc \in Nat
    BY CodeTyped DEF Typed, TypeOK, InRange
  <2> QED
    BY <2>1
<1>5. \A f : \A i \in 0 .. n : mine(f, i) = its(f, i)
  <2> SUFFICES ASSUME NEW f, NEW i \in 0 .. n PROVE mine(f, i) = its(f, i)
    OBVIOUS
  <2>1. CASE i = 0
    BY <2>1
  <2>2. CASE i # 0
    <3>1. i \in 1 .. n
      BY <2>2
    <3> QED
      BY <1>4, <2>2, <3>1
  <2> QED
    BY <2>1, <2>2
<1> HIDE DEF mine, its
<1>6. \A f : [i \in 0 .. n |-> mine(f, i)] = [i \in 0 .. n |-> its(f, i)]
  BY <1>5
<1>7. \A f : f = [i \in 0 .. n |-> mine(f, i)] <=> f = [i \in 0 .. n |-> its(f, i)]
  BY <1>6
<1>8. (CHOOSE f : f = [i \in 0 .. n |-> mine(f, i)]) = CHOOSE f : f = [i \in 0 .. n |-> its(f, i)]
  BY <1>7
<1> QED
  BY <1>2, <1>3, <1>8

LEMMA pushImplements ==
  ASSUME Typed, Typed', push
  PROVE  Evm!Execute
<1> DEFINE n == get_push_size(Opcode)
           present == {i \in 1 .. n : i <= Len(code) - program_counter - 1}
           word == PushedValue(n, present)[n]
<1>1. AtOpcode(PushOpcodes)
  BY DEF push
<1>2. step_state_transition_in_same_context(0, <<word>>, program_counter + 1 + n, memory_word_size)
  BY DEF push, PushedValue
<1>3. Op = Opcode /\ Op \in PushOpcodes /\ Op \in 95 .. 127 /\ InRange
  BY <1>1, OpIs DEF Typed, TypeOK, PushOpcodes, PUSH0, PUSH32
<1>4. n \in Nat
  BY <1>3, PushSizes
<1>5. Evm!Immediate = word
  <2> HIDE DEF n
  <2> QED
    BY <1>1, <1>4, ImmediateIs DEF n
<1>6. Evm!Pushed = {word}
  BY <1>3, <1>5, PushedIs
<1> HIDE DEF word, n
<1>7. Evm!Pops = 0 /\ Evm!Pushes = 1 /\ 0 \in 0 .. 2 /\ 0 = Evm!Pops
  BY <1>3, PopsAre, PushesAre
<1>8. stack_pops(0)
  BY DEF stack_pops
<1>9. Evm!Needed = memory_word_size
  <2>1. Op \notin MemoryOpcodes \cup ReturnOpcodes
    BY <1>3 DEF MemoryOpcodes, ReturnOpcodes, MLOAD, MSTORE, MSTORE8, RETURN, REVERT
  <2> QED
    BY <1>3, <2>1, NeededIs
<1>10. ~Evm!Jumps
  BY <1>3, NoJump DEF JUMP, JUMPI
<1>11. PushOpcodes \subseteq Staying
  BY DEF Staying
<1>12. memory_word_size \in Nat /\ Evm!Needed <= memory_word_size
  BY <1>3, <1>9, Numbers DEF InRange
<1>13. \E w \in {word} : <<word>> = <<w>>
  OBVIOUS
<1>14. program_counter + 1 + n = IF Evm!Jumps THEN stack[1]
                                 ELSE program_counter + 1 + get_push_size(Op)
  BY <1>3, <1>10 DEF n
<1>15. Evm!ExecuteTo(memory_word_size, {word})
  BY <1>1, <1>2, <1>7, <1>8, <1>10, <1>11, <1>12, <1>13, <1>14, Executes
<1> QED
  BY <1>6, <1>9, <1>15 DEF Evm!Execute

\* An instruction without data that pushes nothing, and goes on where it says.
LEMMA Dropping ==
  ASSUME Typed, Typed', NEW op \in {POP, JUMP, JUMPI}, AtOpcode({op}),
         NEW popped \in 1 .. 2, popped = IF op = JUMPI THEN 2 ELSE 1, stack_pops(popped),
         NEW next_pc,
         step_state_transition_in_same_context(popped, <<>>, next_pc, memory_word_size),
         Evm!Jumps => next_pc = Popped(1) /\ IsCodeByte(Popped(1), JUMPDEST),
         ~Evm!Jumps => next_pc = program_counter + 1
  PROVE  Evm!Execute
<1>1. InRange /\ memory_word_size \in Nat
  BY Numbers DEF Typed, TypeOK, InRange
<1>2. Op = op /\ op \in {80, 86, 87}
  BY <1>1, OpIs DEF POP, JUMP, JUMPI
<1>3. Evm!Pops = popped /\ Evm!Pushes = 0 /\ popped \in 0 .. 2
  BY <1>2, PopsAre, PushesAre DEF JUMPI
<1>4. stack[1] = Popped(1) /\ stack[1] \in Nat
  <2>1. popped \in 0 .. 2
    OBVIOUS
  <2> QED
    BY <2>1, LookedUp
<1>5. Evm!Needed = memory_word_size
  <2>1. Op \notin MemoryOpcodes \cup ReturnOpcodes
    BY <1>2 DEF MemoryOpcodes, ReturnOpcodes, MLOAD, MSTORE, MSTORE8, RETURN, REVERT
  <2> QED
    BY <1>1, <2>1, NeededIs
<1>6. Evm!Jumps => Evm!IsDestination(stack[1])
  <2> SUFFICES ASSUME Evm!Jumps PROVE Evm!IsDestination(stack[1])
    OBVIOUS
  <2> DEFINE dest == stack[1]
  <2>1. dest \in Nat /\ dest < Len(code) /\ is_code(dest) /\ code[dest + 1] = JUMPDEST
    BY <1>4 DEF IsCodeByte, InCode
  <2> HIDE DEF dest
  <2>2. dest \in Evm!Starts
    BY <1>1, <2>1, CodeTyped, CodeIsStarts
  <2> QED
    BY <2>1, <2>2, SameNames DEF Evm!IsDestination, dest
<1>7. next_pc = IF Evm!Jumps THEN stack[1] ELSE program_counter + 1 + get_push_size(Op)
  <2>1. get_push_size(Op) = 0 /\ program_counter \in Nat
    BY <1>1, <1>2 DEF get_push_size, PushOpcodes, PUSH0, PUSH32, InRange
  <2> QED
    BY <1>4, <2>1
<1>8. {op} \subseteq Staying
  BY DEF Staying
<1>9. Evm!Needed <= memory_word_size
  BY <1>1, <1>5
<1>10. popped = Evm!Pops
  BY <1>3
<1> DEFINE pushed == <<>>
<1>11. pushed = <<>> /\ Evm!Pushes = 0
  BY <1>3
<1>12. step_state_transition_in_same_context(popped, pushed, next_pc, memory_word_size)
  OBVIOUS
<1> HIDE DEF pushed
<1>13. Evm!ExecuteTo(memory_word_size, Evm!Pushed)
  BY <1>1, <1>3, <1>6, <1>7, <1>8, <1>9, <1>10, <1>11, <1>12, Executes
<1> QED
  BY <1>5, <1>13 DEF Evm!Execute

LEMMA popImplements ==
  ASSUME Typed, Typed', pop
  PROVE  Evm!Execute
<1>1. AtOpcode({POP}) /\ stack_pops(1)
      /\ step_state_transition_in_same_context(1, <<>>, program_counter + 1, memory_word_size)
  BY DEF pop
<1>2. Op = POP
  BY <1>1, OpIs DEF Typed, TypeOK
<1>3. ~Evm!Jumps
  BY <1>2, NoJump DEF POP, JUMP, JUMPI
<1>4. 1 = (IF POP = JUMPI THEN 2 ELSE 1) /\ 1 \in 1 .. 2
  BY DEF POP, JUMPI
<1> QED
  BY <1>1, <1>3, <1>4, Dropping

LEMMA jumpImplements ==
  ASSUME Typed, Typed', jump
  PROVE  Evm!Execute
<1>1. AtOpcode({JUMP}) /\ stack_pops(1) /\ IsCodeByte(Popped(1), JUMPDEST)
      /\ step_state_transition_in_same_context(1, <<>>, Popped(1), memory_word_size)
  BY DEF jump
<1>2. Op = JUMP
  BY <1>1, OpIs DEF Typed, TypeOK
<1>3. Evm!Jumps
  BY <1>2, SameNames DEF Evm!Jumps, Op
<1>4. 1 = (IF JUMP = JUMPI THEN 2 ELSE 1) /\ 1 \in 1 .. 2
  BY DEF JUMP, JUMPI
<1> QED
  BY <1>1, <1>3, <1>4, Dropping

LEMMA jumpiImplements ==
  ASSUME Typed, Typed', jumpi
  PROVE  Evm!Execute
<1> DEFINE next_pc == IF Popped(2) = 0 THEN program_counter + 1 ELSE Popped(1)
<1>1. AtOpcode({JUMPI}) /\ stack_pops(2) /\ (Popped(2) # 0 => IsCodeByte(Popped(1), JUMPDEST))
      /\ step_state_transition_in_same_context(2, <<>>, next_pc, memory_word_size)
  BY DEF jumpi
<1>2. Op = JUMPI /\ stack[2] = Popped(2)
  BY <1>1, OpIs, LookedUp DEF Typed, TypeOK
<1>3. Evm!Jumps <=> Popped(2) # 0
  BY <1>2, SameNames DEF Evm!Jumps, Op, JUMP, JUMPI
<1>4. 2 = (IF JUMPI = JUMPI THEN 2 ELSE 1) /\ 2 \in 1 .. 2
  OBVIOUS
<1>5. /\ Evm!Jumps => next_pc = Popped(1) /\ IsCodeByte(Popped(1), JUMPDEST)
      /\ ~Evm!Jumps => next_pc = program_counter + 1
  BY <1>1, <1>3
<1> HIDE DEF next_pc
<1> QED
  BY <1>1, <1>4, <1>5, Dropping

LEMMA WordsGrow ==
  \A a, b \in Nat : WordsOf(a) \in Nat /\ (a <= b => WordsOf(a) <= WordsOf(b))
BY DEF WordsOf

LEMMA memoryImplements ==
  ASSUME Typed, Typed', memory
  PROVE  Evm!Execute \/ MemoryTooLarge
<1> DEFINE reach == Popped(1) + (IF Opcode = MSTORE8 THEN 1 ELSE 32)
           wanted == memory_expansion(memory_word_size, reach)
           size == next_memory_size(wanted)
           popped == IF Opcode = MLOAD THEN 1 ELSE 2
<1>1. AtOpcode(MemoryOpcodes) /\ stack_pops(popped) /\ wanted \in 0 .. MaxWords
      /\ IF Opcode = MLOAD
         THEN \E word \in Loaded :
                step_state_transition_in_same_context(1, <<word>>, program_counter + 1, size)
         ELSE step_state_transition_in_same_context(2, <<>>, program_counter + 1, size)
  BY DEF memory
<1>2. /\ Op = Opcode /\ Op \in MemoryOpcodes /\ Op \in {81, 82, 83} /\ InRange
      /\ MLOAD = 81 /\ MSTORE = 82 /\ MSTORE8 = 83
  BY <1>1, OpIs DEF Typed, TypeOK, MemoryOpcodes, MLOAD, MSTORE, MSTORE8
<1>3. popped \in 0 .. 2 /\ popped = Evm!Pops /\ 1 \in 1 .. popped
  BY <1>2, PopsAre
<1> HIDE DEF popped
<1>4. stack[1] = Popped(1) /\ stack[1] \in Nat
  BY <1>1, <1>3, LookedUp
<1>5. reach \in Nat \ {0} /\ memory_word_size \in Nat /\ MaxWords \in Nat
      /\ memory_word_size <= MaxWords
  BY <1>2, <1>4, Numbers DEF InRange
<1>6. Evm!Needed = Larger(memory_word_size, WordsOf(reach))
  BY <1>2, <1>4, NeededIs
<1> HIDE DEF reach
<1>7. wanted = WordsOf(memory_word_size + reach)
  BY <1>5 DEF memory_expansion
<1>8. WordsOf(reach) \in Nat /\ WordsOf(reach) <= wanted
  <2>1. reach \in Nat /\ memory_word_size + reach \in Nat /\ reach <= memory_word_size + reach
    BY <1>5
  <2> QED
    BY <1>7, <2>1, WordsGrow
<1> HIDE DEF wanted
<1>9. size \in 0 .. MaxWords /\ Evm!Needed <= size /\ Evm!Needed \in Nat /\ size \in Nat
  BY <1>1, <1>5, <1>6, <1>8 DEF next_memory_size, Larger
<1> HIDE DEF size
<1>10. ~Evm!Jumps
  BY <1>2, NoJump DEF JUMP, JUMPI
<1>11. program_counter + 1
         = IF Evm!Jumps THEN stack[1] ELSE program_counter + 1 + get_push_size(Op)
  <2>1. get_push_size(Op) = 0 /\ program_counter \in Nat
    BY <1>2 DEF get_push_size, PushOpcodes, PUSH0, PUSH32, InRange
  <2> QED
    BY <1>10, <2>1
<1>12. MemoryOpcodes \subseteq Staying
  BY DEF Staying
<1>13. ~Evm!Fails /\ Evm!ExecuteTo(size, Evm!Pushed)
  <2>1. CASE Opcode = MLOAD
    <3>1. PICK word \in Loaded :
            step_state_transition_in_same_context(1, <<word>>, program_counter + 1, size)
      BY <1>1, <2>1
    <3>2. Evm!Pushed = Loaded
      BY <1>2, <2>1, PushedIs
    <3>3. popped = 1
      BY <2>1 DEF popped
    <3>4. Evm!Pushes = 1
      BY <1>2, <2>1, PushesAre
    <3>5. \E w \in Evm!Pushed : <<word>> = <<w>>
      BY <3>2
    <3>6. step_state_transition_in_same_context(popped, <<word>>, program_counter + 1, size)
      BY <3>1, <3>3
    <3> QED
      BY <1>1, <1>3, <1>9, <1>10, <1>11, <1>12, <3>4, <3>5, <3>6, Executes
  <2>2. CASE Opcode # MLOAD
    <3>1. popped = 2 /\ step_state_transition_in_same_context(2, <<>>, program_counter + 1, size)
      BY <1>1, <2>2 DEF popped
    <3>2. Evm!Pushes = 0
      BY <1>2, <2>2, PushesAre
    <3> DEFINE pushed == <<>>
    <3>3. pushed = <<>>
      OBVIOUS
    <3>4. step_state_transition_in_same_context(popped, pushed, program_counter + 1, size)
      BY <3>1
    <3> HIDE DEF pushed
    <3> QED
      BY <1>1, <1>3, <1>9, <1>10, <1>11, <1>12, <3>2, <3>3, <3>4, Executes
  <2> QED
    BY <2>1, <2>2
<1>14. CASE size = Evm!Needed
  BY <1>13, <1>14 DEF Evm!Execute
<1>15. CASE size # Evm!Needed
  <2>1. size \in Evm!Needed + 1 .. MaxWords
    BY <1>9, <1>15, Numbers
  <2>2. Evm!Op \in MemoryOpcodes
    BY <1>2 DEF Op
  <2> QED
    BY <1>13, <2>1, <2>2 DEF MemoryTooLarge
<1> QED
  BY <1>14, <1>15

-----------------------------------------------------------------------------
(* The steps that end the call.                                            *)

\* No call starts with the gas for memory that ends past 64 bits, and 64 bits hold the number
\* of bytes of a word: gas limits have 64 bits, such memory costs over 2^109.
GasFits ==
  /\ 32 <= MaxU64
  /\ \A limit \in GasLimits :
       limit < memory_gas_cost(WordsOf(MaxU64)) - memory_gas_cost(MaxWords)

GasBounded ==
  status = "running" => gas_left < memory_gas_cost(WordsOf(MaxU64)) - memory_gas_cost(MaxWords)

LEMMA NothingMore ==
  ASSUME InRange, Evm!Needed = memory_word_size
  PROVE  Evm!Expansion(Evm!Needed) = 0
<1>1. memory_word_size \in Nat
  BY Numbers DEF InRange
<1>2. memory_gas_cost(memory_word_size) \in Nat
  BY <1>1, MoreMemoryCostsMore
<1>3. Evm!Expansion(memory_word_size)
        = memory_gas_cost(memory_word_size) - memory_gas_cost(memory_word_size)
  BY SameCosts DEF expansion_gas_cost
<1> QED
  BY <1>2, <1>3

LEMMA EndsIs ==
  ASSUME status = "running", NEW how, Ends(how)
  PROVE  \A remaining : gas_after' = remaining + (IF is_root THEN 0 ELSE CallerGas)
           => Evm!End(how, remaining)
<1>1. stack' = stack
  BY DEF Ends, stack
<1> QED
  BY <1>1 DEF Ends, Evm!End

LEMMA stopImplements ==
  ASSUME Typed, stop
  PROVE  Evm!Halt \/ AnyGasAfter
<1>1. /\ InRange /\ gas_left \in Nat /\ Len(stack) \in Nat /\ Len(stack) <= StackSize
      /\ CallerGas \in Nat
  <2>1. InRange /\ gas_left \in Nat /\ Len(stack) = StackSize - stack_pointer
        /\ stack_pointer \in 0 .. StackSize
    BY StackIs DEF Typed, TypeOK, InRange
  <2> QED
    BY <2>1, Numbers
<1>2. Ends("success") /\ (Unbound \/ step_state_transition_to_restored_context(gas_left))
  BY DEF stop
<1>3. Op = STOP /\ status = "running"
  <2>1. CASE AtOpcode({STOP})
    BY <1>1, <2>1, OpIs
  <2>2. CASE status = "running" /\ ~InCode(program_counter)
    BY <2>2, OpPastEnd
  <2> QED
    BY <2>1, <2>2 DEF stop
<1>4. Op = 0
  BY <1>3 DEF STOP
<1>5. Op \in ValidOpcodes /\ Op \notin MemoryOpcodes \cup ReturnOpcodes
  BY <1>4 DEF ValidOpcodes, MemoryOpcodes, ReturnOpcodes, MLOAD, MSTORE, MSTORE8, RETURN, REVERT
<1>6. Evm!Pops = 0 /\ Evm!Pushes = 0
  BY <1>4, PopsAre, PushesAre
<1>7. Evm!StaticCost = 0
  <2>1. constant_gas_cost[Op] = Evm!StaticCost
    BY <1>3, <1>5, StaticCostIs
  <2>2. constant_gas_cost[Op] = 0
    BY <1>3, <1>5 DEF constant_gas_cost
  <2> QED
    BY <2>1, <2>2
<1>8. Evm!Expansion(Evm!Needed) = 0
  BY <1>1, <1>5, NeededIs, NothingMore
<1>9. ~Evm!Jumps
  BY <1>4, NoJump DEF JUMP, JUMPI
<1>10. ~Evm!Fails
  <2>1. Evm!Op \in Evm!ValidOpcodes
    BY <1>5, SameSets DEF Op
  <2>2. ~(Len(stack) < 0) /\ ~(Len(stack) - 0 + 0 > StackSize) /\ ~(gas_left < 0 + 0)
    BY <1>1, Numbers
  <2> QED
    BY <1>6, <1>7, <1>8, <1>9, <2>1, <2>2 DEF Evm!Fails
<1>11. CASE Unbound
  BY <1>2, <1>3, <1>10, <1>11, SameNames DEF Unbound, AnyGasAfter, Op
<1>12. CASE step_state_transition_to_restored_context(gas_left)
  <2>1. gas_after' = gas_left + (IF is_root THEN 0 ELSE CallerGas)
    BY <1>1, <1>12 DEF step_state_transition_to_restored_context
  <2>2. Evm!End("success", gas_left)
    BY <1>2, <1>3, <2>1, EndsIs
  <2>3. gas_left - Evm!Expansion(Evm!Needed) = gas_left
    BY <1>1, <1>8
  <2>4. Evm!Op = Evm!STOP /\ Evm!Op # Evm!REVERT
    BY <1>3, SameNames DEF Op, STOP, REVERT
  <2> QED
    BY <1>10, <2>2, <2>3, <2>4 DEF Evm!Halt
<1> QED
  BY <1>2, <1>11, <1>12

LEMMA return_revertImplements ==
  ASSUME Typed, return_revert
  PROVE  ReturnedForOther \/ AnythingReverts
<1> DEFINE wanted == WordsOf(Popped(1) + Popped(2))
           size == next_memory_size(wanted)
<1>1. /\ AtOpcode(0 .. 255) /\ stack_pops(2) /\ wanted \in 0 .. MaxWords
      /\ \/ is_root /\ gas_after' = gas_left
         \/ step_state_transition_to_restored_context(gas_left - expansion_gas_cost(size))
      /\ Ends(IF Opcode = RETURN THEN "success" ELSE "reverted")
  BY DEF return_revert
<1>2. Op = Opcode /\ Op \in 0 .. 255 /\ status = "running" /\ InRange
  BY <1>1, OpIs DEF Typed, TypeOK
<1>3. CASE Op \in ReturnOpcodes
  <2>1. Evm!Op \in ReturnOpcodes /\ Evm!Op = Opcode
    BY <1>2, <1>3 DEF Op
  <2>2. size = Larger(memory_word_size, Evm!Ceiling(stack[1] + stack[2]))
    <3>1. stack[1] = Popped(1) /\ stack[2] = Popped(2)
      BY <1>1, LookedUp
    <3> QED
      BY <3>1, SameCosts DEF next_memory_size
  <2>3. Evm!Expansion(size) = expansion_gas_cost(size)
    BY SameCosts
  <2>4. expansion_gas_cost(size) \in Int
    <3>1. wanted \in Nat /\ wanted <= MaxWords
      BY <1>1, Numbers
    <3> HIDE DEF wanted
    <3> QED
      BY <1>2, <3>1, Costs
  <2> HIDE DEF size
  <2>5. IF is_root THEN gas_after' = gas_left
        ELSE gas_after' = CallerGas + gas_left - Evm!Expansion(size)
    <3>1. CallerGas \in Nat /\ gas_left \in Nat
      BY <1>2, Numbers DEF InRange
    <3>2. CASE is_root
      BY <1>1, <3>2 DEF step_state_transition_to_restored_context
    <3>3. CASE ~is_root
      <4>1. gas_after' = CallerGas + (gas_left - expansion_gas_cost(size))
        BY <1>1, <3>3 DEF step_state_transition_to_restored_context
      <4> QED
        BY <2>3, <2>4, <3>1, <3>3, <4>1
    <3> QED
      BY <3>2, <3>3
  <2> QED
    BY <1>1, <2>1, <2>2, <2>5 DEF ReturnedForOther
<1>4. CASE Op \notin ReturnOpcodes
  <2>1. Opcode # RETURN /\ Opcode \in (0 .. 255) \ ReturnOpcodes
    BY <1>2, <1>4 DEF ReturnOpcodes
  <2>2. AtOpcode((0 .. 255) \ ReturnOpcodes)
    BY <1>1, <2>1 DEF AtOpcode
  <2> QED
    BY <1>1, <2>1, <2>2 DEF AnythingReverts
<1> QED
  BY <1>3, <1>4

\* A step into an error state is right where the machine fails.
LEMMA FailingImplements ==
  ASSUME status = "running", constrain_error_state, Evm!Fails
  PROVE  Evm!Fail \/ AnyGasAfter
<1>1. Ends("failed") /\ (Unbound \/ step_state_transition_to_restored_context(0))
  BY DEF constrain_error_state
<1>2. CASE Unbound
  BY <1>1, <1>2 DEF Unbound, AnyGasAfter
<1>3. CASE step_state_transition_to_restored_context(0)
  <2>1. gas_after' = 0 + (IF is_root THEN 0 ELSE CallerGas)
    BY <1>3, Numbers DEF step_state_transition_to_restored_context
  <2>2. Evm!End("failed", 0)
    BY <1>1, <2>1, EndsIs
  <2> QED
    BY <2>2 DEF Evm!Fail
<1> QED
  BY <1>1, <1>2, <1>3

LEMMA error_invalid_opcodeImplements ==
  ASSUME Typed, error_invalid_opcode
  PROVE  Evm!Fail \/ AnyGasAfter
<1>1. AtOpcode((0 .. 255) \ ValidOpcodes) /\ constrain_error_state
  BY DEF error_invalid_opcode
<1>2. Op \notin ValidOpcodes /\ status = "running"
  BY <1>1, OpIs DEF Typed, TypeOK
<1>3. Evm!Fails
  BY <1>2, SameSets DEF Evm!Fails, Op
<1> QED
  BY <1>1, <1>2, <1>3, FailingImplements

LEMMA error_stackImplements ==
  ASSUME Typed, error_stack
  PROVE  Evm!Fail \/ AnyGasAfter
<1>1. /\ AtOpcode(ValidOpcodes) /\ constrain_error_state
      /\ <<Opcode, stack_pointer>> \in stack_overflow_pairs \cup stack_underflow_pairs
  BY DEF error_stack
<1>2. Op = Opcode /\ Op \in ValidOpcodes /\ status = "running"
  BY <1>1, OpIs DEF Typed, TypeOK
<1>3. Len(stack) = StackSize - stack_pointer /\ stack_pointer \in 0 .. StackSize
      /\ StackSize \in Nat
  BY StackIs, Numbers
<1> DEFINE pops == Evm!Pops
           pushes == Evm!Pushes
<1>4. /\ min_stack_pointer(Op) = pushes - pops /\ max_stack_pointer(Op) = StackSize - pops
      /\ pops \in Nat /\ pushes \in Nat
  BY <1>2, StackPointersAre
<1> HIDE DEF pops, pushes
<1>5. CASE <<Opcode, stack_pointer>> \in stack_overflow_pairs
  <2>1. PICK op \in ValidOpcodes :
          <<Opcode, stack_pointer>> \in {op} \X (0 .. min_stack_pointer(op) - 1)
    BY <1>5 DEF stack_overflow_pairs
  <2>2. stack_pointer \in 0 .. min_stack_pointer(Op) - 1
    BY <1>2, <2>1
  <2>3. Len(stack) - pops + pushes > StackSize
    BY <1>3, <1>4, <2>2
  <2>4. Evm!Fails
    BY <2>3 DEF Evm!Fails, pops, pushes
  <2> QED
    BY <1>1, <1>2, <2>4, FailingImplements
<1>6. CASE <<Opcode, stack_pointer>> \in stack_underflow_pairs
  <2>1. PICK op \in ValidOpcodes :
          <<Opcode, stack_pointer>>
            \in {op} \X {pointer + 1 : pointer \in max_stack_pointer(op) .. StackSize - 1}
    BY <1>6 DEF stack_underflow_pairs
  <2>2. PICK pointer \in max_stack_pointer(Op) .. StackSize - 1 : stack_pointer = pointer + 1
    BY <1>2, <2>1
  <2>3. Len(stack) < pops
    BY <1>3, <1>4, <2>2
  <2>4. Evm!Fails
    BY <2>3 DEF Evm!Fails, pops
  <2> QED
    BY <1>1, <1>2, <2>4, FailingImplements
<1> QED
  BY <1>1, <1>5, <1>6

LEMMA error_oog_constantImplements ==
  ASSUME Typed, error_oog_constant
  PROVE  Evm!Fail \/ AnyGasAfter
<1>1. /\ AtOpcode(ValidOpcodes) /\ constrain_error_state
      /\ <<Opcode, constant_gas_cost[Opcode]>> \in constant_gas_cost_pairs
      /\ gas_left < constant_gas_cost[Opcode]
  BY DEF error_oog_constant
<1>2. Op = Opcode /\ Op \in ValidOpcodes /\ status = "running" /\ InRange
  BY <1>1, OpIs DEF Typed, TypeOK
<1>3. ~has_dynamic_gas(Op)
  BY <1>1, <1>2 DEF constant_gas_cost_pairs
<1>4. constant_gas_cost[Op] = Evm!StaticCost /\ Evm!StaticCost \in Nat
  BY <1>2, <1>3, StaticCostIs
<1>5. Op \notin MemoryOpcodes \cup ReturnOpcodes
  BY <1>3 DEF has_dynamic_gas
<1>6. Evm!Expansion(Evm!Needed) = 0
  BY <1>2, <1>5, NeededIs, NothingMore
<1>7. gas_left < Evm!StaticCost + Evm!Expansion(Evm!Needed)
  BY <1>1, <1>2, <1>4, <1>6
<1>8. Evm!Fails
  BY <1>7 DEF Evm!Fails
<1> QED
  BY <1>1, <1>2, <1>8, FailingImplements

LEMMA error_invalid_jumpImplements ==
  ASSUME Typed, error_invalid_jump
  PROVE  Evm!Fail \/ AnyGasAfter \/ JumpIsLost
<1> DEFINE popped == IF Opcode = JUMPI THEN 2 ELSE 1
<1>1. /\ AtOpcode({JUMP, JUMPI}) /\ stack_pops(popped) /\ (Opcode = JUMPI => Popped(2) # 0)
      /\ IF InCode(Popped(1))
         THEN ~IsCodeByte(Popped(1), JUMPDEST) /\ constrain_error_state
         ELSE Ends("lost") /\ UNCHANGED gas_after
  BY DEF error_invalid_jump
<1>2. Op = Opcode /\ Op \in {JUMP, JUMPI} /\ status = "running" /\ InRange
  BY <1>1, OpIs DEF Typed, TypeOK
<1>3. popped \in 0 .. 2 /\ popped \in 1 .. 2 /\ popped = Evm!Pops
  BY <1>2, PopsAre DEF JUMP, JUMPI
<1>4. /\ stack[1] = Popped(1) /\ stack[1] \in Nat
      /\ Op = JUMPI => stack[2] = Popped(2)
  <2>1. \A n \in 1 .. popped : stack[n] = Popped(n) /\ stack[n] \in Nat
    BY <1>1, <1>3, LookedUp
  <2>2. 1 \in 1 .. popped /\ (Op = JUMPI => 2 \in 1 .. popped)
    BY <1>2
  <2> QED
    BY <2>1, <2>2
<1>5. Evm!Jumps
  BY <1>1, <1>2, <1>4, SameNames DEF Evm!Jumps, Op
<1>6. CASE InCode(Popped(1))
  <2> DEFINE dest == stack[1]
  <2>1. dest \in Nat /\ dest < Len(code) /\ ~(is_code(dest) /\ code[dest + 1] = JUMPDEST)
        /\ constrain_error_state
    BY <1>1, <1>4, <1>6 DEF IsCodeByte, InCode
  <2> HIDE DEF dest
  <2>2. is_code(dest) <=> dest \in Evm!Starts
    BY <1>2, <2>1, CodeTyped, CodeIsStarts
  <2>3. ~Evm!IsDestination(stack[1])
    BY <2>1, <2>2, SameNames DEF Evm!IsDestination, dest
  <2>4. Evm!Fails
    BY <1>5, <2>3 DEF Evm!Fails
  <2> QED
    BY <1>2, <2>1, <2>4, FailingImplements
<1>7. CASE ~InCode(Popped(1))
  <2>1. Ends("lost") /\ ~InCode(stack[1]) /\ stack_pops(Evm!Pops)
    BY <1>1, <1>3, <1>4, <1>7
  <2> QED
    BY <1>5, <2>1 DEF JumpIsLost
<1> QED
  BY <1>6, <1>7

\* What more memory than the gas pays for, by whatever it was bound to, does.
LEMMA TooMuchMemory ==
  ASSUME InRange, Op \in MemoryOpcodes \cup ReturnOpcodes, NEW size \in Nat,
         memory_word_size <= size, size <= Evm!Needed, Evm!Needed \in Nat,
         gas_left < Evm!StaticCost + Evm!Expansion(size)
  PROVE  Evm!Fails
<1> DEFINE needed == Evm!Needed
<1>1. needed \in Nat /\ size <= needed
  OBVIOUS
<1> HIDE DEF needed
<1>2. /\ Evm!Expansion(size) \in Nat /\ Evm!Expansion(needed) \in Nat
      /\ Evm!Expansion(size) <= Evm!Expansion(needed)
  BY <1>1, ExpansionGrows
<1>3. Evm!StaticCost \in Nat
  <2>1. Op \in ValidOpcodes
    BY DEF ValidOpcodes, MemoryOpcodes, ReturnOpcodes, MLOAD, MSTORE, MSTORE8, RETURN, REVERT,
           PUSH0
  <2> QED
    BY <2>1, StaticCostIs
<1>4. gas_left \in Nat
  BY DEF InRange
<1>5. gas_left < Evm!StaticCost + Evm!Expansion(needed)
  BY <1>2, <1>3, <1>4
<1> QED
  BY <1>5 DEF Evm!Fails, needed

LEMMA MemoryOpcodesAre ==
  ASSUME InRange, Op \in MemoryOpcodes
  PROVE  /\ Evm!Pops = (IF Op = MLOAD THEN 1 ELSE 2) /\ Evm!StaticCost = constant_gas_cost[MLOAD]
         /\ Evm!Needed
              = Larger(memory_word_size, WordsOf(stack[1] + (IF Op = MSTORE8 THEN 1 ELSE 32)))
<1>1. Op \in {81, 82, 83} /\ MLOAD = 81 /\ MSTORE = 82 /\ MSTORE8 = 83
  BY DEF MemoryOpcodes, MLOAD, MSTORE, MSTORE8
<1>2. Evm!Pops = IF Op = MLOAD THEN 1 ELSE 2
  BY <1>1, PopsAre
<1>3. Evm!StaticCost = constant_gas_cost[MLOAD]
  <2>1. Op \in ValidOpcodes /\ MLOAD \in ValidOpcodes
    BY <1>1 DEF ValidOpcodes
  <2>2. constant_gas_cost[Op] = Evm!StaticCost
    BY <2>1, StaticCostIs
  <2>3. constant_gas_cost[Op] = 3 /\ constant_gas_cost[MLOAD] = 3
    BY <1>1, <2>1 DEF constant_gas_cost, STOP, ReturnOpcodes, RETURN, REVERT, JUMPDEST,
           ContextOpcodes, BlockOpcodes, SELFBALANCE, CODESIZE, POP, MSIZE, GAS, PUSH0, JUMP, JUMPI,
           BLOCKHASH
  <2> QED
    BY <2>2, <2>3
<1>4. Evm!Needed = Larger(memory_word_size, WordsOf(stack[1] + (IF Op = MSTORE8 THEN 1 ELSE 32)))
  BY <1>1, NeededIs
<1> QED
  BY <1>2, <1>3, <1>4

LEMMA ReturnOpcodesAre ==
  ASSUME InRange, Op \in ReturnOpcodes
  PROVE  /\ Evm!Pops = 2 /\ Evm!StaticCost = 0
         /\ stack[2] = 0 => Evm!Needed = memory_word_size
         /\ stack[2] # 0
              => Evm!Needed = Larger(memory_word_size, WordsOf(stack[1] + stack[2]))
<1>1. Op \in {243, 253}
  BY DEF ReturnOpcodes, RETURN, REVERT
<1>2. Evm!Pops = 2
  BY <1>1, PopsAre
<1>3. Evm!StaticCost = 0
  <2>1. Op \in ValidOpcodes
    BY <1>1 DEF ValidOpcodes, REVERT
  <2>2. constant_gas_cost[Op] = Evm!StaticCost
    BY <2>1, StaticCostIs
  <2>3. constant_gas_cost[Op] = 0
    BY <2>1 DEF constant_gas_cost
  <2> QED
    BY <2>2, <2>3
<1> QED
  BY <1>2, <1>3, NeededIs

LEMMA error_oog_static_memory_expansionImplements ==
  ASSUME Typed, error_oog_static_memory_expansion
  PROVE  Evm!Fail \/ AnyGasAfter
<1> DEFINE reach == Popped(1) + (IF Opcode = MSTORE8 THEN 1 ELSE 32)
           size == next_memory_size(WordsOf(reach))
<1>1. /\ AtOpcode(MemoryOpcodes) /\ stack_pops(1) /\ constrain_error_state
      /\ WordsOf(reach) \in 0 .. MaxWords
      /\ gas_left < constant_gas_cost[MLOAD] + expansion_gas_cost(size)
  BY DEF error_oog_static_memory_expansion
<1>2. Op = Opcode /\ Op \in MemoryOpcodes /\ status = "running" /\ InRange
  BY <1>1, OpIs DEF Typed, TypeOK
<1>3. stack[1] = Popped(1)
  BY <1>1, LookedUp
<1>4. Evm!StaticCost = constant_gas_cost[MLOAD] /\ Evm!Needed = size
  BY <1>2, <1>3, MemoryOpcodesAre DEF next_memory_size
<1>5. size \in Nat /\ memory_word_size <= size
  <2>1. WordsOf(reach) \in Nat /\ memory_word_size \in Nat
    BY <1>1, <1>2, Numbers DEF InRange
  <2> HIDE DEF reach
  <2> QED
    BY <2>1 DEF next_memory_size, Larger
<1> HIDE DEF size
<1>6. gas_left < Evm!StaticCost + Evm!Expansion(size)
  BY <1>1, <1>4, SameCosts
<1>7. size <= Evm!Needed /\ Evm!Needed \in Nat
  BY <1>4, <1>5
<1>8. Evm!Fails
  BY <1>2, <1>5, <1>6, <1>7, TooMuchMemory
<1> QED
  BY <1>1, <1>2, <1>8, FailingImplements

LEMMA error_oog_dynamic_memory_expansionImplements ==
  ASSUME Typed, error_oog_dynamic_memory_expansion
  PROVE  Evm!Fail \/ AnyGasAfter
<1> DEFINE wanted == memory_expansion(Popped(1), Popped(2))
           size == next_memory_size(wanted)
<1>1. /\ AtOpcode(ReturnOpcodes) /\ stack_pops(2) /\ constrain_error_state
      /\ wanted \in 0 .. MaxWords /\ gas_left < expansion_gas_cost(size)
  BY DEF error_oog_dynamic_memory_expansion
<1>2. Op \in ReturnOpcodes /\ status = "running" /\ InRange
  BY <1>1, OpIs DEF Typed, TypeOK
<1>3. stack[1] = Popped(1) /\ stack[2] = Popped(2)
  BY <1>1, LookedUp
<1>4. memory_word_size \in Nat /\ wanted \in Nat /\ gas_left \in Nat
  BY <1>1, <1>2, Numbers DEF InRange
<1>5. Evm!StaticCost = 0 /\ Evm!Needed = size
  <2>1. CASE Popped(2) = 0
    <3>1. wanted = 0
      BY <2>1 DEF memory_expansion
    <3>2. size = memory_word_size
      BY <1>4, <3>1 DEF next_memory_size, Larger
    <3> QED
      BY <1>2, <1>3, <2>1, <3>2, ReturnOpcodesAre
  <2>2. CASE Popped(2) # 0
    <3>1. wanted = WordsOf(stack[1] + stack[2])
      BY <1>3, <2>2 DEF memory_expansion
    <3> QED
      BY <1>2, <1>3, <2>2, <3>1, ReturnOpcodesAre DEF next_memory_size
  <2> QED
    BY <2>1, <2>2
<1> HIDE DEF wanted
<1>6. size \in Nat /\ memory_word_size <= size
  BY <1>4 DEF next_memory_size, Larger
<1> HIDE DEF size
<1>7. gas_left < Evm!StaticCost + Evm!Expansion(size)
  <2>1. memory_word_size <= size /\ size <= size
    BY <1>6
  <2>2. Evm!Expansion(size) \in Nat
    BY <1>2, <1>6, <2>1, ExpansionGrows
  <2> QED
    BY <1>1, <1>5, <2>2, SameCosts
<1>8. size <= Evm!Needed /\ Evm!Needed \in Nat
  BY <1>5, <1>6
<1>9. Evm!Fails
  BY <1>2, <1>6, <1>7, <1>8, TooMuchMemory
<1> QED
  BY <1>1, <1>2, <1>9, FailingImplements

LEMMA error_gas_uint_overflowImplements ==
  ASSUME Typed, GasFits, GasBounded, error_gas_uint_overflow
  PROVE  Evm!Fail \/ AnyGasAfter
<1> DEFINE popped == IF Opcode = MLOAD THEN 1 ELSE 2
           offset == Popped(1)
           length == IF Opcode \in ReturnOpcodes THEN Popped(2) ELSE 32
           least == WordsOf(MaxU64)
<1>1. /\ AtOpcode(MemoryOpcodes \cup ReturnOpcodes) /\ stack_pops(popped)
      /\ memory_size_overflows(offset, length) /\ constrain_error_state
  BY DEF error_gas_uint_overflow
<1>2. /\ Op = Opcode /\ Op \in MemoryOpcodes \cup ReturnOpcodes /\ status = "running" /\ InRange
  BY <1>1, OpIs DEF Typed, TypeOK
<1>3. Op \in MemoryOpcodes => Op \notin ReturnOpcodes
  BY DEF MemoryOpcodes, ReturnOpcodes, MLOAD, MSTORE, MSTORE8, RETURN, REVERT
<1>4. popped \in 0 .. 2 /\ popped \in 1 .. 2 /\ (Op \in ReturnOpcodes => popped = 2)
  <2>1. MLOAD \notin ReturnOpcodes
    BY DEF ReturnOpcodes, MLOAD, RETURN, REVERT
  <2> QED
    BY <1>2, <2>1
<1> HIDE DEF popped
<1>5. \A n \in 1 .. popped : stack[n] = Popped(n) /\ stack[n] \in Nat
  BY <1>1, <1>4, LookedUp
<1>6. stack[1] = offset /\ offset \in Nat
  BY <1>4, <1>5
<1>7. Op \in ReturnOpcodes => stack[2] = length /\ length \in Nat
  <2>1. Op \in ReturnOpcodes => 2 \in 1 .. popped
    BY <1>4
  <2> QED
    BY <1>2, <1>5, <2>1
<1>8. Op \in MemoryOpcodes => length = 32
  BY <1>2, <1>3
<1> HIDE DEF offset, length
<1>9. MaxU64 \in Nat /\ memory_word_size \in Nat /\ MaxWords \in Nat /\ memory_word_size <= MaxWords
      /\ gas_left \in Nat
  BY <1>2, Numbers DEF InRange
<1>10. length # 0 /\ (length > MaxU64 \/ offset > MaxU64)
  <2>1. MaxOffset \in Nat
    BY CallStepsAssumption DEF CallStepsAssumption
  <2> QED
    BY <1>1, <1>9, <2>1 DEF memory_size_overflows
<1>11. PICK end \in Nat :
         MaxU64 <= end /\ Evm!Needed = Larger(memory_word_size, WordsOf(end))
  <2>1. CASE Op \in ReturnOpcodes
    <3>1. offset + length \in Nat /\ MaxU64 <= offset + length
      BY <1>6, <1>7, <1>9, <1>10, <2>1
    <3>2. Evm!Needed = Larger(memory_word_size, WordsOf(offset + length))
      BY <1>2, <1>6, <1>7, <1>10, <2>1, ReturnOpcodesAre
    <3> QED
      BY <3>1, <3>2
  <2>2. CASE Op \in MemoryOpcodes
    <3> DEFINE reach == offset + (IF Op = MSTORE8 THEN 1 ELSE 32)
    <3>1. offset > MaxU64
      BY <1>8, <1>9, <1>10, <2>2 DEF GasFits
    <3>2. reach \in Nat /\ MaxU64 <= reach
      BY <1>6, <1>9, <3>1
    <3>3. Evm!Needed = Larger(memory_word_size, WordsOf(reach))
      BY <1>2, <1>6, <2>2, MemoryOpcodesAre
    <3> HIDE DEF reach
    <3> QED
      BY <3>2, <3>3
  <2> QED
    BY <1>2, <2>1, <2>2
<1> DEFINE needed == Evm!Needed
<1>12. needed \in Nat /\ memory_word_size <= needed /\ least <= needed /\ least \in Nat
  <2>1. WordsOf(end) \in Nat /\ least \in Nat /\ least <= WordsOf(end)
    BY <1>9, <1>11, WordsGrow
  <2> HIDE DEF least
  <2> QED
    BY <1>9, <1>11, <2>1 DEF Larger
<1> HIDE DEF needed, least
<1>13. /\ memory_gas_cost(memory_word_size) \in Nat /\ memory_gas_cost(MaxWords) \in Nat
       /\ memory_gas_cost(needed) \in Nat /\ memory_gas_cost(least) \in Nat
       /\ memory_gas_cost(memory_word_size) <= memory_gas_cost(MaxWords)
       /\ memory_gas_cost(least) <= memory_gas_cost(needed)
  BY <1>9, <1>12, MoreMemoryCostsMore
<1>14. gas_left < memory_gas_cost(least) - memory_gas_cost(MaxWords)
  BY <1>2 DEF GasBounded, least
<1>15. Evm!Expansion(needed) = memory_gas_cost(needed) - memory_gas_cost(memory_word_size)
  BY SameCosts DEF expansion_gas_cost
<1>16. Evm!StaticCost \in Nat
  <2>1. Op \in ValidOpcodes
    BY <1>2 DEF ValidOpcodes, MemoryOpcodes, ReturnOpcodes, MLOAD, MSTORE, MSTORE8, RETURN,
                REVERT, PUSH0
  <2> QED
    BY <1>2, <2>1, StaticCostIs
<1>17. gas_left < Evm!StaticCost + Evm!Expansion(needed)
  BY <1>9, <1>13, <1>14, <1>15, <1>16
<1>18. Evm!Fails
  BY <1>17 DEF Evm!Fails, needed
<1> QED
  BY <1>1, <1>2, <1>18, FailingImplements

LEMMA StepImplements ==
  ASSUME WordsFit, GasFits, Typed, GasBounded, Next
  PROVE  Allowed
<1>1. Typed'
  BY StepTyped
<1>2. CASE \/ add_sub \/ pop \/ push \/ gas \/ msize \/ codesize \/ jump \/ jumpi
  <2>1. Evm!Execute
    BY <1>1, <1>2, add_subImplements, popImplements, pushImplements, gasImplements,
       msizeImplements, codesizeImplements, jumpImplements, jumpiImplements
  <2> QED
    BY <2>1 DEF Allowed, Evm!Next
<1>3. CASE \/ address \/ origin \/ caller \/ callvalue \/ calldatasize \/ gasprice
           \/ returndatasize \/ selfbalance \/ blockctx
  BY <1>1, <1>3, ContextImplements DEF Allowed, Evm!Next
<1>4. CASE blockhash \/ memory
  <2>1. Evm!Execute \/ OldestHashMissing \/ MemoryTooLarge
    BY <1>1, <1>4, blockhashImplements, memoryImplements
  <2> QED
    BY <2>1 DEF Allowed, Evm!Next
<1>5. CASE stop
  BY <1>5, stopImplements DEF Allowed, Evm!Next
<1>6. CASE return_revert
  BY <1>6, return_revertImplements DEF Allowed
<1>7. CASE \/ error_invalid_opcode \/ error_stack \/ error_oog_constant \/ error_invalid_jump
           \/ error_oog_static_memory_expansion \/ error_oog_dynamic_memory_expansion
           \/ error_gas_uint_overflow
  <2>1. Evm!Fail \/ AnyGasAfter \/ JumpIsLost
    BY <1>7, error_invalid_opcodeImplements, error_stackImplements,
       error_oog_constantImplements, error_invalid_jumpImplements,
       error_oog_static_memory_expansionImplements,
       error_oog_dynamic_memory_expansionImplements, error_gas_uint_overflowImplements
  <2> QED
    BY <2>1 DEF Allowed, Evm!Next
<1> QED
  BY <1>2, <1>3, <1>4, <1>5, <1>6, <1>7 DEF Next

LEMMA StepBounded ==
  ASSUME InRange, GasBounded, Next
  PROVE  GasBounded'
<1>1. status = "running"
  BY DEF Next, AtOpcode, add_sub, pop, push, gas, msize, codesize, address, origin, caller,
         callvalue, calldatasize, gasprice, returndatasize, selfbalance, blockctx, blockhash,
         jump, jumpi, memory, stop, return_revert, error_invalid_opcode, error_stack,
         error_oog_constant, error_invalid_jump, error_oog_static_memory_expansion,
         error_oog_dynamic_memory_expansion, error_gas_uint_overflow
<1>2. InRange' /\ (status' = "running" => gas_left' < gas_left)
  BY StepInRange, CallStepsAssumption
<1> DEFINE bound == memory_gas_cost(WordsOf(MaxU64)) - memory_gas_cost(MaxWords)
<1>3. bound \in Int
  <2>1. MaxU64 \in Nat /\ MaxWords \in Nat
    BY Numbers
  <2>2. WordsOf(MaxU64) \in Nat
    BY <2>1, WordsGrow
  <2>3. memory_gas_cost(WordsOf(MaxU64)) \in Nat /\ memory_gas_cost(MaxWords) \in Nat
    BY <2>1, <2>2, MoreMemoryCostsMore
  <2> QED
    BY <2>3
<1>4. gas_left < bound /\ gas_left \in Nat /\ gas_left' \in Nat
  BY <1>1, <1>2 DEF GasBounded, InRange
<1> HIDE DEF bound
<1>5. status' = "running" => gas_left' < bound
  BY <1>2, <1>3, <1>4
<1> QED
  BY <1>5 DEF GasBounded, bound

LEMMA InitImplements ==
  ASSUME Init
  PROVE  Evm!Init
<1>1. code \in Seq(0 .. 255) /\ gas_left \in Nat
  BY CallStepsAssumption DEF CallStepsAssumption, Init
<1>2. stack = <<>>
  <2>1. 1 .. StackSize - stack_pointer = {}
    BY Numbers DEF Init
  <2>2. stack = [i \in {} |-> cells[stack_pointer + i - 1]]
    BY <2>1 DEF stack
  <2> QED
    BY <2>2
<1> QED
  BY <1>1, <1>2 DEF Init, Evm!Init

LEMMA StutterImplements ==
  ASSUME UNCHANGED vars
  PROVE  UNCHANGED Evm!vars
BY DEF vars, Evm!vars, stack

\* Whatever the code of a call, every step that the constraints allow is one of the EVM
\* (CallMachine) or one of the six gaps: program counter, stack, gas, size of memory, and how
\* the call ends with what gas (ImplementsEvm).
THEOREM StepsAreTheEvms ==
  ASSUME WordsFit, GasFits
  PROVE  Spec => ImplementsEvm
<1> DEFINE Ind == Typed /\ GasBounded
           EvmStep == [Allowed]_(Evm!vars)
<1>1. Init => Ind /\ Evm!Init
  <2>1. Init => GasBounded
    BY DEF Init, GasBounded, GasFits
  <2> QED
    BY <2>1, InitTyped, InitImplements
<1>2. Ind /\ [Next]_vars => Ind'
  <2>1. ASSUME Ind, Next PROVE Ind'
    <3>1. InRange
      BY <2>1 DEF Typed, TypeOK
    <3> QED
      BY <2>1, <3>1, StepTyped, StepBounded
  <2>2. ASSUME Ind, UNCHANGED vars PROVE Ind'
    BY <2>2, StutterTyped DEF GasBounded, vars
  <2> QED
    BY <2>1, <2>2
<1>3. Ind /\ [Next]_vars => EvmStep
  BY StepImplements, StutterImplements
<1>4. [][Allowed]_(Evm!vars) => [][\/ Evm!Next
                                  \/ MemoryTooLarge \/ OldestHashMissing \/ JumpIsLost
                                  \/ AnyGasAfter \/ ReturnedForOther \/ AnythingReverts]_(Evm!vars)
  <2>1. [Allowed]_(Evm!vars) => [\/ Evm!Next
                                \/ MemoryTooLarge \/ OldestHashMissing \/ JumpIsLost
                                \/ AnyGasAfter \/ ReturnedForOther \/ AnythingReverts]_(Evm!vars)
    BY DEF Allowed
  <2> QED
    BY <2>1, PTL
<1> HIDE DEF Ind
<1> QED
  BY <1>1, <1>2, <1>3, <1>4, PTL DEF Spec, ImplementsEvm
==============================================================================
