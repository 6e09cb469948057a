------------------------------ MODULE CopyOpcodes ------------------------------
(***************************************************************************)
(* The steps of the EVM circuit that look the copy table up, with the      *)
(* copies that answer them: a contract (the caller), which is the root     *)
(* call, and a callee of it, a contract or the identity precompile.        *)
(*                                                                         *)
(* A step of the EVM circuit begins with its lookups; the copy circuit     *)
(* then lays the steps of a copy for each, in the order of their counters, *)
(* and the step ends.  Counters are those of the copies alone, from the    *)
(* one the first copy is looked up with.                                   *)
(***************************************************************************)
EXTENDS CopyCircuit, FiniteSets

CONSTANTS
  Bytes,      \* the values of a byte, with 0
  CallData,   \* the call data of the transaction, a sequence of bytes
  Code,       \* the code of the caller, a sequence of bytes
  MaxAddr,    \* bound on the addresses of memory
  MaxLength,  \* bound on the lengths of copies and the offsets into their source
  Ranges,     \* the ranges of memory that are call data, return data, logged, hashed
  Opcodes     \* the opcodes that are executed

Caller == "caller"
Callee == "callee"
Calls == {Caller, Callee}

\* The other ids of copies.
TxId == "tx"
CodeHash == "code"

Addresses == 0 .. MaxAddr
Lengths == 0 .. MaxLength

VARIABLES
  memory,        \* of each call
  call_id,       \* the current call
  is_precompile, \* the callee is the identity precompile
  context,       \* where the callee finds its call data and leaves its return data
  last_callee,   \* where the caller finds its return data
  log,           \* the data the step has logged, from an index to a byte
  opcode,        \* the step being proved, with its operands
  todo,          \* its lookups that are not answered yet
  step,          \* the step of the copy laid last
  copy_rwc_inc,  \* the sum of rwc_inc of the copies looked up
  rlc_acc,       \* rlc_acc of the copy looked up last
  counters,      \* the counters of the rows looked up in the rw table
  before,        \* the memory before the step
  called         \* the memory of the caller when it called the identity precompile

vars == <<memory, call_id, is_precompile, context, last_callee, log, opcode, todo, step,
          copy_rwc_inc, rlc_acc, counters, before, called>>
frame == <<call_id, is_precompile, context, last_callee, called>>

Fresh == [a \in Addresses |-> 0]
NoOpcode == [name |-> "none"]
NoStep == [name |-> "none"]
NoData == [offset |-> 0, length |-> 0]
NoContext == [call_data |-> NoData, return_data |-> NoData]
NoMemory == [c \in Calls |-> Fresh]
NoLog == [i \in {} |-> 0]

BytesAssumption ==
  /\ Bytes \subseteq Nat /\ 0 \in Bytes
  /\ CallData \in Seq(Bytes) /\ Code \in Seq(Bytes)
ASSUME BytesAssumption

\* With a range, the one that begins at 0, where the identity precompile leaves its output.
RangesAssumption ==
  /\ MaxAddr \in Nat /\ MaxLength \in Nat
  /\ Ranges \subseteq [offset : Addresses, length : Lengths] /\ NoData \in Ranges
  /\ \A x \in Ranges : x.offset + x.length <= MaxAddr + 1
                      /\ [offset |-> 0, length |-> x.length] \in Ranges
ASSUME RangesAssumption

Executing == opcode # NoOpcode
Running(name) == name \in Opcodes /\ ~Executing
IsRoot == call_id = Caller

-----------------------------------------------------------------------------
(* Laying the steps of a copy.                                             *)

ByteAt(data, index) == data[index + 1]
HasByte(data, index) == index < Len(data)

\* The lookup of a byte that is read; is_code of bytecode is read with it.
read_lookup(read) ==
  ~read.is_pad =>
    CASE read.tag = Memory ->
           read.addr \in Addresses /\ read.value = memory[read.id][read.addr]
      [] read.tag = Bytecode ->
           HasByte(Code, read.addr) /\ read.value = ByteAt(Code, read.addr)
      [] read.tag = TxCalldata ->
           HasByte(CallData, read.addr) /\ read.value = ByteAt(CallData, read.addr)

\* The rows of the rw table that a step looks up: new ones, in the order of counters.
rw_lookups(s) ==
  LET read == IF s.read.tag = Memory /\ ~s.read.is_pad THEN {s.rw_counter} ELSE {}
      write == IF s.write.tag \in {Memory, TxLog} THEN {s.rw_counter + read_diff(s)} ELSE {}
  IN  /\ \A c \in read \cup write, d \in counters : d < c
      /\ counters' = counters \cup read \cup write

WithByte(bytes, addr, value) ==
  [a \in DOMAIN bytes \cup {addr} |-> IF a = addr THEN value ELSE bytes[a]]

write_lookup(write) ==
  /\ memory' = IF write.tag = Memory
               THEN [memory EXCEPT ![write.id] = WithByte(@, write.addr, write.value)]
               ELSE memory
  /\ log' = IF write.tag = TxLog THEN WithByte(log, write.addr, write.value) ELSE log

\* A step of a copy, given as far as it is fixed, with what the prover adds.
Lay(s) ==
  \E value \in Bytes, is_pad, is_last \in BOOLEAN :
    LET written == IF s.write.tag = RlcAcc /\ ~s.is_first THEN next_rlc(s, value) ELSE value
        laid == [s EXCEPT !.read.value = value, !.read.is_pad = is_pad,
                          !.write.value = written, !.write.is_last = is_last]
    IN  /\ verify_step(laid)
        /\ read_lookup(laid.read) /\ write_lookup(laid.write) /\ rw_lookups(laid)
        /\ step' = IF is_last THEN NoStep ELSE laid
        /\ todo' = IF is_last THEN Tail(todo) ELSE todo

\* No copy can end with a larger rwc_inc or rlc_acc.
FirstStep ==
  /\ todo # <<>> /\ step = NoStep
  /\ \E inc \in 0 .. 2 * Head(todo).length, acc \in 0 .. Randomness ^ Head(todo).length - 1 :
       /\ Head(todo).dst_tag # RlcAcc => acc = 0
       /\ Lay(answering(Head(todo), copy_rwc_inc, inc, acc))
       /\ copy_rwc_inc' = copy_rwc_inc + inc /\ rlc_acc' = acc
  /\ UNCHANGED <<frame, opcode, before>>

\* A step with no byte left is not the last one, nor is any step after it: none is laid.
NextStep ==
  /\ step # NoStep /\ step.read.bytes_left > 1
  /\ Lay(followed(step))
  /\ UNCHANGED <<frame, opcode, before, copy_rwc_inc, rlc_acc>>

-----------------------------------------------------------------------------
(* The steps of the EVM circuit.                                           *)

\* Faulty: the addresses are swapped.
copy_lookup_swapped(src_id, src_tag, dst_id, dst_tag, src_addr, src_addr_end, dst_addr, length) ==
  <<[src_id |-> src_id, src_tag |-> src_tag, dst_id |-> dst_id, dst_tag |-> dst_tag,
     src_addr |-> dst_addr, src_addr_end |-> src_addr_end, dst_addr |-> src_addr,
     length |-> length]>>

copy_lookup(src_id, src_tag, dst_id, dst_tag, src_addr, src_addr_end, dst_addr, length) ==
  <<[src_id |-> src_id, src_tag |-> src_tag, dst_id |-> dst_id, dst_tag |-> dst_tag,
     src_addr |-> src_addr, src_addr_end |-> src_addr_end, dst_addr |-> dst_addr,
     length |-> length]>>

BeginWith(op, lookups, mem) ==
  /\ opcode' = op /\ todo' = lookups /\ memory' = mem /\ before' = mem
  /\ UNCHANGED <<log, step, copy_rwc_inc, rlc_acc, counters>>

Begin(op, lookups) == BeginWith(op, lookups, memory)

\* The operands of a copy into the memory of the current call; the offset of an
\* empty copy is 0 (memory_offset_and_length).
CopyOperands(name) ==
  {[name |-> name, memory_offset |-> IF x.length = 0 THEN 0 ELSE x.offset,
    length |-> x.length, offset |-> offset] : x \in Ranges, offset \in Lengths}

\* Faulty: the end is taken for the length.
calldata_end_length == context.call_data.length

calldata_end == context.call_data.offset + context.call_data.length

CallDataCopy ==
  /\ Running("CALLDATACOPY") /\ ~is_precompile
  /\ \E op \in CopyOperands("CALLDATACOPY") :
       Begin(op,
         IF op.length = 0 THEN <<>>
         ELSE IF IsRoot
         THEN copy_lookup(TxId, TxCalldata, call_id, Memory,
                          op.offset, Len(CallData), op.memory_offset, op.length)
         ELSE copy_lookup(Caller, Memory, call_id, Memory, context.call_data.offset + op.offset,
                          calldata_end, op.memory_offset, op.length))
  /\ UNCHANGED frame

CodeCopy ==
  /\ Running("CODECOPY") /\ IsRoot
  /\ \E op \in CopyOperands("CODECOPY") :
       Begin(op,
         IF op.length = 0 THEN <<>>
         ELSE copy_lookup(CodeHash, Bytecode, call_id, Memory,
                          op.offset, Len(Code), op.memory_offset, op.length))
  /\ UNCHANGED frame

\* The offset of the operands is looked at in the range check only.
ReturnDataCopy ==
  /\ Running("RETURNDATACOPY") /\ IsRoot
  /\ \E op \in CopyOperands("RETURNDATACOPY") :
       /\ op.offset + op.length <= last_callee.length
       /\ Begin(op, copy_lookup(Callee, Memory, call_id, Memory, last_callee.offset,
                                last_callee.offset + op.length, op.memory_offset, op.length))
  /\ UNCHANGED frame

\* LOG of a call that is persistent.
Log ==
  /\ Running("LOG") /\ ~is_precompile
  /\ \E x \in Ranges :
       Begin([name |-> "LOG", offset |-> x.offset, length |-> x.length],
         IF x.length = 0 THEN <<>>
         ELSE copy_lookup(call_id, Memory, TxId, TxLog,
                          x.offset, x.offset + x.length, 0, x.length))
  /\ UNCHANGED frame

Sha3 ==
  /\ Running("SHA3") /\ ~is_precompile
  /\ \E x \in Ranges :
       Begin([name |-> "SHA3", offset |-> x.offset, length |-> x.length],
         IF x.length = 0 THEN <<>>
         ELSE copy_lookup(call_id, Memory, call_id, RlcAcc,
                          x.offset, x.offset + x.length, 0, x.length))
  /\ UNCHANGED frame

\* MSTORE8, and MSTORE byte by byte: the byte that is written is not constrained.
Mstore8 ==
  /\ Running("MSTORE8") /\ ~is_precompile
  /\ \E a \in Addresses, byte \in Bytes : memory' = [memory EXCEPT ![call_id][a] = byte]
  /\ UNCHANGED <<frame, log, opcode, todo, step, copy_rwc_inc, rlc_acc, counters, before>>

\* RETURN and REVERT of the callee.
Smaller(x, y) == IF x < y THEN x ELSE y

Return ==
  /\ Running("RETURN") /\ ~IsRoot /\ ~is_precompile
  /\ \E x \in Ranges :
       LET copy_length == Smaller(x.length, context.return_data.length)
       IN  Begin([name |-> "RETURN", offset |-> x.offset, length |-> x.length],
                 copy_lookup(call_id, Memory, Caller, Memory, x.offset, x.offset + x.length,
                             context.return_data.offset, copy_length))
  /\ UNCHANGED frame

\* The memory when a call begins: the callee has a new one.
EmptyCallee == [memory EXCEPT ![Callee] = Fresh]

\* CALL of a contract.  last_callee is written again before it is read.
CallContract ==
  /\ Running("CALL") /\ IsRoot
  /\ \E call_data, return_data \in Ranges :
       context' = [call_data |-> call_data, return_data |-> return_data]
  /\ call_id' = Callee
  /\ memory' = EmptyCallee /\ last_callee' = NoData
  /\ UNCHANGED <<is_precompile, log, opcode, todo, step, copy_rwc_inc, rlc_acc, counters,
                 before, called>>

\* dataCopy looks up a copy as long as the offset and the length of the return data
\* together; its end is to be within the bounds.
HasRoom(out) == 2 * out.offset + out.length <= MaxAddr + 1

\* CALL of the identity precompile, which succeeds: what it reads, of a length that is
\* not constrained; what it returns, as long as the call data; and the return to the
\* caller.
CallIdentity ==
  /\ Running("IDENTITY") /\ IsRoot
  /\ \E in, read, out \in Ranges :
       LET returned == Smaller(in.length, out.length)
       IN  /\ read.offset = in.offset /\ HasRoom(out)
           /\ BeginWith([name |-> "CALL", call_data |-> in, return_data |-> out],
                (IF read.length = 0 THEN <<>>
                 ELSE copy_lookup(Caller, Memory, Callee, RlcAcc, read.offset,
                                  read.offset + read.length, 0, read.length))
                \o (IF in.length = 0 THEN <<>>
                    ELSE copy_lookup(Callee, Memory, Callee, RlcAcc, 0, in.length, 0, in.length)
                         \o copy_lookup(Callee, Memory, Caller, Memory, 0, returned,
                                        out.offset, returned)),
                EmptyCallee)
           /\ context' = [call_data |-> in, return_data |-> out]
  /\ called' = memory[Caller]
  /\ UNCHANGED <<call_id, is_precompile, last_callee>>

\* The step of the identity precompile.
dataCopy ==
  /\ ~Executing /\ is_precompile
  /\ LET in == context.call_data
         out == context.return_data
     IN  Begin([name |-> "DATACOPY", call_data |-> in, return_data |-> out],
               copy_lookup(Caller, Memory, Caller, Memory, in.offset, calldata_end,
                           out.offset, out.offset + out.length)
               \o copy_lookup(Caller, Memory, Callee, Memory, in.offset, calldata_end,
                              0, out.length))
  /\ UNCHANGED frame

-----------------------------------------------------------------------------
(* The end of a step: how far it says the counter has gone, and who runs   *)
(* next.                                                                   *)

rw_counter_offset ==
  IF opcode.name = "DATACOPY" THEN 4 * opcode.call_data.length ELSE copy_rwc_inc

\* RETURN and RETURNDATACOPY constrain rwc_inc.
rwc_inc_as_expected ==
  /\ opcode.name = "RETURN" =>
       copy_rwc_inc = 2 * Smaller(opcode.length, context.return_data.length)
  /\ opcode.name = "RETURNDATACOPY" => copy_rwc_inc = 2 * opcode.length

Done == Executing /\ todo = <<>> /\ rwc_inc_as_expected

EndStep ==
  /\ Done
  /\ opcode' = NoOpcode /\ before' = NoMemory
  /\ copy_rwc_inc' = 0 /\ rlc_acc' = 0 /\ counters' = {} /\ log' = NoLog
  /\ UNCHANGED <<memory, todo, step>>

EndSameContext ==
  /\ EndStep
  /\ opcode.name \notin {"CALL", "RETURN", "DATACOPY"}
  /\ UNCHANGED frame

EnterIdentity ==
  /\ EndStep /\ opcode.name = "CALL"
  /\ call_id' = Callee /\ is_precompile' = TRUE
  /\ last_callee' = NoData
  /\ UNCHANGED <<context, called>>

RestoreCaller ==
  /\ EndStep /\ opcode.name \in {"RETURN", "DATACOPY"}
  /\ call_id' = Caller /\ is_precompile' = FALSE /\ context' = NoContext /\ called' = Fresh
  /\ last_callee' =
       IF opcode.name = "RETURN" THEN [offset |-> opcode.offset, length |-> opcode.length]
       ELSE [offset |-> 0, length |-> opcode.call_data.length]

\* The callee stops without return data.
Stop ==
  /\ Running("STOP") /\ ~IsRoot /\ ~is_precompile
  /\ call_id' = Caller /\ context' = NoContext /\ last_callee' = NoData
  /\ UNCHANGED <<memory, is_precompile, log, opcode, todo, step, copy_rwc_inc,
                 rlc_acc, counters, before, called>>

Init ==
  /\ memory = NoMemory
  /\ call_id = Caller /\ is_precompile = FALSE
  /\ context = NoContext /\ last_callee = NoData /\ log = NoLog
  /\ opcode = NoOpcode /\ todo = <<>> /\ step = NoStep
  /\ copy_rwc_inc = 0 /\ rlc_acc = 0 /\ counters = {}
  /\ before = NoMemory /\ called = Fresh

Next ==
  \/ CallDataCopy \/ CodeCopy \/ ReturnDataCopy \/ Log \/ Sha3 \/ Mstore8 \/ Return
  \/ CallContract \/ CallIdentity \/ dataCopy \/ Stop
  \/ FirstStep \/ NextStep \/ EndSameContext \/ EnterIdentity \/ RestoreCaller

Spec == Init /\ [][Next]_vars

-----------------------------------------------------------------------------
(* Properties.                                                             *)

\* Type invariant.
TypeOK ==
  /\ memory \in [Calls -> [Addresses -> Bytes]]
  /\ call_id \in Calls /\ is_precompile \in BOOLEAN
  /\ context \in [call_data : Ranges, return_data : Ranges]
  /\ last_callee \in Ranges
  /\ counters \subseteq Nat /\ copy_rwc_inc \in Nat /\ rlc_acc \in Nat
  /\ DOMAIN log \subseteq Nat /\ \A i \in DOMAIN log : log[i] \in Bytes
  /\ called \in [Addresses -> Bytes]

\* The bytes of a range of what a call had in memory before the step.
Data(call, offset, length) == [k \in 1 .. length |-> before[call][offset + k - 1]]

\* The memory before the step, with data put at an offset of a call.
WithData(call, offset, data) ==
  [before EXCEPT ![call] =
     [a \in Addresses |-> IF a \in offset .. offset + Len(data) - 1
                          THEN data[a - offset + 1] ELSE @[a]]]

\* What CALLDATACOPY and CODECOPY are to copy: bytes, and zeros behind the last one.
CallDataByte(index) ==
  IF IsRoot THEN IF HasByte(CallData, index) THEN ByteAt(CallData, index) ELSE 0
  ELSE IF index < context.call_data.length
  THEN before[Caller][context.call_data.offset + index] ELSE 0
CodeByte(index) == IF HasByte(Code, index) THEN ByteAt(Code, index) ELSE 0

Copied(op) ==
  [k \in 1 .. op.length |-> IF op.name = "CODECOPY" THEN CodeByte(op.offset + k - 1)
                            ELSE CallDataByte(op.offset + k - 1)]

\* CALLDATACOPY, CODECOPY and RETURN leave in memory what the EVM copies, and nothing
\* else, padding included, and so does RETURNDATACOPY from offset 0 (verify_row,
\* verify_step, calldatacopy, return_revert).
MemoryCopied ==
  Done =>
    /\ opcode.name \in {"CALLDATACOPY", "CODECOPY"} =>
         memory = WithData(call_id, opcode.memory_offset, Copied(opcode))
    /\ opcode.name = "RETURN" =>
         memory = WithData(Caller, context.return_data.offset,
                    Data(Callee, opcode.offset,
                         Smaller(opcode.length, context.return_data.length)))
    /\ opcode.name = "RETURNDATACOPY" /\ opcode.offset = 0 =>
         memory = WithData(Caller, opcode.memory_offset,
                    Data(Callee, last_callee.offset, opcode.length))

\* LOG logs the bytes of memory and SHA3 hashes their random linear combination, and
\* they leave memory alone (verify_step, log, sha3).
DataLoggedAndHashed ==
  Done /\ opcode.name \in {"LOG", "SHA3"} =>
    LET data == Data(call_id, opcode.offset, opcode.length)
    IN  /\ memory = before
        /\ opcode.name = "LOG" =>
             DOMAIN log = 0 .. opcode.length - 1 /\ \A i \in DOMAIN log : log[i] = data[i + 1]
        /\ opcode.name = "SHA3" => rlc_acc = RLC(data)

\* The identity precompile is given the room it needs, at the beginning of memory.
PlainIdentity ==
  /\ opcode.name = "DATACOPY"
  /\ opcode.return_data = [offset |-> 0, length |-> opcode.call_data.length]

\* A step moves the counter on by as many rows as its copies have looked up, one
\* counter after the other (copy_circuit.py, the opcodes' rw_counter).
CountersSpent ==
  Done /\ (opcode.name = "DATACOPY" => PlainIdentity) =>
    counters = 0 .. rw_counter_offset - 1

\* The memory of the caller when it called the identity precompile, with the input put
\* where the output belongs.
WithOutput(input) ==
  [a \in Addresses |-> IF a < input.length THEN called[input.offset + a] ELSE called[a]]

\* An input that the output does not overlap comes back from the identity precompile as it
\* was before the CALL, whose own copy clears where the output belongs (callop, dataCopy).
IdentityReturnsInput ==
  Done /\ PlainIdentity /\ opcode.call_data.offset >= opcode.call_data.length =>
    memory[Caller] = WithOutput(opcode.call_data)

\* The identity precompile returns its input ("The `dataCopy` precompile returns its
\* input.", specs/precompile/04dataCopy.md), overlapped by the output or not.
AnyInputReturned ==
  Done /\ PlainIdentity => memory[Caller] = WithOutput(opcode.call_data)

\* RETURNDATACOPY copies the return data from the offset it is given on ("copies `size`
\* bytes of return data in the current environment from `return_data_offset` at an
\* `offset`", specs/opcode/3eRETURNDATACOPY.md).
ReturnDataCopied ==
  Done /\ opcode.name = "RETURNDATACOPY" =>
    memory = WithData(Caller, opcode.memory_offset,
               Data(Callee, last_callee.offset + opcode.offset, opcode.length))
=============================================================================
