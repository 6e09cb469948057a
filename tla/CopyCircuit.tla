------------------------------ MODULE CopyCircuit ------------------------------
(***************************************************************************)
(* The copy circuit (src/zkevm_specs/copy_circuit.py): a copy is a run of  *)
(* steps, each a row that reads a byte and a row that writes it.  Here are *)
(* the columns of a row that the constraints leave to the prover, and what *)
(* they make of the others; CopyOpcodes lays the rows down.                *)
(***************************************************************************)
EXTENDS Integers, Sequences

CONSTANT Randomness  \* of the random linear combinations
ASSUME RandomnessAssumption == Randomness \in Nat /\ Randomness > 1

\* CopyDataTypeTag; copies to bytecode belong to contract creation.
Bytecode == "Bytecode"
Memory == "Memory"
TxCalldata == "TxCalldata"
TxLog == "TxLog"
RlcAcc == "RlcAcc"

\* The random linear combination of bytes, first byte first.  A Randomness larger
\* than every byte tells all data of one length apart, as a random one does except
\* with negligible probability.
RLC(bytes) ==
  LET acc[n \in 0 .. Len(bytes)] == IF n = 0 THEN 0 ELSE acc[n - 1] * Randomness + bytes[n]
  IN  acc[Len(bytes)]

-----------------------------------------------------------------------------
(* A step is a record of the row that reads (id, tag, addr, src_addr_end,  *)
(* bytes_left, value, is_pad), the row that writes (id, tag, addr, value,  *)
(* is_last), whether it is_first, and the columns that run through both    *)
(* (rw_counter, rwc_inc_left, rlc_acc), as the row that reads has them.    *)

\* Faulty: padding is counted.
rw_diff_of_padding(tag, is_pad) == IF tag \in {Memory, TxLog} THEN 1 ELSE 0

\* The rows that are looked up in the rw table; a row that writes is no padding.
rw_diff(tag, is_pad) == IF ~is_pad /\ tag \in {Memory, TxLog} THEN 1 ELSE 0

read_diff(step) == rw_diff(step.read.tag, step.read.is_pad)
write_diff(step) == rw_diff(step.write.tag, FALSE)

\* Faulty: the byte after the last one is read.
is_padding_after_end(read) == read.addr > read.src_addr_end

\* Padding is what lies at or beyond the end of the source.
is_padding(read) == ~(read.addr < read.src_addr_end)

padding_value(read) == read.is_pad => read.value = 0

bytes_left_at_end(step) == step.write.is_last => step.read.bytes_left = 1

\* What the constraint at is_last leaves of rwc_inc_left, and how it came there.
counters_at_end(step) ==
  step.write.is_last => step.rwc_inc_left - read_diff(step) = write_diff(step)

rlc_at_end(step) ==
  step.write.is_last /\ step.write.tag = RlcAcc => step.rlc_acc = step.write.value

\* The constraints on the rows of one step.
verify_step(step) ==
  /\ bytes_left_at_end(step)
  /\ step.read.is_pad = is_padding(step.read)
  /\ padding_value(step.read)
  /\ step.write.tag # RlcAcc \/ step.is_first => step.write.value = step.read.value
  /\ counters_at_end(step)
  /\ rlc_at_end(step)

\* Faulty: the accumulated bytes are added up.
next_rlc_sum(step, value) == step.write.value + value

next_rlc(step, value) == step.write.value * Randomness + value

followed_counter(step) == read_diff(step) + write_diff(step)

\* The step after a step of a copy, as far as the constraints tie it to it: the
\* value that is read, is_pad and is_last are its own, and so is the value that is
\* written, except that of an accumulator.
followed(step) ==
  [step EXCEPT !.is_first = FALSE,
               !.read.addr = @ + 1, !.write.addr = @ + 1, !.read.bytes_left = @ - 1,
               !.rw_counter = @ + followed_counter(step),
               !.rwc_inc_left = @ - followed_counter(step)]

\* A first step that answers a lookup of the copy table, but for the columns that
\* the lookup does not ask for.
answering(lookup, rw_counter, inc, acc) ==
  [read |-> [id |-> lookup.src_id, tag |-> lookup.src_tag, addr |-> lookup.src_addr,
             src_addr_end |-> lookup.src_addr_end, bytes_left |-> lookup.length,
             value |-> 0, is_pad |-> FALSE],
   write |-> [id |-> lookup.dst_id, tag |-> lookup.dst_tag, addr |-> lookup.dst_addr,
              value |-> 0, is_last |-> FALSE],
   is_first |-> TRUE, rw_counter |-> rw_counter, rwc_inc_left |-> inc,
   rlc_acc |-> acc]
=============================================================================
