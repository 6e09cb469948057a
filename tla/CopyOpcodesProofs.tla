-------------------------- MODULE CopyOpcodesProofs --------------------------
(***************************************************************************)
(* Theorems about the copies that opcodes look up, for all call data, code,*)
(* sizes of memory and ranges: whatever the prover fills into the steps of *)
(* a copy, its bytes go where they should, and the counters it takes are   *)
(* those the opcode moves on by.                                           *)
(***************************************************************************)
EXTENDS CopyOpcodes, SequenceTheorems, WellFoundedInduction, TLAPS

-----------------------------------------------------------------------------
(* Steps of the copy circuit.                                              *)

Ids == Calls \cup {TxId, CodeHash}
SourceTags == {Memory, Bytecode, TxCalldata}
TargetTags == {Memory, TxLog, RlcAcc}

LookupSet ==
  [src_id : Ids, src_tag : SourceTags, dst_id : Ids, dst_tag : TargetTags,
   src_addr : Nat, src_addr_end : Nat, dst_addr : Nat, length : Nat]

ReadSet ==
  [id : Ids, tag : SourceTags, addr : Nat, src_addr_end : Nat, bytes_left : Nat,
   value : Bytes, is_pad : BOOLEAN]
WriteSet == [id : Ids, tag : TargetTags, addr : Nat, value : Nat, is_last : BOOLEAN]
StepSet ==
  [read : ReadSet, write : WriteSet, is_first : BOOLEAN, rw_counter : Nat,
   rwc_inc_left : Int, rlc_acc : Nat]

\* A step lays the byte at position n of a copy.
At(s, lookup, n) ==
  /\ s.read.id = lookup.src_id /\ s.read.tag = lookup.src_tag
  /\ s.read.addr = lookup.src_addr + n /\ s.read.src_addr_end = lookup.src_addr_end
  /\ s.read.bytes_left = lookup.length - n
  /\ s.write.id = lookup.dst_id /\ s.write.tag = lookup.dst_tag
  /\ s.write.addr = lookup.dst_addr + n

\* The same rows, but for what the prover adds to a step.
SamePlace(s, t) ==
  /\ t.read.id = s.read.id /\ t.read.tag = s.read.tag /\ t.read.addr = s.read.addr
  /\ t.read.src_addr_end = s.read.src_addr_end /\ t.read.bytes_left = s.read.bytes_left
  /\ t.write.id = s.write.id /\ t.write.tag = s.write.tag /\ t.write.addr = s.write.addr
  /\ t.is_first = s.is_first /\ t.rw_counter = s.rw_counter
  /\ t.rwc_inc_left = s.rwc_inc_left /\ t.rlc_acc = s.rlc_acc

\* The step laid from s is t.
Lays(s, t) ==
  /\ t \in StepSet /\ SamePlace(s, t)
  /\ t.write.value = IF s.write.tag = RlcAcc /\ ~s.is_first THEN next_rlc(s, t.read.value)
                     ELSE t.read.value
  /\ verify_step(t) /\ read_lookup(t.read) /\ write_lookup(t.write) /\ rw_lookups(t)
  /\ step' = (IF t.write.is_last THEN NoStep ELSE t)
  /\ todo' = IF t.write.is_last THEN Tail(todo) ELSE todo

LEMMA Laying ==
  ASSUME BytesAssumption, RandomnessAssumption, NEW s \in StepSet, Lay(s)
  PROVE  \E t : Lays(s, t)
<1>1. PICK value \in Bytes, is_pad \in BOOLEAN, is_last \in BOOLEAN :
        LET written == IF s.write.tag = RlcAcc /\ ~s.is_first THEN next_rlc(s, value) ELSE value
            laid == [s EXCEPT !.read.value = value, !.read.is_pad = is_pad,
                              !.write.value = written, !.write.is_last = is_last]
        IN  /\ verify_step(laid)
            /\ read_lookup(laid.read) /\ write_lookup(laid.write) /\ rw_lookups(laid)
            /\ step' = IF is_last THEN NoStep ELSE laid
            /\ todo' = IF is_last THEN Tail(todo) ELSE todo
  BY DEF Lay
<1> DEFINE written == IF s.write.tag = RlcAcc /\ ~s.is_first THEN next_rlc(s, value) ELSE value
           t == [s EXCEPT !.read.value = value, !.read.is_pad = is_pad,
                          !.write.value = written, !.write.is_last = is_last]
<1>2. written \in Nat
  <2>1. s.write.value \in Nat /\ value \in Nat /\ Randomness \in Nat
    BY DEF BytesAssumption, RandomnessAssumption, StepSet, WriteSet
  <2>2. \A a, b, c \in Nat : a * b + c \in Nat
    OBVIOUS
  <2>3. next_rlc(s, value) \in Nat
    BY <2>1, <2>2 DEF next_rlc
  <2> QED
    BY <2>1, <2>3
<1>3. /\ verify_step(t)
      /\ read_lookup(t.read) /\ write_lookup(t.write) /\ rw_lookups(t)
      /\ step' = IF is_last THEN NoStep ELSE t
      /\ todo' = IF is_last THEN Tail(todo) ELSE todo
  BY <1>1
<1> HIDE DEF written
<1>4. t \in StepSet /\ SamePlace(s, t)
  BY <1>2 DEF StepSet, ReadSet, WriteSet, SamePlace
<1>5. t.read.value = value /\ t.write.value = written /\ t.write.is_last = is_last
  BY DEF StepSet, ReadSet, WriteSet
<1> HIDE DEF t
<1> QED
  BY <1>3, <1>4, <1>5 DEF Lays, written

LEMMA NoStepIsNone == NoStep \notin StepSet
BY DEF NoStep, StepSet

LEMMA FirstIsStep ==
  ASSUME BytesAssumption, NEW lookup \in LookupSet, NEW c \in Nat, NEW inc \in Int, NEW acc \in Nat
  PROVE  LET s == answering(lookup, c, inc, acc)
         IN  /\ s \in StepSet /\ At(s, lookup, 0) /\ s.is_first
             /\ s.rw_counter = c /\ s.rwc_inc_left = inc /\ s.rlc_acc = acc
BY DEF BytesAssumption, LookupSet, StepSet, ReadSet, WriteSet, answering, At

\* A step looks up a row for a byte that is read in memory, and one for a byte written there
\* or to a log.
LEMMA CountersFollow ==
  ASSUME NEW s \in StepSet
  PROVE  /\ read_diff(s) \in 0 .. 1 /\ write_diff(s) \in 0 .. 1 /\ followed_counter(s) \in 0 .. 2
         /\ followed_counter(s) = read_diff(s) + write_diff(s)
BY DEF followed_counter, read_diff, write_diff, rw_diff

LEMMA NextIsStep ==
  ASSUME NEW s \in StepSet, s.read.bytes_left > 1
  PROVE  LET t == followed(s)
         IN  /\ t \in StepSet /\ ~t.is_first
             /\ t.rw_counter = s.rw_counter + followed_counter(s)
             /\ t.rwc_inc_left = s.rwc_inc_left - followed_counter(s)
             /\ t.rlc_acc = s.rlc_acc /\ t.write.value = s.write.value
             /\ \A lookup \in LookupSet, n \in Nat : At(s, lookup, n) => At(t, lookup, n + 1)
<1> DEFINE d == followed_counter(s)
<1>1. d \in Nat
  BY CountersFollow
<1> HIDE DEF d
<1> DEFINE a == [s EXCEPT !.is_first = FALSE, !.read.addr = @ + 1]
           b == [a EXCEPT !.write.addr = s.write.addr + 1, !.read.bytes_left = s.read.bytes_left - 1]
           t == [b EXCEPT !.rw_counter = s.rw_counter + d, !.rwc_inc_left = s.rwc_inc_left - d]
<1>2. followed(s) = t
  BY DEF followed, d
<1>3. s.read.addr + 1 \in Nat /\ s.write.addr + 1 \in Nat /\ s.read.bytes_left - 1 \in Nat
      /\ s.rw_counter + d \in Nat /\ s.rwc_inc_left - d \in Int
  BY <1>1 DEF StepSet, ReadSet, WriteSet
<1>4. /\ a \in StepSet /\ ~a.is_first
      /\ a.read = [s.read EXCEPT !.addr = @ + 1] /\ a.write = s.write
      /\ a.rw_counter = s.rw_counter /\ a.rwc_inc_left = s.rwc_inc_left /\ a.rlc_acc = s.rlc_acc
  BY <1>3 DEF StepSet, ReadSet, WriteSet
<1> HIDE DEF a
<1>5. /\ b \in StepSet /\ ~b.is_first
      /\ b.read = [a.read EXCEPT !.bytes_left = @ - 1] /\ b.write = [s.write EXCEPT !.addr = @ + 1]
      /\ b.rw_counter = s.rw_counter /\ b.rwc_inc_left = s.rwc_inc_left /\ b.rlc_acc = s.rlc_acc
  BY <1>3, <1>4 DEF StepSet, ReadSet, WriteSet
<1> HIDE DEF b
<1>6. /\ t \in StepSet /\ ~t.is_first
      /\ t.read = b.read /\ t.write = b.write
      /\ t.rw_counter = s.rw_counter + d /\ t.rwc_inc_left = s.rwc_inc_left - d
      /\ t.rlc_acc = s.rlc_acc
  BY <1>3, <1>5 DEF StepSet
<1> HIDE DEF t
<1>8. /\ t.read.id = s.read.id /\ t.read.tag = s.read.tag /\ t.read.addr = s.read.addr + 1
      /\ t.read.src_addr_end = s.read.src_addr_end /\ t.read.bytes_left = s.read.bytes_left - 1
      /\ t.write.id = s.write.id /\ t.write.tag = s.write.tag
      /\ t.write.addr = s.write.addr + 1 /\ t.write.value = s.write.value
  BY <1>4, <1>5, <1>6 DEF StepSet, ReadSet, WriteSet
<1>7. ASSUME NEW lookup \in LookupSet, NEW n \in Nat, At(s, lookup, n)
      PROVE  At(t, lookup, n + 1)
  BY <1>7, <1>8 DEF At, LookupSet
<1> QED
  BY <1>2, <1>6, <1>7, <1>8 DEF d

-----------------------------------------------------------------------------
(* Types, and the counters of the rows that are looked up.                 *)

\* A copy into memory has room there.
Fits(lookup) ==
  /\ lookup \in LookupSet
  /\ lookup.dst_tag = Memory =>
       /\ lookup.dst_id \in Calls /\ lookup.dst_addr \in Addresses
       /\ lookup.dst_addr + lookup.length <= MaxAddr + 1

CopyNames == {"CALLDATACOPY", "CODECOPY", "RETURNDATACOPY"}
RangeNames == {"LOG", "SHA3", "RETURN"}
IdentityNames == {"CALL", "DATACOPY"}

CopyOps == [name : CopyNames, memory_offset : Addresses, length : Lengths, offset : Lengths]
RangeOps == [name : RangeNames, offset : Addresses, length : Lengths]
IdentityOps == [name : IdentityNames, call_data : Ranges, return_data : Ranges]

\* The operands of the step being proved, and who executes it.
Bound ==
  /\ opcode \in CopyOps \cup RangeOps \cup IdentityOps \cup {NoOpcode}
  /\ opcode.name \in CopyNames => opcode.memory_offset + opcode.length <= MaxAddr + 1
  /\ opcode.name \in RangeNames => [offset |-> opcode.offset, length |-> opcode.length] \in Ranges
  /\ opcode.name \in {"CODECOPY", "RETURNDATACOPY"} => call_id = Caller
  /\ opcode.name = "RETURN" => call_id = Callee
  /\ opcode.name \in IdentityNames =>
       /\ HasRoom(opcode.return_data)
       /\ context = [call_data |-> opcode.call_data, return_data |-> opcode.return_data]
  /\ is_precompile => call_id = Callee /\ HasRoom(context.return_data)

\* What is looked up and not answered yet.
Queued ==
  /\ todo \in Seq(LookupSet) /\ \A i \in 1 .. Len(todo) : Fits(todo[i])
  /\ ~Executing => todo = <<>> /\ copy_rwc_inc = 0 /\ rlc_acc = 0 /\ log = NoLog

\* The position of the byte laid last in its copy.
Byte == Head(todo).length - step.read.bytes_left

\* Between copies the counters are those of the copies so far; within one, those before it
\* and its own, and what is left of rwc_inc leads to the end of it.
Counted ==
  \/ step = NoStep /\ counters = 0 .. copy_rwc_inc - 1
  \/ /\ todo # <<>> /\ step \in StepSet /\ step.rlc_acc = rlc_acc
     /\ Byte \in Nat /\ At(step, Head(todo), Byte) /\ (Byte < Head(todo).length \/ Byte = 0)
     /\ step.rw_counter + step.rwc_inc_left = copy_rwc_inc
     /\ counters = 0 .. step.rw_counter + followed_counter(step) - 1

IInv == TypeOK /\ Bound /\ Queued /\ Counted

Assumptions == BytesAssumption /\ RandomnessAssumption /\ RangesAssumption

LEMMA AssumptionsHold == Assumptions
BY BytesAssumption, RandomnessAssumption, RangesAssumption DEF Assumptions

\* A step of a copy answers lookup at position n, with counters from c on.
Laying0(s, lookup, n) ==
  /\ s \in StepSet /\ todo # <<>> /\ lookup = Head(todo) /\ n \in Nat
  /\ At(s, lookup, n) /\ (n < lookup.length \/ n = 0)
  /\ counters = 0 .. s.rw_counter - 1
  /\ copy_rwc_inc' \in Nat /\ copy_rwc_inc' = s.rw_counter + s.rwc_inc_left
  /\ rlc_acc' = s.rlc_acc
  /\ UNCHANGED <<frame, opcode, before>>

LEMMA CountersLaid ==
  ASSUME NEW s, NEW t, NEW lookup, NEW n, Laying0(s, lookup, n), Lays(s, t)
  PROVE  counters' = 0 .. t.rw_counter + followed_counter(t) - 1
<1> DEFINE c == s.rw_counter
           reads == IF t.read.tag = Memory /\ ~t.read.is_pad THEN {c} ELSE {}
           writes == IF t.write.tag \in {Memory, TxLog} THEN {c + read_diff(t)} ELSE {}
<1>1. t \in StepSet /\ t.rw_counter = c /\ c \in Nat
  BY DEF Lays, SamePlace, StepSet
<1>2. counters' = (0 .. c - 1) \cup reads \cup writes
  BY <1>1 DEF Lays, rw_lookups, Laying0
<1>3. reads = (IF read_diff(t) = 1 THEN {c} ELSE {}) /\ read_diff(t) \in 0 .. 1
  BY <1>1, CountersFollow
     DEF read_diff, rw_diff, StepSet, ReadSet, SourceTags, Memory, TxLog, Bytecode, TxCalldata
<1>4. writes = (IF write_diff(t) = 1 THEN {c + read_diff(t)} ELSE {}) /\ write_diff(t) \in 0 .. 1
  BY <1>1, CountersFollow DEF write_diff, rw_diff
<1>5. followed_counter(t) = read_diff(t) + write_diff(t)
  BY DEF followed_counter
<1> DEFINE i == read_diff(t)   j == write_diff(t)
<1> HIDE DEF reads, writes, i, j, c
<1>6. (0 .. c - 1) \cup (IF i = 1 THEN {c} ELSE {}) \cup (IF j = 1 THEN {c + i} ELSE {})
        = 0 .. c + (i + j) - 1
  BY <1>1, <1>3, <1>4 DEF i, j
<1> QED
  BY <1>1, <1>2, <1>3, <1>4, <1>5, <1>6 DEF i, j

LEMMA LaidCounted ==
  ASSUME Assumptions, IInv, NEW s, NEW t, NEW lookup, NEW n, Laying0(s, lookup, n), Lays(s, t)
  PROVE  IInv'
<1>1. /\ t \in StepSet /\ s \in StepSet /\ SamePlace(s, t) /\ At(t, lookup, n)
      /\ lookup \in LookupSet /\ Fits(lookup)
  <2>1. lookup \in LookupSet /\ Fits(lookup)
    BY DEF IInv, Queued, Laying0, Fits
  <2> QED
    BY <2>1 DEF Laying0, Lays, SamePlace, At
<1>2. counters' = 0 .. t.rw_counter + followed_counter(t) - 1
  BY CountersLaid
<1>3. /\ t.rw_counter \in Nat /\ followed_counter(t) \in 0 .. 2
      /\ copy_rwc_inc' = t.rw_counter + t.rwc_inc_left /\ t.rlc_acc = rlc_acc'
  BY <1>1, CountersFollow DEF Laying0, SamePlace, StepSet
<1>4. TypeOK'
  <2>1. memory' \in [Calls -> [Addresses -> Bytes]]
    <3>1. CASE t.write.tag = Memory
      <4>1. /\ t.write.id = lookup.dst_id /\ t.write.addr = lookup.dst_addr + n
            /\ lookup.dst_tag = Memory /\ lookup.dst_addr \in Nat /\ lookup.length \in Nat
            /\ n \in Nat /\ (n < lookup.length \/ n = 0) /\ MaxAddr \in Nat
        BY <1>1, <3>1 DEF At, LookupSet, Laying0, Assumptions, RangesAssumption
      <4>2. t.write.id \in Calls /\ t.write.addr \in Addresses
        BY <1>1, <4>1 DEF Fits, Addresses
      <4>3. t.write.value \in Bytes
        BY <1>1, <3>1 DEF Lays, SamePlace, StepSet, ReadSet, Memory, RlcAcc
      <4>4. memory' = [memory EXCEPT ![t.write.id] = WithByte(@, t.write.addr, t.write.value)]
        BY <3>1 DEF Lays, write_lookup
      <4>5. \A bytes \in [Addresses -> Bytes] :
              WithByte(bytes, t.write.addr, t.write.value) \in [Addresses -> Bytes]
        BY <4>2, <4>3 DEF WithByte
      <4> QED
        BY <4>2, <4>4, <4>5 DEF IInv, TypeOK
    <3>2. CASE t.write.tag # Memory
      BY <3>2 DEF Lays, write_lookup, IInv, TypeOK
    <3> QED
      BY <3>1, <3>2
  <2>2. DOMAIN log' \subseteq Nat /\ \A i \in DOMAIN log' : log'[i] \in Bytes
    <3>1. CASE t.write.tag = TxLog
      <4>1. t.write.value \in Bytes /\ t.write.addr \in Nat
        BY <1>1, <3>1 DEF Lays, SamePlace, StepSet, ReadSet, WriteSet, TxLog, RlcAcc
      <4>2. log' = WithByte(log, t.write.addr, t.write.value)
        BY <3>1 DEF Lays, write_lookup
      <4> QED
        BY <4>1, <4>2 DEF WithByte, IInv, TypeOK
    <3>2. CASE t.write.tag # TxLog
      BY <3>2 DEF Lays, write_lookup, IInv, TypeOK
    <3> QED
      BY <3>1, <3>2
  <2>3. counters' \subseteq Nat /\ copy_rwc_inc' \in Nat /\ rlc_acc' \in Nat
    BY <1>1, <1>2, <1>3 DEF Laying0, StepSet
  <2> QED
    BY <2>1, <2>2, <2>3 DEF IInv, TypeOK, Laying0, frame
<1>5. Bound'
  BY DEF IInv, Bound, Laying0, frame
<1>6. Queued'
  <2>1. Executing' = Executing /\ Executing
    BY DEF Executing, Laying0, IInv, Queued
  <2>2. todo' = todo \/ todo' = Tail(todo)
    BY DEF Lays
  <2>3. /\ Tail(todo) \in Seq(LookupSet)
        /\ \A i \in 1 .. Len(Tail(todo)) : i + 1 \in 1 .. Len(todo) /\ Tail(todo)[i] = todo[i + 1]
    BY DEF IInv, Queued, Laying0
  <2>4. \A i \in 1 .. Len(Tail(todo)) : Fits(Tail(todo)[i])
    BY <2>3 DEF IInv, Queued
  <2> QED
    BY <2>1, <2>2, <2>3, <2>4 DEF IInv, Queued
<1>7. Counted'
  <2>1. CASE t.write.is_last
    <3>1. step' = NoStep
      BY <2>1 DEF Lays
    <3>2. t.rwc_inc_left = followed_counter(t)
      <4>1. t.rwc_inc_left - read_diff(t) = write_diff(t)
        BY <2>1 DEF Lays, verify_step, counters_at_end
      <4>2. t.rwc_inc_left \in Int
        BY <1>1 DEF StepSet
      <4> QED
        BY <1>1, <4>1, <4>2, CountersFollow
    <3> QED
      BY <1>2, <1>3, <3>1, <3>2 DEF Counted
  <2>2. CASE ~t.write.is_last
    <3>1. step' = t /\ todo' = todo
      BY <2>2 DEF Lays
    <3>2. t.read.bytes_left = lookup.length - n /\ n \in Nat /\ lookup.length \in Nat
      BY <1>1 DEF At, Laying0, LookupSet
    <3>3. Byte' = n
      BY <3>1, <3>2 DEF Byte, Laying0
    <3> QED
      BY <1>1, <1>2, <1>3, <3>1, <3>3 DEF Counted, Laying0
  <2> QED
    BY <2>1, <2>2
<1> QED
  BY <1>4, <1>5, <1>6, <1>7 DEF IInv

\* The first step of a copy answers the next lookup.
LEMMA FirstLays ==
  ASSUME Assumptions, IInv, FirstStep
  PROVE  \E s, t : /\ s.is_first /\ s.rw_counter = copy_rwc_inc
                   /\ Laying0(s, Head(todo), 0) /\ Lays(s, t)
<1> DEFINE lookup == Head(todo)
<1>1. todo # <<>> /\ step = NoStep
  BY DEF FirstStep
<1>2. lookup \in LookupSet
  BY <1>1 DEF IInv, Queued
<1>3. PICK inc \in 0 .. 2 * lookup.length, acc \in 0 .. Randomness ^ lookup.length - 1 :
        /\ Lay(answering(lookup, copy_rwc_inc, inc, acc))
        /\ copy_rwc_inc' = copy_rwc_inc + inc /\ rlc_acc' = acc
  BY DEF FirstStep
<1>4. inc \in Nat /\ acc \in Nat /\ copy_rwc_inc \in Nat
  BY <1>2, <1>3 DEF IInv, TypeOK
<1> DEFINE s == answering(lookup, copy_rwc_inc, inc, acc)
<1> HIDE DEF lookup
<1>5. /\ s \in StepSet /\ At(s, lookup, 0) /\ s.is_first
      /\ s.rw_counter = copy_rwc_inc /\ s.rwc_inc_left = inc /\ s.rlc_acc = acc
  BY <1>2, <1>4, FirstIsStep DEF Assumptions
<1> HIDE DEF s
<1>6. counters = 0 .. copy_rwc_inc - 1
  BY <1>1, NoStepIsNone DEF IInv, Counted
<1>7. Laying0(s, lookup, 0)
  BY <1>1, <1>3, <1>4, <1>5, <1>6 DEF Laying0, FirstStep, lookup
<1>8. PICK t : Lays(s, t)
  BY <1>3, <1>5, Laying DEF Assumptions, s
<1> QED
  BY <1>5, <1>7, <1>8 DEF lookup

\* Another step goes on with the byte after.
LEMMA NextLays ==
  ASSUME Assumptions, IInv, NextStep
  PROVE  /\ step \in StepSet /\ At(step, Head(todo), Byte) /\ Byte \in Nat
         /\ Byte + 1 < Head(todo).length
         /\ \E s, t : /\ ~s.is_first /\ s.write.value = step.write.value
                      /\ s.rw_counter = step.rw_counter + followed_counter(step)
                      /\ Laying0(s, Head(todo), Byte + 1) /\ Lays(s, t)
<1> DEFINE lookup == Head(todo)   n == Byte
<1>1. step # NoStep /\ step.read.bytes_left > 1 /\ Lay(followed(step))
  BY DEF NextStep
<1>2. /\ todo # <<>> /\ step \in StepSet /\ n \in Nat /\ At(step, lookup, n)
      /\ step.rw_counter + step.rwc_inc_left = copy_rwc_inc /\ step.rlc_acc = rlc_acc
      /\ counters = 0 .. step.rw_counter + followed_counter(step) - 1
  BY <1>1 DEF IInv, Counted
<1>3. lookup \in LookupSet
  BY <1>2 DEF IInv, Queued
<1> HIDE DEF lookup, n
<1>4. n + 1 < lookup.length /\ n + 1 \in Nat
  BY <1>1, <1>2, <1>3 DEF At, LookupSet
<1> DEFINE s == followed(step)
<1>5. /\ s \in StepSet /\ ~s.is_first /\ At(s, lookup, n + 1)
      /\ s.rw_counter = step.rw_counter + followed_counter(step)
      /\ s.rwc_inc_left = step.rwc_inc_left - followed_counter(step)
      /\ s.rlc_acc = step.rlc_acc /\ s.write.value = step.write.value
  BY <1>1, <1>2, <1>3, NextIsStep
<1>6. s.rw_counter + s.rwc_inc_left = copy_rwc_inc /\ copy_rwc_inc \in Nat
  <2>1. /\ followed_counter(step) \in Int /\ step.rw_counter \in Int /\ step.rwc_inc_left \in Int
        /\ copy_rwc_inc \in Nat
    BY <1>2, CountersFollow DEF StepSet, IInv, TypeOK
  <2> QED
    BY <1>2, <1>5, <2>1
<1> HIDE DEF s
<1>10. /\ UNCHANGED frame /\ opcode' = opcode /\ before' = before
       /\ copy_rwc_inc' = copy_rwc_inc /\ rlc_acc' = rlc_acc
  BY DEF NextStep, frame
<1>9. /\ counters = 0 .. s.rw_counter - 1 /\ rlc_acc' = s.rlc_acc
      /\ copy_rwc_inc' \in Nat /\ copy_rwc_inc' = s.rw_counter + s.rwc_inc_left
      /\ UNCHANGED <<frame, opcode, before>>
  <2>1. counters = 0 .. s.rw_counter - 1
    <3>1. followed_counter(step) \in Int /\ step.rw_counter \in Int
      BY <1>2, CountersFollow DEF StepSet
    <3> QED
      BY <1>2, <1>5, <3>1
  <2> QED
    BY <1>2, <1>5, <1>6, <1>10, <2>1
<1>7. Laying0(s, lookup, n + 1)
  BY <1>2, <1>4, <1>5, <1>9 DEF Laying0, lookup
<1>8. PICK t : Lays(s, t)
  BY <1>1, <1>5, Laying DEF Assumptions, s
<1> QED
  BY <1>2, <1>4, <1>5, <1>7, <1>8 DEF lookup, n

LEMMA Between ==
  ASSUME IInv, ~Executing
  PROVE  /\ todo = <<>> /\ step = NoStep /\ counters = {} /\ copy_rwc_inc = 0 /\ rlc_acc = 0
         /\ log = NoLog
BY NoStepIsNone DEF IInv, Queued, Counted

\* A list of lookups that have room.
Fitting(lookups) ==
  lookups \in Seq(LookupSet) /\ \A i \in 1 .. Len(lookups) : Fits(lookups[i])

LEMMA OneFits ==
  ASSUME NEW src_id \in Ids, NEW src_tag \in SourceTags, NEW dst_id \in Ids,
         NEW dst_tag \in TargetTags, NEW src_addr \in Nat, NEW src_addr_end \in Nat,
         NEW dst_addr \in Nat, NEW length \in Nat,
         dst_tag = Memory =>
           dst_id \in Calls /\ dst_addr \in Addresses /\ dst_addr + length <= MaxAddr + 1
  PROVE  Fitting(copy_lookup(src_id, src_tag, dst_id, dst_tag,
                             src_addr, src_addr_end, dst_addr, length))
<1> DEFINE l == [src_id |-> src_id, src_tag |-> src_tag, dst_id |-> dst_id, dst_tag |-> dst_tag,
                 src_addr |-> src_addr, src_addr_end |-> src_addr_end, dst_addr |-> dst_addr,
                 length |-> length]
<1>1. Fits(l)
  BY DEF Fits, LookupSet
<1>2. l \in LookupSet
  BY <1>1 DEF Fits
<1>3. copy_lookup(src_id, src_tag, dst_id, dst_tag, src_addr, src_addr_end, dst_addr, length) = <<l>>
  BY DEF copy_lookup
<1> HIDE DEF l
<1> QED
  BY <1>1, <1>2, <1>3 DEF Fitting

LEMMA NoneFits == Fitting(<<>>)
BY DEF Fitting

LEMMA MoreFit ==
  ASSUME NEW a, Fitting(a), NEW b, Fitting(b)
  PROVE  Fitting(a \o b)
<1>1. a \o b \in Seq(LookupSet) /\ Len(a \o b) = Len(a) + Len(b) /\ Len(a) \in Nat /\ Len(b) \in Nat
  BY DEF Fitting
<1>2. ASSUME NEW i \in 1 .. Len(a \o b)
      PROVE  Fits((a \o b)[i])
  <2>1. CASE i <= Len(a)
    BY <1>1, <2>1 DEF Fitting
  <2>2. CASE i > Len(a)
    <3>1. i - Len(a) \in 1 .. Len(b) /\ (a \o b)[i] = b[i - Len(a)]
      BY <1>1, <2>2 DEF Fitting
    <3> QED
      BY <3>1 DEF Fitting
  <2> QED
    BY <1>1, <2>1, <2>2
<1> QED
  BY <1>1, <1>2 DEF Fitting

\* A step of the EVM circuit begins.
LEMMA BeginsKeep ==
  ASSUME IInv, ~Executing, NEW op, op # NoOpcode, NEW lookups, Fitting(lookups),
         NEW mem \in [Calls -> [Addresses -> Bytes]], BeginWith(op, lookups, mem), Bound',
         call_id' \in Calls, is_precompile' \in BOOLEAN, last_callee' \in Ranges,
         context' \in [call_data : Ranges, return_data : Ranges], called' \in [Addresses -> Bytes]
  PROVE  IInv'
<1>1. TypeOK'
  BY DEF IInv, TypeOK, BeginWith
<1>2. Queued'
  <2>1. Executing' /\ todo' = lookups
    BY DEF Executing, BeginWith
  <2> QED
    BY <2>1 DEF Queued, Fitting
<1>3. Counted'
  BY Between DEF BeginWith, Counted
<1> QED
  BY <1>1, <1>2, <1>3 DEF IInv

LEMMA RangesTyped ==
  ASSUME Assumptions
  PROVE  /\ MaxAddr \in Nat /\ MaxLength \in Nat
         /\ \A x \in Ranges :
              /\ x.offset \in Addresses /\ x.length \in Lengths
              /\ x.offset \in Nat /\ x.length \in Nat /\ x.offset + x.length <= MaxAddr + 1
              /\ x = [offset |-> x.offset, length |-> x.length]
              /\ [offset |-> 0, length |-> x.length] \in Ranges
         /\ NoData \in Ranges /\ Len(CallData) \in Nat /\ Len(Code) \in Nat
BY DEF Assumptions, BytesAssumption, RangesAssumption, Addresses, Lengths

LEMMA CopyOperandsTyped ==
  ASSUME Assumptions, NEW name \in CopyNames, NEW op \in CopyOperands(name)
  PROVE  /\ op \in CopyOps /\ op.name = name /\ op.memory_offset + op.length <= MaxAddr + 1
         /\ op.memory_offset \in Nat /\ op.length \in Nat /\ op.offset \in Nat
         /\ op.memory_offset \in Addresses
<1>1. PICK x \in Ranges, offset \in Lengths :
        op = [name |-> name, memory_offset |-> IF x.length = 0 THEN 0 ELSE x.offset,
              length |-> x.length, offset |-> offset]
  BY DEF CopyOperands
<1>2. /\ x.length \in Lengths /\ x.length \in Nat /\ x.offset \in Addresses
      /\ x.offset \in Nat /\ x.offset + x.length <= MaxAddr + 1
      /\ MaxAddr \in Nat /\ MaxLength \in Nat
  BY RangesTyped
<1>3. offset \in Nat /\ 0 \in Addresses
  BY <1>2 DEF Lengths, Addresses
<1>4. op.memory_offset = 0 \/ op.memory_offset = x.offset
  BY <1>1
<1>5. /\ op.name = name /\ op.length = x.length /\ op.offset = offset
      /\ op.memory_offset = IF x.length = 0 THEN 0 ELSE x.offset
  BY <1>1
<1>6. op.memory_offset \in Addresses /\ op.memory_offset \in Nat
      /\ op.memory_offset + op.length <= MaxAddr + 1
  BY <1>2, <1>3, <1>5
<1>7. op \in CopyOps
  BY <1>1, <1>2, <1>3 DEF CopyOps
<1> QED
  BY <1>2, <1>3, <1>5, <1>6, <1>7

\* The steps of the EVM circuit.
LEMMA CallDataCopyKeeps ==
  ASSUME Assumptions, IInv, CallDataCopy
  PROVE  IInv'
<1> DEFINE lookups(op) ==
             IF op.length = 0 THEN <<>>
             ELSE IF IsRoot
             THEN copy_lookup(TxId, TxCalldata, call_id, Memory,
                              op.offset, Len(CallData), op.memory_offset, op.length)
             ELSE copy_lookup(Caller, Memory, call_id, Memory, context.call_data.offset + op.offset,
                              calldata_end, op.memory_offset, op.length)
<1>1. PICK op \in CopyOperands("CALLDATACOPY") : Begin(op, lookups(op))
  BY DEF CallDataCopy
<1>2. /\ op \in CopyOps /\ op.name = "CALLDATACOPY"
      /\ op.memory_offset + op.length <= MaxAddr + 1
      /\ op.memory_offset \in Nat /\ op.length \in Nat /\ op.offset \in Nat
      /\ op.memory_offset \in Addresses
  BY CopyOperandsTyped DEF CopyNames
<1>3. call_id \in Calls /\ context.call_data \in Ranges /\ ~Executing /\ UNCHANGED frame
  BY DEF CallDataCopy, Running, IInv, TypeOK
<1>4. Fitting(lookups(op))
  <2>1. /\ context.call_data.offset \in Nat /\ context.call_data.length \in Nat
        /\ Len(CallData) \in Nat
    BY <1>3, RangesTyped
  <2>2. context.call_data.offset + op.offset \in Nat /\ calldata_end \in Nat
    <3>1. calldata_end \in Nat
      BY <2>1 DEF calldata_end
    <3>2. op.offset \in Nat
      BY <1>2
    <3> QED
      BY <2>1, <3>1, <3>2
  <2>3. /\ TxId \in Ids /\ Caller \in Ids /\ call_id \in Ids
        /\ TxCalldata \in SourceTags /\ Memory \in SourceTags /\ Memory \in TargetTags
    BY <1>3 DEF Ids, Calls, SourceTags, TargetTags
  <2> QED
    BY <1>2, <1>3, <2>1, <2>2, <2>3, OneFits, NoneFits
<1> HIDE DEF lookups
<1>5. Bound'
  BY <1>1, <1>2, <1>3 DEF IInv, Bound, Begin, BeginWith, frame, CopyNames, RangeNames, IdentityNames
<1>6. op # NoOpcode
  BY <1>2 DEF NoOpcode
<1> QED
  BY <1>1, <1>3, <1>4, <1>5, <1>6, BeginsKeep DEF Begin, IInv, TypeOK, frame

LEMMA CodeCopyKeeps ==
  ASSUME Assumptions, IInv, CodeCopy
  PROVE  IInv'
<1> DEFINE lookups(op) ==
             IF op.length = 0 THEN <<>>
             ELSE copy_lookup(CodeHash, Bytecode, call_id, Memory,
                              op.offset, Len(Code), op.memory_offset, op.length)
<1>1. PICK op \in CopyOperands("CODECOPY") : Begin(op, lookups(op))
  BY DEF CodeCopy
<1>2. /\ op \in CopyOps /\ op.name = "CODECOPY" /\ op.memory_offset + op.length <= MaxAddr + 1
      /\ op.memory_offset \in Nat /\ op.length \in Nat /\ op.offset \in Nat
      /\ op.memory_offset \in Addresses
  BY CopyOperandsTyped DEF CopyNames
<1>3. call_id = Caller /\ ~Executing /\ UNCHANGED frame
  BY DEF CodeCopy, Running, IsRoot
<1>4. Fitting(lookups(op))
  <2>1. Len(Code) \in Nat
    BY RangesTyped
  <2>2. /\ CodeHash \in Ids /\ call_id \in Ids /\ call_id \in Calls
        /\ Bytecode \in SourceTags /\ Memory \in TargetTags
    BY <1>3 DEF Ids, Calls, SourceTags, TargetTags
  <2> QED
    BY <1>2, <2>1, <2>2, OneFits, NoneFits
<1> HIDE DEF lookups
<1>5. Bound'
  BY <1>1, <1>2, <1>3 DEF IInv, Bound, Begin, BeginWith, frame, CopyNames, RangeNames, IdentityNames
<1>6. op # NoOpcode
  BY <1>2 DEF NoOpcode
<1> QED
  BY <1>1, <1>3, <1>4, <1>5, <1>6, BeginsKeep DEF Begin, IInv, TypeOK, frame

LEMMA ReturnDataCopyKeeps ==
  ASSUME Assumptions, IInv, ReturnDataCopy
  PROVE  IInv'
<1> DEFINE lookups(op) ==
             copy_lookup(Callee, Memory, call_id, Memory, last_callee.offset,
                         last_callee.offset + op.length, op.memory_offset, op.length)
<1>1. PICK op \in CopyOperands("RETURNDATACOPY") : Begin(op, lookups(op))
  BY DEF ReturnDataCopy
<1>2. /\ op \in CopyOps /\ op.name = "RETURNDATACOPY"
      /\ op.memory_offset + op.length <= MaxAddr + 1
      /\ op.memory_offset \in Nat /\ op.length \in Nat /\ op.offset \in Nat
      /\ op.memory_offset \in Addresses
  BY CopyOperandsTyped DEF CopyNames
<1>3. call_id = Caller /\ last_callee \in Ranges /\ ~Executing /\ UNCHANGED frame
  BY DEF ReturnDataCopy, Running, IsRoot, IInv, TypeOK
<1>4. Fitting(lookups(op))
  <2>1. last_callee.offset \in Nat
    BY <1>3, RangesTyped
  <2>2. last_callee.offset + op.length \in Nat
    BY <1>2, <2>1
  <2>3. /\ Callee \in Ids /\ call_id \in Ids /\ call_id \in Calls
        /\ Memory \in SourceTags /\ Memory \in TargetTags
    BY <1>3 DEF Ids, Calls, SourceTags, TargetTags
  <2> QED
    BY <1>2, <2>1, <2>2, <2>3, OneFits
<1> HIDE DEF lookups
<1>5. Bound'
  BY <1>1, <1>2, <1>3 DEF IInv, Bound, Begin, BeginWith, frame, CopyNames, RangeNames, IdentityNames
<1>6. op # NoOpcode
  BY <1>2 DEF NoOpcode
<1> QED
  BY <1>1, <1>3, <1>4, <1>5, <1>6, BeginsKeep DEF Begin, IInv, TypeOK, frame

\* LOG, SHA3 and RETURN have a range for their operand.
LEMMA RangeOperandTyped ==
  ASSUME Assumptions, NEW name \in RangeNames, NEW x \in Ranges
  PROVE  LET op == [name |-> name, offset |-> x.offset, length |-> x.length]
         IN  /\ op \in RangeOps /\ op # NoOpcode /\ op.name = name
             /\ op.offset = x.offset /\ op.length = x.length
             /\ [offset |-> op.offset, length |-> op.length] \in Ranges
<1>1. /\ x.offset \in Addresses /\ x.length \in Lengths
      /\ x = [offset |-> x.offset, length |-> x.length]
  BY RangesTyped
<1>2. "none" \notin RangeNames
  BY DEF RangeNames
<1> QED
  BY <1>1, <1>2 DEF RangeOps, NoOpcode

LEMMA RangeBound ==
  ASSUME Assumptions, IInv, NEW name \in RangeNames, NEW x \in Ranges,
         opcode' = [name |-> name, offset |-> x.offset, length |-> x.length],
         UNCHANGED frame, name = "RETURN" => call_id = Callee
  PROVE  Bound'
<1>1. /\ opcode' \in RangeOps /\ opcode'.name = name
      /\ [offset |-> opcode'.offset, length |-> opcode'.length] \in Ranges
  BY RangeOperandTyped
<1>2. name \notin CopyNames /\ name \notin IdentityNames
  BY DEF RangeNames, CopyNames, IdentityNames
<1>3. name \notin {"CODECOPY", "RETURNDATACOPY"}
  BY DEF RangeNames
<1> QED
  BY <1>1, <1>2, <1>3 DEF IInv, Bound, frame

LEMMA LogKeeps ==
  ASSUME Assumptions, IInv, Log
  PROVE  IInv'
<1> DEFINE lookups(x) ==
             IF x.length = 0 THEN <<>>
             ELSE copy_lookup(call_id, Memory, TxId, TxLog,
                              x.offset, x.offset + x.length, 0, x.length)
           op(x) == [name |-> "LOG", offset |-> x.offset, length |-> x.length]
<1>1. PICK x \in Ranges : Begin(op(x), lookups(x))
  BY DEF Log
<1>2. /\ call_id \in Calls /\ ~Executing /\ UNCHANGED frame
      /\ x.offset \in Nat /\ x.length \in Nat
  BY RangesTyped DEF Log, Running, IInv, TypeOK
<1>3. Fitting(lookups(x))
  <2>1. x.offset + x.length \in Nat /\ 0 \in Nat
    BY <1>2
  <2>2. /\ TxId \in Ids /\ call_id \in Ids /\ Memory \in SourceTags /\ TxLog \in TargetTags
        /\ TxLog # Memory
    BY <1>2 DEF Ids, Calls, SourceTags, TargetTags, TxLog, Memory
  <2> QED
    BY <1>2, <2>1, <2>2, OneFits, NoneFits
<1> HIDE DEF lookups
<1>4. "LOG" \in RangeNames
  BY DEF RangeNames
<1>5. Bound' /\ op(x) # NoOpcode
  <2>1. op(x) # NoOpcode
    BY RangeOperandTyped, <1>4, ZenonT(60)
  <2>2. opcode' = op(x) /\ UNCHANGED frame
    BY <1>1, <1>2 DEF Begin, BeginWith
  <2>3. Bound'
    BY <1>2, <1>4, <2>2, RangeBound
  <2> QED
    BY <2>1, <2>3
<1> HIDE DEF op
<1> QED
  BY <1>1, <1>2, <1>3, <1>5, BeginsKeep DEF Begin, IInv, TypeOK, frame

LEMMA Sha3Keeps ==
  ASSUME Assumptions, IInv, Sha3
  PROVE  IInv'
<1> DEFINE lookups(x) ==
             IF x.length = 0 THEN <<>>
             ELSE copy_lookup(call_id, Memory, call_id, RlcAcc,
                              x.offset, x.offset + x.length, 0, x.length)
           op(x) == [name |-> "SHA3", offset |-> x.offset, length |-> x.length]
<1>1. PICK x \in Ranges : Begin(op(x), lookups(x))
  BY DEF Sha3
<1>2. /\ call_id \in Calls /\ ~Executing /\ UNCHANGED frame
      /\ x.offset \in Nat /\ x.length \in Nat
  BY RangesTyped DEF Sha3, Running, IInv, TypeOK
<1>3. Fitting(lookups(x))
  <2>1. x.offset + x.length \in Nat /\ 0 \in Nat
    BY <1>2
  <2>2. /\ call_id \in Ids /\ Memory \in SourceTags /\ RlcAcc \in TargetTags
        /\ RlcAcc # Memory
    BY <1>2 DEF Ids, Calls, SourceTags, TargetTags, RlcAcc, Memory
  <2> QED
    BY <1>2, <2>1, <2>2, OneFits, NoneFits
<1> HIDE DEF lookups
<1>4. "SHA3" \in RangeNames
  BY DEF RangeNames
<1>5. Bound' /\ op(x) # NoOpcode
  <2>1. op(x) # NoOpcode
    BY RangeOperandTyped, <1>4, ZenonT(60)
  <2>2. opcode' = op(x) /\ UNCHANGED frame
    BY <1>1, <1>2 DEF Begin, BeginWith
  <2>3. Bound'
    BY <1>2, <1>4, <2>2, RangeBound
  <2> QED
    BY <2>1, <2>3
<1> HIDE DEF op
<1> QED
  BY <1>1, <1>2, <1>3, <1>5, BeginsKeep DEF Begin, IInv, TypeOK, frame

LEMMA SmallerFits ==
  ASSUME NEW x \in Nat, NEW y \in Nat
  PROVE  Smaller(x, y) \in Nat /\ Smaller(x, y) <= x /\ Smaller(x, y) <= y
BY DEF Smaller

LEMMA ReturnKeeps ==
  ASSUME Assumptions, IInv, Return
  PROVE  IInv'
<1> DEFINE out == context.return_data
           lookups(x) == copy_lookup(call_id, Memory, Caller, Memory, x.offset,
                                     x.offset + x.length, out.offset,
                                     Smaller(x.length, out.length))
           op(x) == [name |-> "RETURN", offset |-> x.offset, length |-> x.length]
<1>1. PICK x \in Ranges : Begin(op(x), lookups(x))
  BY DEF Return
<1>2. /\ call_id \in Calls /\ call_id = Callee /\ ~Executing /\ UNCHANGED frame
      /\ x.offset \in Nat /\ x.length \in Nat /\ out \in Ranges
  BY RangesTyped DEF Return, Running, IInv, TypeOK, IsRoot, Calls
<1>3. Fitting(lookups(x))
  <2>1. /\ x.offset + x.length \in Nat /\ out.offset \in Nat /\ out.length \in Nat
        /\ out.offset + out.length <= MaxAddr + 1 /\ out.offset \in Addresses /\ MaxAddr \in Nat
    <3> HIDE DEF out
    <3>1. /\ out.offset \in Nat /\ out.length \in Nat
          /\ out.offset + out.length <= MaxAddr + 1 /\ out.offset \in Addresses
      BY <1>2, RangesTyped
    <3> QED
      BY <1>2, <3>1, RangesTyped
  <2>2. /\ call_id \in Ids /\ Caller \in Ids /\ Caller \in Calls
        /\ Memory \in SourceTags /\ Memory \in TargetTags
    BY <1>2 DEF Ids, Calls, SourceTags, TargetTags
  <2> DEFINE copied == Smaller(x.length, out.length)
  <2>3. copied \in Nat /\ copied <= out.length
    BY <1>2, <2>1, SmallerFits
  <2> HIDE DEF copied, out
  <2>4. out.offset + copied <= MaxAddr + 1
    BY <2>1, <2>3
  <2> QED
    BY <1>2, <2>1, <2>2, <2>3, <2>4, OneFits DEF copied
<1> HIDE DEF lookups
<1>4. "RETURN" \in RangeNames
  BY DEF RangeNames
<1>5. Bound' /\ op(x) # NoOpcode
  <2>1. op(x) # NoOpcode
    BY RangeOperandTyped, <1>4, ZenonT(60)
  <2>2. opcode' = op(x) /\ UNCHANGED frame
    BY <1>1, <1>2 DEF Begin, BeginWith
  <2>3. Bound'
    BY <1>2, <1>4, <2>2, RangeBound
  <2> QED
    BY <2>1, <2>3
<1> HIDE DEF op
<1> QED
  BY <1>1, <1>2, <1>3, <1>5, BeginsKeep DEF Begin, IInv, TypeOK, frame

LEMMA Mstore8Keeps ==
  ASSUME Assumptions, IInv, Mstore8
  PROVE  IInv'
<1>1. PICK a \in Addresses, byte \in Bytes : memory' = [memory EXCEPT ![call_id][a] = byte]
  BY DEF Mstore8
<1>2. /\ UNCHANGED frame /\ UNCHANGED <<opcode, todo, step, copy_rwc_inc, rlc_acc, counters, before>>
      /\ UNCHANGED log
  BY DEF Mstore8
<1>3. TypeOK'
  BY <1>1, <1>2 DEF IInv, TypeOK, frame
<1> QED
  BY <1>2, <1>3 DEF IInv, Bound, Queued, Counted, frame, Executing, Byte

LEMMA FreshTyped ==
  ASSUME Assumptions
  PROVE  Fresh \in [Addresses -> Bytes] /\ NoMemory \in [Calls -> [Addresses -> Bytes]]
BY DEF Assumptions, BytesAssumption, Fresh, NoMemory

LEMMA NewCalleeTyped ==
  ASSUME Assumptions, IInv
  PROVE  EmptyCallee \in [Calls -> [Addresses -> Bytes]]
BY FreshTyped DEF EmptyCallee, IInv, TypeOK

LEMMA CallContractKeeps ==
  ASSUME Assumptions, IInv, CallContract
  PROVE  IInv'
<1>1. /\ ~Executing /\ call_id = Caller /\ call_id' = Callee /\ last_callee' = NoData
      /\ context' \in [call_data : Ranges, return_data : Ranges]
      /\ memory' = EmptyCallee
      /\ UNCHANGED <<is_precompile, log, opcode, todo, step, copy_rwc_inc, rlc_acc, counters,
                     before, called>>
  BY DEF CallContract, Running, IsRoot
<1>2. NoData \in Ranges /\ Callee \in Calls /\ Caller # Callee
  BY RangesTyped DEF Calls, Caller, Callee
<1>3. TypeOK'
  BY <1>1, <1>2, NewCalleeTyped DEF IInv, TypeOK
<1>4. ~is_precompile
  BY <1>1, <1>2 DEF IInv, Bound
<1>5. opcode.name = "none"
  BY <1>1 DEF Executing, NoOpcode
<1>6. Bound'
  BY <1>1, <1>4, <1>5 DEF IInv, Bound, CopyNames, RangeNames, IdentityNames
<1> QED
  BY <1>1, <1>3, <1>6 DEF IInv, Queued, Counted, Executing, Byte

LEMMA StopKeeps ==
  ASSUME Assumptions, IInv, Stop
  PROVE  IInv'
<1>1. /\ ~Executing /\ ~is_precompile /\ call_id' = Caller
      /\ last_callee' = NoData /\ context' = NoContext
      /\ UNCHANGED <<memory, is_precompile, log, opcode, todo, step, copy_rwc_inc,
                     rlc_acc, counters, before, called>>
  BY DEF Stop, Running
<1>2. NoData \in Ranges /\ Caller \in Calls /\ NoContext \in [call_data : Ranges, return_data : Ranges]
  BY RangesTyped DEF Calls, NoContext
<1>3. TypeOK'
  BY <1>1, <1>2 DEF IInv, TypeOK
<1>5. opcode.name = "none"
  BY <1>1 DEF Executing, NoOpcode
<1>6. Bound'
  BY <1>1, <1>5 DEF IInv, Bound, CopyNames, RangeNames, IdentityNames
<1> QED
  BY <1>1, <1>3, <1>6 DEF IInv, Queued, Counted, Executing, Byte

LEMMA IdentityBound ==
  ASSUME Assumptions, IInv, NEW name \in IdentityNames, NEW in \in Ranges, NEW out \in Ranges,
         HasRoom(out), opcode' = [name |-> name, call_data |-> in, return_data |-> out],
         context' = [call_data |-> in, return_data |-> out],
         is_precompile' => call_id' = Callee
  PROVE  Bound' /\ opcode' # NoOpcode
<1>1. opcode' \in IdentityOps /\ opcode'.name = name /\ opcode'.return_data = out
  BY DEF IdentityOps
<1>2. name \notin CopyNames /\ name \notin RangeNames
  BY DEF RangeNames, CopyNames, IdentityNames
<1>3. name \notin {"CODECOPY", "RETURNDATACOPY", "RETURN", "none"}
  BY DEF IdentityNames
<1>4. Bound'
  BY <1>1, <1>2, <1>3 DEF Bound
<1> QED
  BY <1>1, <1>3, <1>4 DEF NoOpcode

LEMMA CallIdentityKeeps ==
  ASSUME Assumptions, IInv, CallIdentity
  PROVE  IInv'
<1> DEFINE reading(read) ==
             IF read.length = 0 THEN <<>>
             ELSE copy_lookup(Caller, Memory, Callee, RlcAcc, read.offset,
                              read.offset + read.length, 0, read.length)
           output(in) == copy_lookup(Callee, Memory, Callee, RlcAcc, 0, in.length, 0, in.length)
           back(in, out) ==
             copy_lookup(Callee, Memory, Caller, Memory, 0, Smaller(in.length, out.length),
                         out.offset, Smaller(in.length, out.length))
           returning(in, out) == IF in.length = 0 THEN <<>> ELSE output(in) \o back(in, out)
           op(in, out) == [name |-> "CALL", call_data |-> in, return_data |-> out]
<1>1. PICK in \in Ranges, read \in Ranges, out \in Ranges :
        /\ HasRoom(out)
        /\ BeginWith(op(in, out), reading(read) \o returning(in, out), EmptyCallee)
        /\ context' = [call_data |-> in, return_data |-> out]
  BY DEF CallIdentity
<1>2. /\ ~Executing /\ call_id = Caller /\ UNCHANGED <<call_id, is_precompile, last_callee>>
      /\ called' = memory[Caller]
  BY DEF CallIdentity, Running, IsRoot
<1>3. /\ in.offset \in Nat /\ in.length \in Nat /\ read.offset \in Nat /\ read.length \in Nat
      /\ out.offset \in Nat /\ out.length \in Nat /\ out.offset \in Addresses
      /\ out.offset + out.length <= MaxAddr + 1 /\ MaxAddr \in Nat
  BY RangesTyped
<1>4. /\ Callee \in Ids /\ Caller \in Ids /\ Caller \in Calls
      /\ Memory \in SourceTags /\ Memory \in TargetTags
      /\ RlcAcc \in TargetTags /\ RlcAcc # Memory
  BY DEF Ids, Calls, SourceTags, TargetTags, RlcAcc, Memory
<1>5. Fitting(reading(read))
  <2>1. read.offset + read.length \in Nat /\ 0 \in Nat
    BY <1>3
  <2> QED
    BY <1>3, <1>4, <2>1, OneFits, NoneFits
<1>6. Fitting(output(in))
  <2>1. 0 \in Nat
    OBVIOUS
  <2> QED
    BY <1>3, <1>4, <2>1, OneFits
<1>7. Fitting(back(in, out))
  <2> DEFINE copied == Smaller(in.length, out.length)
  <2>1. copied \in Nat /\ copied <= out.length /\ 0 \in Nat
    BY <1>3, SmallerFits
  <2> HIDE DEF copied
  <2>2. out.offset + copied <= MaxAddr + 1
    BY <1>3, <2>1
  <2> QED
    BY <1>3, <1>4, <2>1, <2>2, OneFits DEF copied
<1> HIDE DEF output, back
<1>8. Fitting(returning(in, out))
  BY <1>6, <1>7, MoreFit, NoneFits
<1> HIDE DEF reading, returning
<1>9. Fitting(reading(read) \o returning(in, out))
  BY <1>5, <1>8, MoreFit
<1>10. is_precompile' => call_id' = Callee
  BY <1>2 DEF IInv, Bound
<1>11. Bound' /\ op(in, out) # NoOpcode
  <2>1. "CALL" \in IdentityNames
    BY DEF IdentityNames
  <2> QED
    BY <1>1, <1>10, <2>1, IdentityBound DEF BeginWith
<1> HIDE DEF op
<1>12. context' \in [call_data : Ranges, return_data : Ranges]
  BY <1>1
<1>13. called' \in [Addresses -> Bytes]
  BY <1>2 DEF IInv, TypeOK, Calls
<1> QED
  BY <1>1, <1>2, <1>9, <1>11, <1>12, <1>13, BeginsKeep, NewCalleeTyped DEF IInv, TypeOK

LEMMA dataCopyKeeps ==
  ASSUME Assumptions, IInv, dataCopy
  PROVE  IInv'
<1> DEFINE in == context.call_data
           out == context.return_data
           output == copy_lookup(Caller, Memory, Caller, Memory, in.offset, calldata_end,
                                 out.offset, out.offset + out.length)
           copied == copy_lookup(Caller, Memory, Callee, Memory, in.offset, calldata_end,
                                 0, out.length)
           op == [name |-> "DATACOPY", call_data |-> in, return_data |-> out]
<1>1. BeginWith(op, output \o copied, memory)
  BY DEF dataCopy, Begin
<1>2. ~Executing /\ is_precompile /\ UNCHANGED frame
  BY DEF dataCopy
<1>3. /\ in \in Ranges /\ out \in Ranges /\ calldata_end = in.offset + in.length
      /\ context = [call_data |-> in, return_data |-> out]
  BY DEF IInv, TypeOK, calldata_end
<1>4. HasRoom(out) /\ (is_precompile' => call_id' = Callee)
  BY <1>2 DEF IInv, Bound, frame
<1> HIDE DEF in, out
<1>5. /\ in.offset \in Nat /\ in.length \in Nat
      /\ out.offset \in Nat /\ out.length \in Nat /\ out.offset \in Addresses
      /\ out.offset + out.length <= MaxAddr + 1 /\ MaxAddr \in Nat
  BY <1>3, RangesTyped
<1>6. /\ Callee \in Ids /\ Caller \in Ids /\ Caller \in Calls /\ Callee \in Calls
      /\ Memory \in SourceTags /\ Memory \in TargetTags
  BY DEF Ids, Calls, SourceTags, TargetTags
<1>7. /\ calldata_end \in Nat /\ out.offset + out.length \in Nat
      /\ out.offset + (out.offset + out.length) <= MaxAddr + 1
      /\ 0 + out.length <= MaxAddr + 1 /\ 0 \in Nat /\ 0 \in Addresses
  BY <1>3, <1>4, <1>5 DEF HasRoom, Addresses
<1>8. Fitting(output)
  BY <1>5, <1>6, <1>7, OneFits
<1>9. Fitting(copied)
  BY <1>5, <1>6, <1>7, OneFits
<1> HIDE DEF output, copied
<1>10. Fitting(output \o copied)
  BY <1>8, <1>9, MoreFit
<1>11. context' = [call_data |-> in, return_data |-> out]
  BY <1>2, <1>3 DEF frame
<1>12. Bound' /\ op # NoOpcode
  <2>1. "DATACOPY" \in IdentityNames
    BY DEF IdentityNames
  <2> QED
    BY <1>1, <1>3, <1>4, <1>11, <2>1, IdentityBound DEF BeginWith
<1> HIDE DEF op
<1> QED
  BY <1>1, <1>2, <1>10, <1>12, BeginsKeep DEF IInv, TypeOK, frame

\* A step ends when its copies are laid.
LEMMA EndKeeps ==
  ASSUME Assumptions, IInv, EndStep, call_id' \in Calls, is_precompile' \in BOOLEAN,
         last_callee' \in Ranges, context' \in [call_data : Ranges, return_data : Ranges],
         called' \in [Addresses -> Bytes],
         is_precompile' => call_id' = Callee /\ HasRoom(context'.return_data)
  PROVE  IInv'
<1>1. /\ Executing /\ todo = <<>> /\ opcode' = NoOpcode
      /\ copy_rwc_inc' = 0 /\ rlc_acc' = 0 /\ counters' = {} /\ log' = NoLog
      /\ UNCHANGED <<memory, todo, step>>
  BY DEF EndStep, Done
<1>2. step = NoStep
  BY <1>1 DEF IInv, Counted
<1>3. TypeOK'
  BY <1>1 DEF IInv, TypeOK, NoLog
<1>4. Bound'
  BY <1>1 DEF Bound, NoOpcode, CopyNames, RangeNames, IdentityNames
<1>5. Queued' /\ Counted'
  BY <1>1, <1>2 DEF IInv, Queued, Counted, Executing
<1> QED
  BY <1>3, <1>4, <1>5 DEF IInv

LEMMA EndSameContextKeeps ==
  ASSUME Assumptions, IInv, EndSameContext
  PROVE  IInv'
<1>1. EndStep /\ UNCHANGED frame
  BY DEF EndSameContext
<1> QED
  BY <1>1, EndKeeps DEF IInv, TypeOK, Bound, frame

LEMMA EnterIdentityKeeps ==
  ASSUME Assumptions, IInv, EnterIdentity
  PROVE  IInv'
<1>1. /\ EndStep /\ opcode.name \in IdentityNames /\ call_id' = Callee /\ is_precompile' = TRUE
      /\ last_callee' = NoData /\ UNCHANGED <<context, called>>
  BY DEF EnterIdentity, IdentityNames
<1>2. HasRoom(context.return_data)
  BY <1>1 DEF IInv, Bound
<1>3. NoData \in Ranges /\ Callee \in Calls
  BY RangesTyped DEF Calls
<1>4. HasRoom(context'.return_data) /\ context' \in [call_data : Ranges, return_data : Ranges]
  BY <1>1, <1>2 DEF IInv, TypeOK
<1> QED
  BY <1>1, <1>3, <1>4, EndKeeps DEF IInv, TypeOK

LEMMA RestoreCallerKeeps ==
  ASSUME Assumptions, IInv, RestoreCaller
  PROVE  IInv'
<1>1. /\ EndStep /\ call_id' = Caller /\ is_precompile' = FALSE /\ context' = NoContext
      /\ called' = Fresh
  BY DEF RestoreCaller
<1>2. NoContext \in [call_data : Ranges, return_data : Ranges] /\ Caller \in Calls
  BY RangesTyped DEF Calls, NoContext
<1>3. last_callee' \in Ranges
  <2>1. CASE opcode.name = "RETURN"
    BY <2>1 DEF RestoreCaller, IInv, Bound, RangeNames
  <2>2. CASE opcode.name = "DATACOPY"
    <3>1. opcode \in IdentityOps
      <4>1. opcode \in CopyOps => opcode.name \in CopyNames
        BY DEF CopyOps
      <4>2. opcode \in RangeOps => opcode.name \in RangeNames
        BY DEF RangeOps
      <4>3. opcode = NoOpcode => opcode.name = "none"
        BY DEF NoOpcode
      <4> QED
        BY <2>2, <4>1, <4>2, <4>3 DEF IInv, Bound, CopyNames, RangeNames
    <3>2. opcode.call_data \in Ranges
      BY <3>1 DEF IdentityOps
    <3> QED
      BY <2>2, <3>2, RangesTyped DEF RestoreCaller
  <2> QED
    BY <2>1, <2>2 DEF RestoreCaller
<1> QED
  BY <1>1, <1>2, <1>3, EndKeeps, FreshTyped

LEMMA InitKeeps ==
  ASSUME Assumptions, Init
  PROVE  IInv
<1>1. /\ memory = NoMemory /\ call_id = Caller /\ is_precompile = FALSE
      /\ context = NoContext /\ last_callee = NoData /\ log = NoLog
      /\ opcode = NoOpcode /\ todo = <<>> /\ step = NoStep
      /\ copy_rwc_inc = 0 /\ rlc_acc = 0 /\ counters = {} /\ called = Fresh
  BY DEF Init
<1>2. NoContext \in [call_data : Ranges, return_data : Ranges] /\ Caller \in Calls
      /\ NoData \in Ranges
  BY RangesTyped DEF Calls, NoContext
<1>3. TypeOK
  BY <1>1, <1>2, FreshTyped DEF TypeOK, NoLog
<1>4. Bound
  BY <1>1 DEF Bound, NoOpcode, CopyNames, RangeNames, IdentityNames
<1>5. Queued /\ Counted
  BY <1>1 DEF Queued, Counted
<1> QED
  BY <1>3, <1>4, <1>5 DEF IInv

LEMMA StepKeeps ==
  ASSUME Assumptions, IInv, [Next]_vars
  PROVE  IInv'
<1>1. CASE FirstStep
  BY <1>1, FirstLays, LaidCounted
<1>2. CASE NextStep
  BY <1>2, NextLays, LaidCounted
<1>3. CASE UNCHANGED vars
  BY <1>3 DEF vars, IInv, TypeOK, Bound, Queued, Counted, Executing, Byte
<1> QED
  BY <1>1, <1>2, <1>3, CallDataCopyKeeps, CodeCopyKeeps, ReturnDataCopyKeeps, LogKeeps, Sha3Keeps,
     Mstore8Keeps, ReturnKeeps, CallContractKeeps, CallIdentityKeeps, dataCopyKeeps, StopKeeps,
     EndSameContextKeeps, EnterIdentityKeeps, RestoreCallerKeeps DEF Next

-----------------------------------------------------------------------------
(* The bytes of a copy.                                                    *)

Asked(src_id, src_tag, dst_id, dst_tag, src_addr, src_addr_end, dst_addr, length) ==
  [src_id |-> src_id, src_tag |-> src_tag, dst_id |-> dst_id, dst_tag |-> dst_tag,
   src_addr |-> src_addr, src_addr_end |-> src_addr_end, dst_addr |-> dst_addr,
   length |-> length]

\* The copy that has the effect of the step, the first one of DATACOPY.
TheCopy ==
  LET named(name) == opcode.name = name
  IN  IF named("CALLDATACOPY") /\ IsRoot
      THEN Asked(TxId, TxCalldata, call_id, Memory,
                 opcode.offset, Len(CallData), opcode.memory_offset, opcode.length)
      ELSE IF named("CALLDATACOPY")
      THEN Asked(Caller, Memory, call_id, Memory, context.call_data.offset + opcode.offset,
                 calldata_end, opcode.memory_offset, opcode.length)
      ELSE IF named("CODECOPY")
      THEN Asked(CodeHash, Bytecode, call_id, Memory,
                 opcode.offset, Len(Code), opcode.memory_offset, opcode.length)
      ELSE IF named("RETURNDATACOPY")
      THEN Asked(Callee, Memory, call_id, Memory, last_callee.offset,
                 last_callee.offset + opcode.length, opcode.memory_offset, opcode.length)
      ELSE IF named("LOG")
      THEN Asked(call_id, Memory, TxId, TxLog,
                 opcode.offset, opcode.offset + opcode.length, 0, opcode.length)
      ELSE IF named("SHA3")
      THEN Asked(call_id, Memory, call_id, RlcAcc,
                 opcode.offset, opcode.offset + opcode.length, 0, opcode.length)
      ELSE IF named("RETURN")
      THEN Asked(call_id, Memory, Caller, Memory, opcode.offset, opcode.offset + opcode.length,
                 context.return_data.offset, Smaller(opcode.length, context.return_data.length))
      ELSE Asked(Caller, Memory, Caller, Memory, context.call_data.offset, calldata_end,
                 context.return_data.offset,
                 context.return_data.offset + context.return_data.length)

\* The copy that DATACOPY makes after it, of the input to the callee.
Second ==
  Asked(Caller, Memory, Callee, Memory, context.call_data.offset, calldata_end,
        0, context.return_data.length)
Later == IF opcode.name = "DATACOPY" THEN <<Second>> ELSE <<>>

\* A byte of the source of a copy, as it was before the step, and 0 beyond the end of it.
SourceByte(mem, lookup, n) ==
  LET addr == lookup.src_addr + n
  IN  IF ~(addr < lookup.src_addr_end) THEN 0
      ELSE IF lookup.src_tag = Memory THEN mem[lookup.src_id][addr]
      ELSE IF lookup.src_tag = Bytecode THEN ByteAt(Code, addr)
      ELSE ByteAt(CallData, addr)

\* The first n bytes of a copy are in the memory of the calls, and nothing else is changed.
Written(mem, old, lookup, n, calls) ==
  \A c \in calls, a \in Addresses :
    mem[c][a] = IF /\ lookup.dst_tag = Memory /\ c = lookup.dst_id
                   /\ lookup.dst_addr <= a /\ a < lookup.dst_addr + n
                THEN SourceByte(old, lookup, a - lookup.dst_addr)
                ELSE old[c][a]

\* The first n bytes of a copy are logged.
Logged(logs, old, lookup, n) ==
  lookup.dst_tag = TxLog =>
    /\ DOMAIN logs = 0 .. n - 1
    /\ \A i \in 0 .. n - 1 : logs[i] = SourceByte(old, lookup, i)

\* The random linear combination of the first n bytes of a copy.
Accumulated(old, lookup, n) == RLC([k \in 1 .. n |-> SourceByte(old, lookup, k - 1)])

\* DATACOPY uses the memory of the callee for its second copy.
Watched == IF opcode.name = "DATACOPY" THEN {Caller} ELSE Calls

Effective == Executing /\ opcode.name # "CALL" /\ (opcode.name = "DATACOPY" => PlainIdentity)

Laid(n) == Written(memory, before, TheCopy, n, Watched) /\ Logged(log, before, TheCopy, n)

\* The bytes of the copy that are laid, and no others, have arrived.
Arrived ==
  Effective =>
    \/ /\ todo # <<>> /\ Head(todo) = TheCopy /\ Tail(todo) = Later
       /\ step = NoStep => Laid(0)
       /\ step # NoStep /\ TheCopy.length > 0 =>
            /\ Laid(Byte + 1)
            /\ TheCopy.dst_tag = RlcAcc =>
                 step.write.value = Accumulated(before, TheCopy, Byte + 1)
    \/ /\ todo \in {Later, <<>>}
       /\ Laid(TheCopy.length)
       /\ TheCopy.dst_tag = RlcAcc => rlc_acc = Accumulated(before, TheCopy, TheCopy.length)

\* The counters that the copies of DATACOPY take: two for each byte.
Spent ==
  PlainIdentity =>
    LET length == context.call_data.length
        spends(base) ==
          /\ step = NoStep => copy_rwc_inc = base
          /\ step # NoStep => /\ step.rw_counter = base + 2 * Byte
                              /\ Byte < length => followed_counter(step) = 2
    IN  \/ todo = <<TheCopy, Second>> /\ spends(0)
        \/ todo = <<Second>> /\ spends(2 * length)
        \/ todo = <<>> /\ copy_rwc_inc = 4 * length

-----------------------------------------------------------------------------
(* Random linear combinations.  A recursive function is the function that  *)
(* satisfies its equation, so one has to be shown to exist.                *)

Less == {p \in Nat \X Nat : p[1] < p[2]}

LEMMA Least ==
  ASSUME NEW T \in SUBSET Nat, T # {}
  PROVE  \E m \in T : \A n \in T : m <= n
<1>1. IsWellFoundedOn(Less, Nat)
  BY NatLessThanWellFounded DEF OpToRel, Less
<1>2. PICK m \in T : \A n \in T : <<n, m>> \notin Less
  BY <1>1, WFMin
<1>3. \A n \in T : ~(n < m)
  BY <1>2 DEF Less
<1> QED
  BY <1>3

LEMMA Induct ==
  ASSUME NEW S, 0 \in S, \A n \in Nat : n \in S => n + 1 \in S
  PROVE  \A n \in Nat : n \in S
<1> SUFFICES ASSUME Nat \ S # {} PROVE FALSE
  OBVIOUS
<1>1. (Nat \ S) \in SUBSET Nat
  OBVIOUS
<1>2. PICK m \in Nat \ S : \A n \in Nat \ S : m <= n
  BY <1>1, Least
<1>3. m # 0 /\ m - 1 \in Nat
  BY <1>2
<1>4. m - 1 \in S
  BY <1>2, <1>3
<1> QED
  BY <1>2, <1>3, <1>4


\* g accumulates data, byte by byte, up to n.
AccsUpTo(g, data, n) ==
  g = [k \in 0 .. n |-> IF k = 0 THEN 0 ELSE g[k - 1] * Randomness + data[k]]

LEMMA AccsExist ==
  ASSUME NEW data, NEW n \in Nat
  PROVE  \E g : AccsUpTo(g, data, n)
<1> DEFINE S == {m \in Nat : \E g : AccsUpTo(g, data, m)}
<1>1. 0 \in S
  <2>1. AccsUpTo([k \in 0 .. 0 |-> 0], data, 0)
    BY DEF AccsUpTo
  <2> QED
    BY <2>1
<1>2. ASSUME NEW m \in Nat, m \in S
      PROVE  m + 1 \in S
  <2>1. PICK g : AccsUpTo(g, data, m)
    BY <1>2
  <2> DEFINE v == g[m] * Randomness + data[m + 1]
             h == [k \in 0 .. m + 1 |-> IF k = m + 1 THEN v ELSE g[k]]
  <2>2. ASSUME NEW k \in 0 .. m + 1
        PROVE  h[k] = IF k = 0 THEN 0 ELSE h[k - 1] * Randomness + data[k]
    <3>1. CASE k = m + 1
      <4>1. k # 0 /\ k - 1 = m /\ m \in 0 .. m + 1 /\ m # m + 1
        BY <3>1
      <4>2. h[k] = v /\ h[m] = g[m]
        BY <3>1, <4>1
      <4> HIDE DEF h
      <4> QED
        BY <3>1, <4>1, <4>2
    <3>2. CASE k # m + 1
      <4>1. k \in 0 .. m /\ h[k] = g[k]
        BY <3>2
      <4>2. CASE k = 0
        <5>1. g[k] = 0
          BY <2>1, <4>1, <4>2 DEF AccsUpTo
        <5> QED
          BY <4>1, <4>2, <5>1
      <4>3. CASE k # 0
        <5>1. k - 1 \in 0 .. m /\ k - 1 # m + 1 /\ k - 1 \in 0 .. m + 1
          BY <4>1, <4>3
        <5>2. h[k - 1] = g[k - 1]
          BY <5>1
        <5>3. g[k] = g[k - 1] * Randomness + data[k]
          BY <2>1, <4>1, <4>3 DEF AccsUpTo
        <5> HIDE DEF h
        <5> QED
          BY <4>1, <4>3, <5>2, <5>3
      <4> QED
        BY <4>2, <4>3
    <3> QED
      BY <3>1, <3>2
  <2>3. h = [k \in 0 .. m + 1 |-> IF k = 0 THEN 0 ELSE h[k - 1] * Randomness + data[k]]
    <3> DEFINE r(k) == IF k = 0 THEN 0 ELSE h[k - 1] * Randomness + data[k]
    <3>1. \A k \in 0 .. m + 1 : h[k] = r(k)
      BY <2>2
    <3>2. h = [k \in 0 .. m + 1 |-> h[k]]
      OBVIOUS
    <3> HIDE DEF h, r
    <3>3. h = [k \in 0 .. m + 1 |-> r(k)]
      BY <3>1, <3>2
    <3> QED
      BY <3>3 DEF r
  <2>4. AccsUpTo(h, data, m + 1)
    BY <2>3 DEF AccsUpTo
  <2> HIDE DEF h
  <2> QED
    BY <2>4
<1>3. \A m \in Nat : m \in S => m + 1 \in S
  BY <1>2
<1>4. n \in S
  <2> HIDE DEF S
  <2> QED
    BY <1>1, <1>3, Induct
<1> QED
  BY <1>4

Begins(data, more, m) == \A k \in 1 .. m : data[k] = more[k]

LEMMA AccsAgree ==
  ASSUME NEW data, NEW more, NEW m \in Nat, NEW n \in Nat, m <= n, Begins(data, more, m),
         NEW g, NEW h, AccsUpTo(g, data, m), AccsUpTo(h, more, n)
  PROVE  g[m] = h[m]
<1> DEFINE S == {k \in Nat : k <= m => g[k] = h[k]}
<1>1. 0 \in S
  BY DEF AccsUpTo
<1>2. ASSUME NEW k \in Nat, k \in S, k + 1 <= m
      PROVE  g[k + 1] = h[k + 1]
  <2>1. /\ k + 1 \in 0 .. m /\ k + 1 \in 0 .. n /\ k + 1 # 0 /\ (k + 1) - 1 = k
        /\ k + 1 \in 1 .. m
    BY <1>2
  <2>2. /\ g[k + 1] = g[k] * Randomness + data[k + 1]
        /\ h[k + 1] = h[k] * Randomness + more[k + 1]
    BY <2>1 DEF AccsUpTo
  <2>3. g[k] = h[k] /\ data[k + 1] = more[k + 1]
    BY <1>2, <2>1 DEF Begins
  <2> QED
    BY <2>2, <2>3
<1>3. \A k \in Nat : k \in S => k + 1 \in S
  BY <1>2
<1>4. m \in S
  <2> HIDE DEF S
  <2> QED
    BY <1>1, <1>3, Induct
<1> QED
  BY <1>4

LEMMA RLCIs ==
  ASSUME NEW data, Len(data) \in Nat
  PROVE  \E g : AccsUpTo(g, data, Len(data)) /\ RLC(data) = g[Len(data)]
<1> DEFINE p == CHOOSE g : AccsUpTo(g, data, Len(data))
<1>1. AccsUpTo(p, data, Len(data))
  BY AccsExist
<1>2. RLC(data) = p[Len(data)]
  BY DEF RLC, AccsUpTo
<1> HIDE DEF p
<1> QED
  BY <1>1, <1>2

\* The combination of no bytes, and of one byte more.
LEMMA RLCSteps ==
  ASSUME NEW value, NEW n \in Nat
  PROVE  /\ RLC([k \in 1 .. 0 |-> value[k]]) = 0
         /\ RLC([k \in 1 .. n + 1 |-> value[k]])
              = RLC([k \in 1 .. n |-> value[k]]) * Randomness + value[n + 1]
<1> DEFINE d(m) == [k \in 1 .. m |-> value[k]]
<1>1. ASSUME NEW m \in Nat
      PROVE  Len(d(m)) = m /\ DOMAIN d(m) = 1 .. m /\ \A k \in 1 .. m : d(m)[k] = value[k]
  BY <1>1
<1> HIDE DEF d
<1>2. ASSUME NEW m \in Nat
      PROVE  \E g : AccsUpTo(g, d(m), m) /\ RLC(d(m)) = g[m]
  BY <1>1, RLCIs
<1>3. RLC(d(0)) = 0
  <2>1. PICK g : AccsUpTo(g, d(0), 0) /\ RLC(d(0)) = g[0]
    BY <1>2
  <2> QED
    BY <2>1 DEF AccsUpTo
<1>4. RLC(d(n + 1)) = RLC(d(n)) * Randomness + value[n + 1]
  <2>1. PICK g : AccsUpTo(g, d(n), n) /\ RLC(d(n)) = g[n]
    BY <1>2
  <2>2. PICK h : AccsUpTo(h, d(n + 1), n + 1) /\ RLC(d(n + 1)) = h[n + 1]
    BY <1>2
  <2>3. n + 1 \in 0 .. n + 1 /\ n + 1 # 0 /\ (n + 1) - 1 = n /\ n <= n + 1 /\ n + 1 \in Nat
        /\ n + 1 \in 1 .. n + 1
    OBVIOUS
  <2>4. h[n + 1] = h[n] * Randomness + d(n + 1)[n + 1]
    BY <2>2, <2>3 DEF AccsUpTo
  <2>5. \A k \in 1 .. n : d(n)[k] = d(n + 1)[k]
    <3>1. \A k \in 1 .. n : k \in 1 .. n + 1
      OBVIOUS
    <3>2. /\ \A k \in 1 .. n : d(n)[k] = value[k]
          /\ \A k \in 1 .. n + 1 : d(n + 1)[k] = value[k]
      BY <1>1, <2>3
    <3> QED
      BY <3>1, <3>2
  <2>6. g[n] = h[n]
    <3> DEFINE e == d(n)   f == d(n + 1)   m == n + 1
    <3>1. /\ AccsUpTo(g, e, n) /\ AccsUpTo(h, f, m) /\ m \in Nat /\ n <= m /\ n \in Nat
          /\ Begins(e, f, n)
      BY <2>1, <2>2, <2>3, <2>5 DEF Begins
    <3> HIDE DEF e, f, m
    <3> QED
      BY <3>1, AccsAgree
  <2>7. d(n + 1)[n + 1] = value[n + 1]
    BY <1>1, <2>3
  <2> QED
    BY <2>1, <2>2, <2>4, <2>6, <2>7
<1> QED
  BY <1>3, <1>4 DEF d

-----------------------------------------------------------------------------
(* A byte that is laid.                                                    *)

\* A copy within one memory goes towards its beginning.
Ahead(lookup) ==
  lookup.dst_tag = Memory /\ lookup.src_id = lookup.dst_id => lookup.src_addr >= lookup.dst_addr

LEMMA PlaceLaid ==
  ASSUME IInv, NEW s, NEW t, NEW lookup, NEW n, Laying0(s, lookup, n), Lays(s, t)
  PROVE  /\ t \in StepSet /\ s \in StepSet /\ SamePlace(s, t) /\ At(t, lookup, n)
         /\ lookup \in LookupSet /\ Fits(lookup) /\ n \in Nat
         /\ before' = before /\ todo # <<>> /\ Head(todo) = lookup
<1>1. lookup \in LookupSet /\ Fits(lookup)
  BY DEF IInv, Queued, Laying0, Fits
<1> QED
  BY <1>1 DEF Laying0, Lays, SamePlace, At

LEMMA ReadLookup ==
  ASSUME NEW read, read_lookup(read), ~read.is_pad
  PROVE  /\ read.tag = Memory =>
              read.addr \in Addresses /\ read.value = memory[read.id][read.addr]
         /\ read.tag = Bytecode => read.value = ByteAt(Code, read.addr)
         /\ read.tag = TxCalldata => read.value = ByteAt(CallData, read.addr)
BY DEF read_lookup, Memory, Bytecode, TxCalldata

LEMMA ByteRead ==
  ASSUME IInv, NEW s, NEW t, NEW lookup, NEW n, Laying0(s, lookup, n), Lays(s, t),
         NEW calls, Written(memory, before, lookup, n, calls), Ahead(lookup),
         lookup.src_tag = Memory => lookup.src_id \in calls
  PROVE  t.read.value = SourceByte(before, lookup, n)
<1> DEFINE addr == lookup.src_addr + n
<1>1. /\ t.read.addr = addr /\ t.read.src_addr_end = lookup.src_addr_end
      /\ t.read.id = lookup.src_id /\ t.read.tag = lookup.src_tag
      /\ lookup.src_tag \in SourceTags
      /\ t.read.is_pad = ~(addr < lookup.src_addr_end)
      /\ (t.read.is_pad => t.read.value = 0) /\ read_lookup(t.read)
  BY PlaceLaid DEF At, LookupSet, Lays, verify_step, is_padding, padding_value
<1>2. /\ addr \in Nat /\ n \in Nat /\ lookup.src_addr \in Nat /\ lookup.dst_addr \in Nat
      /\ addr = lookup.src_addr + n
  <2>1. n \in Nat /\ lookup \in LookupSet
    BY PlaceLaid
  <2> QED
    BY <2>1 DEF LookupSet
<1> HIDE DEF addr
<1>3. CASE ~(addr < lookup.src_addr_end)
  BY <1>1, <1>3 DEF SourceByte, addr
<1>4. CASE addr < lookup.src_addr_end
  <2>1. ~t.read.is_pad
    BY <1>1, <1>4
  <2>2. CASE lookup.src_tag = Memory
    <3>1. addr \in Addresses /\ t.read.value = memory[lookup.src_id][addr]
      BY <1>1, <2>1, <2>2, ReadLookup
    <3>2. ~(/\ lookup.dst_tag = Memory /\ lookup.src_id = lookup.dst_id
            /\ lookup.dst_addr <= addr /\ addr < lookup.dst_addr + n)
      BY <1>2 DEF Ahead
    <3>3. lookup.src_id \in calls
      BY <2>2
    <3>4. memory[lookup.src_id][addr] = before[lookup.src_id][addr]
      BY <3>1, <3>2, <3>3 DEF Written
    <3> QED
      BY <1>4, <2>2, <3>1, <3>4 DEF SourceByte, addr
  <2>3. CASE lookup.src_tag = Bytecode
    <3>1. t.read.value = ByteAt(Code, addr) /\ lookup.src_tag # Memory
      BY <1>1, <2>1, <2>3, ReadLookup DEF Bytecode, Memory
    <3> QED
      BY <1>4, <2>3, <3>1 DEF SourceByte, addr
  <2>4. CASE lookup.src_tag = TxCalldata
    <3>1. t.read.value = ByteAt(CallData, addr)
          /\ lookup.src_tag # Memory /\ lookup.src_tag # Bytecode
      BY <1>1, <2>1, <2>4, ReadLookup DEF Bytecode, Memory, TxCalldata
    <3> QED
      BY <1>4, <3>1 DEF SourceByte, addr
  <2> QED
    BY <1>1, <2>2, <2>3, <2>4 DEF SourceTags
<1> QED
  BY <1>3, <1>4

LEMMA ByteWritten ==
  ASSUME Assumptions, IInv, NEW s, NEW t, NEW lookup, NEW n, Laying0(s, lookup, n), Lays(s, t),
         NEW calls \in SUBSET Calls, Written(memory, before, lookup, n, calls),
         t.read.value = SourceByte(before, lookup, n)
  PROVE  Written(memory', before', lookup, n + 1, calls)
<1> DEFINE at == lookup.dst_addr + n
<1>1. /\ t.write.addr = at /\ t.write.id = lookup.dst_id /\ t.write.tag = lookup.dst_tag
      /\ write_lookup(t.write) /\ before' = before
      /\ n \in Nat /\ lookup.dst_addr \in Nat /\ at \in Nat
  BY PlaceLaid DEF At, LookupSet, Lays
<1>2. CASE lookup.dst_tag = Memory
  <2>1. t.write.value = SourceByte(before, lookup, n)
    BY <1>1, <1>2, PlaceLaid DEF Lays, SamePlace, Memory, RlcAcc
  <2>2. memory' = [memory EXCEPT ![lookup.dst_id] = WithByte(@, at, SourceByte(before, lookup, n))]
    BY <1>1, <1>2, <2>1 DEF write_lookup
  <2>3. memory \in [Calls -> [Addresses -> Bytes]] /\ Addresses \subseteq Int
    BY RangesTyped DEF IInv, TypeOK, Addresses
  <2> DEFINE byte == SourceByte(before, lookup, n)
             dst == lookup.dst_addr
  <2>4. ASSUME NEW c \in calls, NEW a \in Addresses
        PROVE  memory'[c][a] = IF c = lookup.dst_id /\ a = at THEN byte ELSE memory[c][a]
    <3>1. memory'[c] = IF c = lookup.dst_id THEN WithByte(memory[c], at, byte) ELSE memory[c]
      BY <2>2, <2>3
    <3>2. a \in DOMAIN memory[c]
      BY <2>3
    <3> HIDE DEF byte, at
    <3>3. WithByte(memory[c], at, byte)[a] = IF a = at THEN byte ELSE memory[c][a]
      BY <3>2 DEF WithByte
    <3> QED
      BY <3>1, <3>3
  <2>5. ASSUME NEW c \in calls, NEW a \in Addresses
        PROVE  memory'[c][a] = IF c = lookup.dst_id /\ dst <= a /\ a < dst + (n + 1)
                               THEN SourceByte(before, lookup, a - dst) ELSE before[c][a]
    <3>1. memory[c][a] = IF c = lookup.dst_id /\ dst <= a /\ a < dst + n
                         THEN SourceByte(before, lookup, a - dst) ELSE before[c][a]
      BY <1>2 DEF Written
    <3>2. a \in Int /\ dst \in Int /\ n \in Nat /\ at = dst + n
      BY <1>1, <2>3
    <3>5. memory'[c][a] = IF c = lookup.dst_id /\ a = at THEN byte ELSE memory[c][a]
      BY <2>4
    <3> DEFINE new == memory'[c][a]
    <3>6. new = IF c = lookup.dst_id /\ a = at THEN byte ELSE memory[c][a]
      BY <3>5
    <3> HIDE DEF at, dst, byte, new
    <3>3. CASE a = at
      <4>1. a - dst = n /\ dst <= a /\ a < dst + (n + 1) /\ ~(a < dst + n)
        BY <3>2, <3>3
      <4>2. SourceByte(before, lookup, a - dst) = byte
        BY <4>1 DEF byte
      <4> QED
        BY <3>1, <3>3, <3>6, <4>1, <4>2 DEF new
    <3>4. CASE a # at
      <4>1. (dst <= a /\ a < dst + n) <=> (dst <= a /\ a < dst + (n + 1))
        BY <3>2, <3>4
      <4> QED
        BY <3>1, <3>4, <3>6, <4>1 DEF new
    <3> QED
      BY <3>3, <3>4
  <2> QED
    BY <1>1, <1>2, <2>5 DEF Written
<1>3. CASE lookup.dst_tag # Memory
  <2>1. memory' = memory
    BY <1>1, <1>3 DEF write_lookup
  <2> QED
    BY <1>1, <1>3, <2>1 DEF Written
<1> QED
  BY <1>2, <1>3

LEMMA ByteLogged ==
  ASSUME IInv, NEW s, NEW t, NEW lookup, NEW n, Laying0(s, lookup, n), Lays(s, t),
         lookup.dst_tag = TxLog => lookup.dst_addr = 0,
         Logged(log, before, lookup, n), t.read.value = SourceByte(before, lookup, n)
  PROVE  Logged(log', before', lookup, n + 1)
<1> SUFFICES ASSUME lookup.dst_tag = TxLog
             PROVE  /\ DOMAIN log' = 0 .. (n + 1) - 1
                    /\ \A i \in 0 .. (n + 1) - 1 : log'[i] = SourceByte(before, lookup, i)
  BY PlaceLaid DEF Logged
<1>1. /\ t.write.addr = n /\ t.write.tag = TxLog /\ n \in Nat
  BY PlaceLaid DEF At, LookupSet
<1>2. t.write.value = SourceByte(before, lookup, n)
  BY <1>1, PlaceLaid DEF Lays, SamePlace, TxLog, RlcAcc
<1>3. log' = WithByte(log, n, SourceByte(before, lookup, n))
  BY <1>1, <1>2 DEF Lays, write_lookup
<1>4. DOMAIN log = 0 .. n - 1 /\ \A i \in 0 .. n - 1 : log[i] = SourceByte(before, lookup, i)
  BY DEF Logged
<1>5. DOMAIN log' = 0 .. (n + 1) - 1
  <2>1. DOMAIN log' = DOMAIN log \cup {n}
    BY <1>3 DEF WithByte
  <2> QED
    BY <1>1, <1>4, <2>1
<1>6. ASSUME NEW i \in 0 .. (n + 1) - 1
      PROVE  log'[i] = SourceByte(before, lookup, i)
  <2>1. log'[i] = IF i = n THEN SourceByte(before, lookup, n) ELSE log[i]
    <3>1. i \in DOMAIN log \cup {n}
      BY <1>1, <1>4
    <3> QED
      BY <1>3, <3>1 DEF WithByte
  <2>2. CASE i = n
    BY <2>1, <2>2
  <2>3. CASE i # n
    <3>1. i \in 0 .. n - 1
      BY <1>1, <2>3
    <3> QED
      BY <1>4, <2>1, <2>3, <3>1
  <2> QED
    BY <2>2, <2>3
<1> QED
  BY <1>5, <1>6

LEMMA AccumulatedSteps ==
  ASSUME NEW old, NEW lookup, NEW n \in Nat
  PROVE  /\ Accumulated(old, lookup, 0) = 0
         /\ Accumulated(old, lookup, n + 1)
              = Accumulated(old, lookup, n) * Randomness + SourceByte(old, lookup, n)
<1> DEFINE value == [k \in Nat |-> SourceByte(old, lookup, k - 1)]
<1>1. ASSUME NEW m \in Nat
      PROVE  Accumulated(old, lookup, m) = RLC([k \in 1 .. m |-> value[k]])
  <2>1. \A k \in 1 .. m : value[k] = SourceByte(old, lookup, k - 1)
    OBVIOUS
  <2> HIDE DEF value
  <2>2. [k \in 1 .. m |-> SourceByte(old, lookup, k - 1)] = [k \in 1 .. m |-> value[k]]
    BY <2>1
  <2> QED
    BY <2>2 DEF Accumulated
<1>2. value[n + 1] = SourceByte(old, lookup, n)
  <2>1. n + 1 \in Nat /\ (n + 1) - 1 = n
    OBVIOUS
  <2> QED
    BY <2>1
<1> HIDE DEF value
<1>3. /\ RLC([k \in 1 .. 0 |-> value[k]]) = 0
      /\ RLC([k \in 1 .. n + 1 |-> value[k]])
           = RLC([k \in 1 .. n |-> value[k]]) * Randomness + value[n + 1]
  BY RLCSteps
<1>4. /\ Accumulated(old, lookup, 0) = RLC([k \in 1 .. 0 |-> value[k]])
      /\ Accumulated(old, lookup, n) = RLC([k \in 1 .. n |-> value[k]])
      /\ Accumulated(old, lookup, n + 1) = RLC([k \in 1 .. n + 1 |-> value[k]])
  <2>1. 0 \in Nat /\ n + 1 \in Nat
    OBVIOUS
  <2> QED
    BY <1>1, <2>1, Zenon
<1> QED
  BY <1>2, <1>3, <1>4

-----------------------------------------------------------------------------
(* The copies of each step.                                                *)

EffectNames == CopyNames \cup RangeNames \cup {"DATACOPY"}

\* The copies of a step are those of its operands and of who executes it.
LEMMA SameCopies ==
  ASSUME UNCHANGED <<frame, opcode>>
  PROVE  /\ TheCopy' = TheCopy /\ Second' = Second /\ Later' = Later /\ Watched' = Watched
         /\ (Effective' <=> Effective) /\ (PlainIdentity' <=> PlainIdentity)
         /\ (Executing' <=> Executing)
<1>1. /\ opcode' = opcode /\ call_id' = call_id /\ context' = context
      /\ last_callee' = last_callee
  BY DEF frame
<1>2. (IsRoot' <=> IsRoot) /\ calldata_end' = calldata_end
  BY <1>1 DEF IsRoot, calldata_end
<1>3. TheCopy' = TheCopy
  BY <1>1, <1>2 DEF TheCopy
<1>4. Second' = Second
  BY <1>1, <1>2 DEF Second
<1>5. (PlainIdentity' <=> PlainIdentity) /\ (Executing' <=> Executing)
  BY <1>1 DEF PlainIdentity, Executing
<1> QED
  BY <1>1, <1>3, <1>4, <1>5 DEF Later, Watched, Effective

\* What TheCopy is for each opcode.
LEMMA TheCopyIs ==
  /\ opcode.name = "CALLDATACOPY" /\ IsRoot =>
       TheCopy = Asked(TxId, TxCalldata, call_id, Memory,
                       opcode.offset, Len(CallData), opcode.memory_offset, opcode.length)
  /\ opcode.name = "CALLDATACOPY" /\ ~IsRoot =>
       TheCopy = Asked(Caller, Memory, call_id, Memory, context.call_data.offset + opcode.offset,
                       calldata_end, opcode.memory_offset, opcode.length)
  /\ opcode.name = "CODECOPY" =>
       TheCopy = Asked(CodeHash, Bytecode, call_id, Memory,
                       opcode.offset, Len(Code), opcode.memory_offset, opcode.length)
  /\ opcode.name = "RETURNDATACOPY" =>
       TheCopy = Asked(Callee, Memory, call_id, Memory, last_callee.offset,
                       last_callee.offset + opcode.length, opcode.memory_offset, opcode.length)
  /\ opcode.name = "LOG" =>
       TheCopy = Asked(call_id, Memory, TxId, TxLog,
                       opcode.offset, opcode.offset + opcode.length, 0, opcode.length)
  /\ opcode.name = "SHA3" =>
       TheCopy = Asked(call_id, Memory, call_id, RlcAcc,
                       opcode.offset, opcode.offset + opcode.length, 0, opcode.length)
  /\ opcode.name = "RETURN" =>
       TheCopy = Asked(call_id, Memory, Caller, Memory, opcode.offset,
                       opcode.offset + opcode.length, context.return_data.offset,
                       Smaller(opcode.length, context.return_data.length))
  /\ opcode.name = "DATACOPY" =>
       TheCopy = Asked(Caller, Memory, Caller, Memory, context.call_data.offset, calldata_end,
                       context.return_data.offset,
                       context.return_data.offset + context.return_data.length)
BY DEF TheCopy

LEMMA AskedFields ==
  ASSUME NEW src_id, NEW src_tag, NEW dst_id, NEW dst_tag, NEW src_addr, NEW src_addr_end,
         NEW dst_addr, NEW length
  PROVE  LET a == Asked(src_id, src_tag, dst_id, dst_tag, src_addr, src_addr_end, dst_addr, length)
         IN  /\ a.src_id = src_id /\ a.src_tag = src_tag /\ a.dst_id = dst_id
             /\ a.dst_tag = dst_tag /\ a.src_addr = src_addr /\ a.src_addr_end = src_addr_end
             /\ a.dst_addr = dst_addr /\ a.length = length
BY DEF Asked

\* Names tell the operands of a step.
LEMMA NamesTell ==
  ASSUME Bound
  PROVE  /\ opcode.name \in CopyNames => opcode \in CopyOps
         /\ opcode.name \in RangeNames => opcode \in RangeOps
         /\ opcode.name \in IdentityNames => opcode \in IdentityOps
         /\ opcode.name \in CopyNames \cup RangeNames \cup IdentityNames \cup {"none"}
<1>1. opcode \in CopyOps => opcode.name \in CopyNames
  BY DEF CopyOps
<1>2. opcode \in RangeOps => opcode.name \in RangeNames
  BY DEF RangeOps
<1>3. opcode \in IdentityOps => opcode.name \in IdentityNames
  BY DEF IdentityOps
<1>4. opcode = NoOpcode => opcode.name = "none"
  BY DEF NoOpcode
<1>5. /\ CopyNames \cap RangeNames = {} /\ CopyNames \cap IdentityNames = {}
      /\ RangeNames \cap IdentityNames = {}
      /\ "none" \notin CopyNames \cup RangeNames \cup IdentityNames
  BY DEF CopyNames, RangeNames, IdentityNames
<1> QED
  BY <1>1, <1>2, <1>3, <1>4, <1>5 DEF Bound

LEMMA EffectiveNames ==
  ASSUME Bound, Effective
  PROVE  opcode.name \in EffectNames
<1>1. opcode # NoOpcode /\ opcode.name # "CALL"
  BY DEF Effective, Executing
<1>2. opcode.name # "none"
  <2>1. opcode \in CopyOps \/ opcode \in RangeOps \/ opcode \in IdentityOps
    BY <1>1 DEF Bound
  <2>2. opcode.name \in CopyNames \/ opcode.name \in RangeNames \/ opcode.name \in IdentityNames
    BY <2>1 DEF CopyOps, RangeOps, IdentityOps
  <2> QED
    BY <2>2 DEF CopyNames, RangeNames, IdentityNames
<1> QED
  BY <1>1, <1>2, NamesTell DEF EffectNames, IdentityNames

\* The source of the copy is not overwritten before it is read.
LEMMA TheCopySound ==
  ASSUME Assumptions, TypeOK, Bound, Effective
  PROVE  /\ Ahead(TheCopy)
         /\ TheCopy.src_tag = Memory => TheCopy.src_id \in Watched
         /\ TheCopy.dst_tag = TxLog => TheCopy.dst_addr = 0
         /\ TheCopy.dst_tag = TxLog => opcode.name = "LOG"
         /\ TheCopy.dst_tag = RlcAcc => opcode.name = "SHA3"
         /\ Watched \in SUBSET Calls
<1>1. /\ Caller # Callee /\ Caller \in Calls /\ Callee \in Calls
      /\ TxId \notin Calls /\ CodeHash \notin Calls /\ call_id \in Calls
      /\ (IsRoot <=> call_id = Caller)
      /\ Memory # TxLog /\ Memory # RlcAcc /\ TxLog # RlcAcc
      /\ Memory # TxCalldata /\ Memory # Bytecode
  BY DEF Caller, Callee, TxId, CodeHash, Calls, IsRoot, TypeOK, Memory, TxLog, RlcAcc, TxCalldata,
         Bytecode
<1>2. opcode.name # "DATACOPY" => Watched = Calls
  BY DEF Watched
<1>3. opcode.name = "DATACOPY" => Watched = {Caller}
  BY DEF Watched
<1>4. CASE opcode.name = "CALLDATACOPY"
  BY <1>1, <1>2, <1>4, TheCopyIs, AskedFields DEF Ahead
<1>5. CASE opcode.name = "CODECOPY"
  BY <1>1, <1>2, <1>5, TheCopyIs, AskedFields DEF Ahead
<1>6. CASE opcode.name = "RETURNDATACOPY"
  <2>1. call_id = Caller
    BY <1>6 DEF Bound
  <2> QED
    BY <1>1, <1>2, <1>6, <2>1, TheCopyIs, AskedFields DEF Ahead
<1>7. CASE opcode.name = "LOG"
  BY <1>1, <1>2, <1>7, TheCopyIs, AskedFields DEF Ahead
<1>8. CASE opcode.name = "SHA3"
  BY <1>1, <1>2, <1>8, TheCopyIs, AskedFields DEF Ahead
<1>9. CASE opcode.name = "RETURN"
  <2>1. call_id = Callee
    BY <1>9 DEF Bound
  <2> QED
    BY <1>1, <1>2, <1>9, <2>1, TheCopyIs, AskedFields DEF Ahead
<1>10. CASE opcode.name = "DATACOPY"
  <2>1. PlainIdentity /\ opcode.name \in IdentityNames
    BY <1>10 DEF Effective, IdentityNames
  <2>2. context.return_data = opcode.return_data
    BY <2>1 DEF Bound
  <2>3. context.return_data.offset = 0 /\ context.call_data.offset \in Nat
    <3>1. opcode.return_data.offset = 0
      BY <2>1 DEF PlainIdentity
    <3>2. context.call_data \in Ranges
      BY DEF TypeOK
    <3> QED
      BY <2>2, <3>1, <3>2, RangesTyped
  <2>4. Ahead(TheCopy)
    <3>1. TheCopy = Asked(Caller, Memory, Caller, Memory, context.call_data.offset, calldata_end,
                          context.return_data.offset,
                          context.return_data.offset + context.return_data.length)
      BY <1>10, TheCopyIs
    <3>2. /\ TheCopy.src_addr = context.call_data.offset
          /\ TheCopy.dst_addr = context.return_data.offset
      BY <3>1 DEF Asked
    <3> QED
      BY <2>3, <3>2 DEF Ahead
  <2> QED
    BY <1>1, <1>3, <1>10, <2>4, TheCopyIs, AskedFields
<1> QED
  BY <1>4, <1>5, <1>6, <1>7, <1>8, <1>9, <1>10, EffectiveNames
     DEF EffectNames, CopyNames, RangeNames

-----------------------------------------------------------------------------
(* The copies arrive.                                                      *)

\* The last step of a copy lays its last byte, at the last of its counters.
LEMMA LastByte ==
  ASSUME IInv, NEW s, NEW t, NEW lookup, NEW n, Laying0(s, lookup, n), Lays(s, t),
         t.write.is_last
  PROVE  /\ n + 1 = lookup.length /\ step' = NoStep /\ todo' = Tail(todo)
         /\ copy_rwc_inc' = t.rw_counter + followed_counter(t)
         /\ t.write.tag = RlcAcc => rlc_acc' = t.write.value
<1>1. /\ t \in StepSet /\ s \in StepSet /\ lookup \in LookupSet /\ n \in Nat
      /\ t.read.bytes_left = lookup.length - n /\ SamePlace(s, t)
  BY PlaceLaid DEF At
<1>2. t.read.bytes_left = 1 /\ t.rwc_inc_left - read_diff(t) = write_diff(t)
      /\ (t.write.tag = RlcAcc => t.rlc_acc = t.write.value)
  BY DEF Lays, verify_step, bytes_left_at_end, counters_at_end, rlc_at_end
<1>3. lookup.length \in Nat /\ t.rwc_inc_left \in Int /\ t.rw_counter \in Nat
  BY <1>1 DEF LookupSet, StepSet
<1>4. n + 1 = lookup.length
  BY <1>1, <1>2, <1>3
<1>5. t.rwc_inc_left = followed_counter(t)
  BY <1>1, <1>2, <1>3, CountersFollow
<1>6. /\ copy_rwc_inc' = s.rw_counter + s.rwc_inc_left /\ rlc_acc' = s.rlc_acc
      /\ s.rw_counter = t.rw_counter /\ s.rwc_inc_left = t.rwc_inc_left
      /\ s.rlc_acc = t.rlc_acc
  BY <1>1 DEF Laying0, SamePlace
<1> QED
  BY <1>2, <1>4, <1>5, <1>6 DEF Lays

LEMMA NotLastByte ==
  ASSUME IInv, NEW s, NEW t, NEW lookup, NEW n, Laying0(s, lookup, n), Lays(s, t),
         ~t.write.is_last
  PROVE  step' = t /\ todo' = todo /\ Byte' = n /\ step' # NoStep
<1>1. /\ t \in StepSet /\ lookup \in LookupSet /\ n \in Nat /\ lookup = Head(todo)
      /\ t.read.bytes_left = lookup.length - n
  BY PlaceLaid DEF At
<1>2. step' = t /\ todo' = todo
  BY DEF Lays
<1>3. lookup.length \in Nat
  BY <1>1 DEF LookupSet
<1>4. Byte' = lookup.length - t.read.bytes_left
  BY <1>1, <1>2 DEF Byte
<1> QED
  BY <1>1, <1>2, <1>3, <1>4, NoStepIsNone

LEMMA LaidUnchanged ==
  ASSUME UNCHANGED <<frame, opcode>>, NEW n
  PROVE  Laid(n)' <=> Written(memory', before', TheCopy, n, Watched)
                      /\ Logged(log', before', TheCopy, n)
BY SameCopies DEF Laid

LEMMA FirstArrives ==
  ASSUME Assumptions, IInv, Effective, NEW s, NEW t, NEW n, Laying0(s, TheCopy, n), Lays(s, t),
         Tail(todo) = Later, Laid(n),
         \/ s.is_first /\ n = 0
         \/ /\ ~s.is_first
            /\ TheCopy.dst_tag = RlcAcc => s.write.value = Accumulated(before, TheCopy, n)
  PROVE  Arrived'
<1> DEFINE l == TheCopy
<1>1. /\ t \in StepSet /\ s \in StepSet /\ SamePlace(s, t) /\ At(t, l, n) /\ l \in LookupSet
      /\ n \in Nat /\ before' = before /\ todo # <<>> /\ Head(todo) = l
  BY PlaceLaid
<1>2. UNCHANGED <<frame, opcode>>
  BY DEF Laying0
<1>3. Ahead(l) /\ (l.src_tag = Memory => l.src_id \in Watched)
      /\ (l.dst_tag = TxLog => l.dst_addr = 0) /\ Watched \in SUBSET Calls
  BY TheCopySound DEF IInv
<1>4. t.read.value = SourceByte(before, l, n)
  BY <1>3, ByteRead DEF Laid
<1>5. Written(memory', before', l, n + 1, Watched)
  BY <1>3, <1>4, ByteWritten DEF Laid
<1>6. Logged(log', before', l, n + 1)
  BY <1>3, <1>4, ByteLogged DEF Laid
<1>7. l.dst_tag = RlcAcc => t.write.value = Accumulated(before, l, n + 1)
  <2> SUFFICES ASSUME l.dst_tag = RlcAcc PROVE t.write.value = Accumulated(before, l, n + 1)
    OBVIOUS
  <2>1. /\ s.write.tag = RlcAcc
        /\ t.write.value = IF ~s.is_first THEN next_rlc(s, t.read.value) ELSE t.read.value
    BY <1>1 DEF Lays, SamePlace, At
  <2>2. /\ Accumulated(before, l, 0) = 0
        /\ Accumulated(before, l, n + 1)
             = Accumulated(before, l, n) * Randomness + SourceByte(before, l, n)
    BY <1>1, AccumulatedSteps
  <2>3. t.read.value \in Nat /\ Randomness \in Nat
    BY <1>1 DEF StepSet, ReadSet, Assumptions, BytesAssumption, RandomnessAssumption
  <2> HIDE DEF l
  <2>4. CASE s.is_first /\ n = 0
    <3>1. 0 * Randomness + t.read.value = t.read.value
      BY <2>3
    <3>2. t.write.value = t.read.value
      BY <2>1, <2>4
    <3>3. Accumulated(before, l, n + 1) = 0 * Randomness + SourceByte(before, l, n)
      BY <2>2, <2>4
    <3> QED
      BY <1>4, <3>1, <3>2, <3>3
  <2>5. CASE ~s.is_first /\ s.write.value = Accumulated(before, l, n)
    <3>1. t.write.value = s.write.value * Randomness + t.read.value
      BY <2>1, <2>5 DEF next_rlc
    <3> QED
      BY <1>4, <2>2, <2>5, <3>1
  <2> QED
    BY <2>4, <2>5 DEF l
<1>8. /\ TheCopy' = l /\ Later' = Later /\ (Laid(n + 1)' <=>
         Written(memory', before', l, n + 1, Watched) /\ Logged(log', before', l, n + 1))
  BY <1>2, SameCopies, LaidUnchanged
<1>9. t.write.tag = l.dst_tag
  BY <1>1 DEF At
<1> HIDE DEF l
<1>10. CASE t.write.is_last
  <2>1. n + 1 = l.length /\ step' = NoStep /\ todo' = Later
        /\ (l.dst_tag = RlcAcc => rlc_acc' = t.write.value)
    BY <1>9, <1>10, LastByte DEF l
  <2> DEFINE m == n + 1
  <2>2. /\ Laid(m)' /\ m = TheCopy'.length
        /\ (l.dst_tag = RlcAcc => rlc_acc' = Accumulated(before', TheCopy', m))
    BY <1>1, <1>5, <1>6, <1>7, <1>8, <2>1
  <2> HIDE DEF m
  <2>3. Laid(TheCopy.length)'
    BY <2>2 DEF Laid
  <2> QED
    BY <1>8, <2>1, <2>2, <2>3 DEF Arrived
<1>11. CASE ~t.write.is_last
  <2>1. step' = t /\ todo' = todo /\ Byte' = n /\ step' # NoStep
    BY <1>11, NotLastByte DEF l
  <2>2. Laid(Byte + 1)'
    BY <1>5, <1>6, <1>8, <2>1 DEF Laid
  <2>3. l.dst_tag = RlcAcc => step'.write.value = Accumulated(before', TheCopy', Byte' + 1)
    BY <1>1, <1>7, <1>8, <2>1
  <2>4. todo' # <<>> /\ Head(todo') = TheCopy' /\ Tail(todo') = Later'
    BY <1>1, <1>8, <2>1
  <2> QED
    BY <1>8, <2>1, <2>2, <2>3, <2>4 DEF Arrived
<1> QED
  BY <1>10, <1>11

\* The second copy of DATACOPY leaves the memory of the caller alone.
LEMMA SecondArrives ==
  ASSUME Assumptions, IInv, Effective, NEW s, NEW t, NEW n, Laying0(s, Head(todo), n), Lays(s, t),
         todo \in {Later, <<>>}, Laid(TheCopy.length)
  PROVE  Arrived'
<1> DEFINE l == TheCopy
<1>1. /\ t \in StepSet /\ At(t, Head(todo), n) /\ before' = before /\ todo # <<>>
  BY PlaceLaid
<1>2. UNCHANGED <<frame, opcode>>
  BY DEF Laying0
<1>3. opcode.name = "DATACOPY" /\ todo = <<Second>> /\ Watched = {Caller}
  BY <1>1 DEF Later, Watched
<1>4. t.write.tag = Memory /\ t.write.id = Callee
  BY <1>1, <1>3, AskedFields DEF At, Second
<1>5. memory'[Caller] = memory[Caller]
  <2>1. memory' = [memory EXCEPT ![Callee] = WithByte(@, t.write.addr, t.write.value)]
    BY <1>4 DEF Lays, write_lookup
  <2>2. Callee # Caller /\ memory \in [Calls -> [Addresses -> Bytes]] /\ Caller \in Calls
    BY DEF Callee, Caller, IInv, TypeOK, Calls
  <2> QED
    BY <2>1, <2>2
<1>6. Written(memory', before', l, l.length, Watched)
  <2>1. Written(memory, before, l, l.length, Watched)
    BY DEF Laid
  <2> HIDE DEF l
  <2> QED
    BY <1>1, <1>3, <1>5, <2>1 DEF Written
<1>7. l.dst_tag # TxLog /\ l.dst_tag # RlcAcc
  <2>1. opcode.name # "LOG" /\ opcode.name # "SHA3"
    BY <1>3
  <2> QED
    BY <2>1, TheCopySound DEF IInv
<1>8. TheCopy' = l /\ Later' = Later
  BY <1>2, SameCopies
<1>9. Laid(TheCopy.length)'
  <2>1. Written(memory', before', l, l.length, Watched')
    BY <1>2, <1>6, SameCopies
  <2> QED
    BY <1>7, <1>8, <2>1 DEF Laid, Logged
<1>10. todo' \in {Later', <<>>}
  <2>1. todo' = todo \/ todo' = Tail(todo)
    BY DEF Lays
  <2>2. todo = Later /\ Tail(todo) = <<>>
    BY <1>1, <1>3
  <2> QED
    BY <1>8, <2>1, <2>2
<1> QED
  BY <1>7, <1>8, <1>9, <1>10 DEF Arrived

LEMMA FirstStepArrives ==
  ASSUME Assumptions, IInv, Arrived, FirstStep
  PROVE  Arrived'
<1>1. PICK s, t : s.is_first /\ Laying0(s, Head(todo), 0) /\ Lays(s, t)
  BY FirstLays
<1>2. CASE ~Effective
  <2>1. ~Effective'
    BY <1>1, <1>2, SameCopies DEF Laying0
  <2> QED
    BY <2>1 DEF Arrived
<1>3. CASE /\ Effective /\ todo # <<>> /\ Head(todo) = TheCopy /\ Tail(todo) = Later
           /\ step = NoStep => Laid(0)
  <2>1. Laid(0)
    BY <1>3 DEF FirstStep
  <2> QED
    BY <1>1, <1>3, <2>1, FirstArrives
<1>4. CASE Effective /\ todo \in {Later, <<>>} /\ Laid(TheCopy.length)
  BY <1>1, <1>4, SecondArrives
<1> QED
  BY <1>2, <1>3, <1>4 DEF Arrived

LEMMA NextStepArrives ==
  ASSUME Assumptions, IInv, Arrived, NextStep
  PROVE  Arrived'
<1>1. /\ Byte \in Nat /\ Byte + 1 < Head(todo).length /\ step \in StepSet
  BY NextLays
<1>2. PICK s, t : /\ ~s.is_first /\ s.write.value = step.write.value
                  /\ Laying0(s, Head(todo), Byte + 1) /\ Lays(s, t)
  BY NextLays
<1>3. CASE ~Effective
  <2>1. ~Effective'
    BY <1>2, <1>3, SameCopies DEF Laying0
  <2> QED
    BY <2>1 DEF Arrived
<1>4. CASE /\ Effective /\ todo # <<>> /\ Head(todo) = TheCopy /\ Tail(todo) = Later
           /\ step # NoStep /\ TheCopy.length > 0 =>
                /\ Laid(Byte + 1)
                /\ TheCopy.dst_tag = RlcAcc =>
                     step.write.value = Accumulated(before, TheCopy, Byte + 1)
  <2>1. TheCopy.length > 0 /\ step # NoStep
    <3>1. Head(todo) \in LookupSet
      BY <1>4 DEF IInv, Queued
    <3>2. TheCopy.length \in Nat
      BY <1>4, <3>1 DEF LookupSet
    <3> QED
      BY <1>1, <1>4, <3>2 DEF NextStep
  <2>2. /\ Laid(Byte + 1)
        /\ TheCopy.dst_tag = RlcAcc => s.write.value = Accumulated(before, TheCopy, Byte + 1)
    BY <1>2, <1>4, <2>1
  <2> DEFINE n == Byte + 1
  <2>3. /\ Laid(n) /\ Laying0(s, TheCopy, n) /\ Lays(s, t) /\ ~s.is_first
        /\ TheCopy.dst_tag = RlcAcc => s.write.value = Accumulated(before, TheCopy, n)
    BY <1>2, <1>4, <2>2
  <2> HIDE DEF n
  <2> QED
    BY <1>4, <2>3, FirstArrives
<1>5. CASE Effective /\ todo \in {Later, <<>>} /\ Laid(TheCopy.length)
  BY <1>2, <1>5, SecondArrives
<1> QED
  BY <1>3, <1>4, <1>5 DEF Arrived

\* At the beginning of a step nothing is laid.
LEMMA NothingLaid ==
  ASSUME NEW lookup \in LookupSet, NEW mem, NEW calls, NEW old
  PROVE  /\ Written(mem, mem, lookup, 0, calls) /\ Logged(NoLog, mem, lookup, 0)
         /\ Accumulated(old, lookup, 0) = 0
<1>1. Written(mem, mem, lookup, 0, calls)
  <2>1. lookup.dst_addr \in Int
    BY DEF LookupSet
  <2>2. \A a \in Addresses : ~(lookup.dst_addr <= a /\ a < lookup.dst_addr + 0)
    BY <2>1, RangesAssumption DEF Addresses, RangesAssumption
  <2> QED
    BY <2>2 DEF Written
<1>2. Logged(NoLog, mem, lookup, 0)
  BY DEF Logged, NoLog
<1>3. Accumulated(old, lookup, 0) = 0
  <2>1. 0 \in Nat
    OBVIOUS
  <2> QED
    BY <2>1, AccumulatedSteps
<1> QED
  BY <1>1, <1>2, <1>3

LEMMA BeginArrives ==
  ASSUME IInv, ~Executing, NEW op, NEW lookups, Begin(op, lookups), TheCopy' \in LookupSet,
         \/ lookups = <<>> /\ TheCopy'.length = 0
         \/ lookups = <<TheCopy'>> /\ op.name # "DATACOPY"
         \/ lookups = <<TheCopy', Second'>> /\ op.name = "DATACOPY"
  PROVE  Arrived'
<1> DEFINE l == TheCopy'
<1>1. /\ opcode' = op /\ todo' = lookups /\ memory' = memory /\ before' = memory
      /\ log' = NoLog /\ step' = NoStep /\ rlc_acc' = 0
  BY Between DEF Begin, BeginWith
<1>2. /\ Written(memory, memory, l, 0, Watched') /\ Logged(NoLog, memory, l, 0)
      /\ Accumulated(before', l, 0) = 0
  BY NothingLaid
<1>3. /\ Written(memory', before', TheCopy', 0, Watched') /\ Logged(log', before', TheCopy', 0)
  BY <1>1, <1>2
<1>4. Laid(0)'
  BY <1>3 DEF Laid
<1>5. CASE lookups = <<>> /\ TheCopy'.length = 0
  <2>1. Laid(TheCopy.length)'
    BY <1>3, <1>5 DEF Laid
  <2>2. rlc_acc' = Accumulated(before', TheCopy', TheCopy'.length)
    BY <1>1, <1>2, <1>5
  <2> QED
    BY <1>1, <1>5, <2>1, <2>2 DEF Arrived
<1>6. CASE lookups = <<TheCopy'>> /\ op.name # "DATACOPY"
  <2>1. Later' = <<>>
    BY <1>1, <1>6 DEF Later
  <2> HIDE DEF l
  <2>2. todo' # <<>> /\ Head(todo') = TheCopy' /\ Tail(todo') = Later'
    BY <1>1, <1>6, <2>1
  <2> QED
    BY <1>1, <1>4, <2>2 DEF Arrived
<1>7. CASE lookups = <<TheCopy', Second'>> /\ op.name = "DATACOPY"
  <2>1. Later' = <<Second'>>
    BY <1>1, <1>7 DEF Later
  <2>2. todo' # <<>> /\ Head(todo') = TheCopy' /\ Tail(todo') = Later'
    BY <1>1, <1>7, <2>1
  <2> QED
    BY <1>1, <1>4, <2>2 DEF Arrived
<1> QED
  BY <1>5, <1>6, <1>7

LEMMA IdsAndTags ==
  /\ Caller \in Ids /\ Callee \in Ids /\ TxId \in Ids /\ CodeHash \in Ids
  /\ (TypeOK => call_id \in Ids)
  /\ Memory \in SourceTags /\ Bytecode \in SourceTags /\ TxCalldata \in SourceTags
  /\ Memory \in TargetTags /\ TxLog \in TargetTags /\ RlcAcc \in TargetTags
BY DEF Ids, Calls, SourceTags, TargetTags, TypeOK

\* The copy of every step, with the numbers it is made of.
LEMMA TheCopyTyped ==
  ASSUME Assumptions, TypeOK, Bound, Effective
  PROVE  TheCopy \in LookupSet
<1>1. /\ MaxAddr \in Nat /\ MaxLength \in Nat /\ Len(CallData) \in Nat /\ Len(Code) \in Nat
      /\ context.call_data \in Ranges /\ context.return_data \in Ranges /\ last_callee \in Ranges
  BY RangesTyped DEF TypeOK
<1>2. /\ context.call_data.offset \in Nat /\ context.call_data.length \in Nat
      /\ context.return_data.offset \in Nat /\ context.return_data.length \in Nat
      /\ last_callee.offset \in Nat /\ 0 \in Nat
  BY <1>1, RangesTyped
<1>3. calldata_end \in Nat /\ context.return_data.offset + context.return_data.length \in Nat
  BY <1>2 DEF calldata_end
<1>4. CASE opcode.name \in CopyNames
  <2>1. opcode \in CopyOps
    BY <1>4, NamesTell
  <2>2. opcode.memory_offset \in Nat /\ opcode.length \in Nat /\ opcode.offset \in Nat
    BY <1>1, <2>1 DEF CopyOps, Addresses, Lengths
  <2>3. /\ context.call_data.offset + opcode.offset \in Nat
        /\ last_callee.offset + opcode.length \in Nat
    BY <1>2, <2>2
  <2>4. CASE opcode.name = "CALLDATACOPY" /\ IsRoot
    BY <1>1, <2>2, <2>4, IdsAndTags, TheCopyIs DEF Asked, LookupSet
  <2>5. CASE opcode.name = "CALLDATACOPY" /\ ~IsRoot
    BY <1>3, <2>2, <2>3, <2>5, IdsAndTags, TheCopyIs DEF Asked, LookupSet
  <2>6. CASE opcode.name = "CODECOPY"
    BY <1>1, <2>2, <2>6, IdsAndTags, TheCopyIs DEF Asked, LookupSet
  <2>7. CASE opcode.name = "RETURNDATACOPY"
    BY <1>2, <2>2, <2>3, <2>7, IdsAndTags, TheCopyIs DEF Asked, LookupSet
  <2> QED
    BY <1>4, <2>4, <2>5, <2>6, <2>7 DEF CopyNames
<1>5. CASE opcode.name \in RangeNames
  <2>1. opcode \in RangeOps
    BY <1>5, NamesTell
  <2>2. opcode.offset \in Nat /\ opcode.length \in Nat
    BY <1>1, <2>1 DEF RangeOps, Addresses, Lengths
  <2>3. opcode.offset + opcode.length \in Nat
    BY <2>2
  <2>4. CASE opcode.name = "LOG"
    BY <1>2, <2>2, <2>3, <2>4, IdsAndTags, TheCopyIs DEF Asked, LookupSet
  <2>5. CASE opcode.name = "SHA3"
    BY <1>2, <2>2, <2>3, <2>5, IdsAndTags, TheCopyIs DEF Asked, LookupSet
  <2>6. CASE opcode.name = "RETURN"
    <3>1. Smaller(opcode.length, context.return_data.length) \in Nat
      BY <1>2, <2>2, SmallerFits
    <3> QED
      BY <1>2, <2>2, <2>3, <2>6, <3>1, IdsAndTags, TheCopyIs DEF Asked, LookupSet
  <2> QED
    BY <1>5, <2>4, <2>5, <2>6 DEF RangeNames
<1>6. CASE opcode.name = "DATACOPY"
  BY <1>2, <1>3, <1>6, IdsAndTags, TheCopyIs DEF Asked, LookupSet
<1> QED
  BY <1>4, <1>5, <1>6, EffectiveNames DEF EffectNames

CopyTyped == TypeOK /\ Bound /\ Effective => TheCopy \in LookupSet

LEMMA CopyTypedHolds == CopyTyped
BY AssumptionsHold, TheCopyTyped DEF CopyTyped

\* The steps that begin, each with its copies.
LEMMA CallDataCopyArrives ==
  ASSUME Assumptions, IInv, CallDataCopy
  PROVE  Arrived'
<1> SUFFICES ASSUME Effective' PROVE Arrived'
  BY DEF Arrived
<1>1. PICK op \in CopyOperands("CALLDATACOPY") :
        Begin(op,
          IF op.length = 0 THEN <<>>
          ELSE IF IsRoot
          THEN copy_lookup(TxId, TxCalldata, call_id, Memory,
                           op.offset, Len(CallData), op.memory_offset, op.length)
          ELSE copy_lookup(Caller, Memory, call_id, Memory, context.call_data.offset + op.offset,
                           calldata_end, op.memory_offset, op.length))
  BY DEF CallDataCopy
<1>2. op.name = "CALLDATACOPY" /\ opcode' = op /\ UNCHANGED frame /\ ~Executing
  BY <1>1, CopyOperandsTyped DEF CopyNames, Begin, BeginWith, CallDataCopy, Running
<1>3. TheCopy' \in LookupSet
  <2>1. CopyTyped'
    BY CopyTypedHolds, PTL
  <2> QED
    BY <2>1, CallDataCopyKeeps DEF CopyTyped, IInv
<1>4. (IsRoot' <=> IsRoot) /\ calldata_end' = calldata_end /\ context' = context
      /\ call_id' = call_id
  BY <1>2 DEF frame, IsRoot, calldata_end
<1>5. /\ IsRoot =>
           TheCopy' = Asked(TxId, TxCalldata, call_id, Memory,
                            op.offset, Len(CallData), op.memory_offset, op.length)
      /\ ~IsRoot =>
           TheCopy' = Asked(Caller, Memory, call_id, Memory, context.call_data.offset + op.offset,
                            calldata_end, op.memory_offset, op.length)
  BY <1>2, <1>4 DEF TheCopy
<1>6. TheCopy'.length = op.length
  BY <1>5 DEF Asked
<1>7. Begin(op, IF op.length = 0 THEN <<>> ELSE <<TheCopy'>>)
  BY <1>1, <1>5 DEF copy_lookup, Asked
<1> QED
  BY <1>2, <1>3, <1>6, <1>7, BeginArrives

LEMMA CodeCopyArrives ==
  ASSUME Assumptions, IInv, CodeCopy
  PROVE  Arrived'
<1> SUFFICES ASSUME Effective' PROVE Arrived'
  BY DEF Arrived
<1>1. PICK op \in CopyOperands("CODECOPY") :
        Begin(op,
          IF op.length = 0 THEN <<>>
          ELSE copy_lookup(CodeHash, Bytecode, call_id, Memory,
                           op.offset, Len(Code), op.memory_offset, op.length))
  BY DEF CodeCopy
<1>2. op.name = "CODECOPY" /\ opcode' = op /\ call_id' = call_id /\ ~Executing
  BY <1>1, CopyOperandsTyped DEF CopyNames, Begin, BeginWith, CodeCopy, Running, frame
<1>3. TheCopy' \in LookupSet
  <2>1. CopyTyped'
    BY CopyTypedHolds, PTL
  <2> QED
    BY <2>1, CodeCopyKeeps DEF CopyTyped, IInv
<1>4. TheCopy' = Asked(CodeHash, Bytecode, call_id, Memory,
                       op.offset, Len(Code), op.memory_offset, op.length)
  BY <1>2 DEF TheCopy
<1>5. TheCopy'.length = op.length
  BY <1>4 DEF Asked
<1>6. Begin(op, IF op.length = 0 THEN <<>> ELSE <<TheCopy'>>)
  BY <1>1, <1>4 DEF copy_lookup, Asked
<1> QED
  BY <1>2, <1>3, <1>5, <1>6, BeginArrives

LEMMA ReturnDataCopyArrives ==
  ASSUME Assumptions, IInv, ReturnDataCopy
  PROVE  Arrived'
<1> SUFFICES ASSUME Effective' PROVE Arrived'
  BY DEF Arrived
<1>1. PICK op \in CopyOperands("RETURNDATACOPY") :
        Begin(op, copy_lookup(Callee, Memory, call_id, Memory, last_callee.offset,
                              last_callee.offset + op.length, op.memory_offset, op.length))
  BY DEF ReturnDataCopy
<1>2. op.name = "RETURNDATACOPY" /\ opcode' = op /\ call_id' = call_id /\ ~Executing
      /\ last_callee' = last_callee
  BY <1>1, CopyOperandsTyped DEF CopyNames, Begin, BeginWith, ReturnDataCopy, Running, frame
<1>3. TheCopy' \in LookupSet
  <2>1. CopyTyped'
    BY CopyTypedHolds, PTL
  <2> QED
    BY <2>1, ReturnDataCopyKeeps DEF CopyTyped, IInv
<1>4. TheCopy' = Asked(Callee, Memory, call_id, Memory, last_callee.offset,
                       last_callee.offset + op.length, op.memory_offset, op.length)
  BY <1>2 DEF TheCopy
<1>5. Begin(op, <<TheCopy'>>)
  BY <1>1, <1>4 DEF copy_lookup, Asked
<1> QED
  BY <1>2, <1>3, <1>5, BeginArrives

LEMMA LogArrives ==
  ASSUME Assumptions, IInv, Log
  PROVE  Arrived'
<1> SUFFICES ASSUME Effective' PROVE Arrived'
  BY DEF Arrived
<1>1. PICK x \in Ranges :
        Begin([name |-> "LOG", offset |-> x.offset, length |-> x.length],
          IF x.length = 0 THEN <<>>
          ELSE copy_lookup(call_id, Memory, TxId, TxLog,
                           x.offset, x.offset + x.length, 0, x.length))
  BY DEF Log
<1> DEFINE op == [name |-> "LOG", offset |-> x.offset, length |-> x.length]
<1>2. /\ op.name = "LOG" /\ op.offset = x.offset /\ op.length = x.length
      /\ opcode' = op /\ call_id' = call_id /\ ~Executing
  BY <1>1 DEF Begin, BeginWith, Log, Running, frame
<1>3. TheCopy' \in LookupSet
  <2>1. CopyTyped'
    BY CopyTypedHolds, PTL
  <2> QED
    BY <2>1, LogKeeps DEF CopyTyped, IInv
<1>4. Begin(op, IF x.length = 0 THEN <<>>
                ELSE copy_lookup(call_id, Memory, TxId, TxLog,
                                 x.offset, x.offset + x.length, 0, x.length))
  BY <1>1
<1> HIDE DEF op
<1>5. TheCopy' = Asked(call_id, Memory, TxId, TxLog, x.offset, x.offset + x.length, 0, x.length)
  BY <1>2 DEF TheCopy
<1>6. TheCopy'.length = x.length
  BY <1>5 DEF Asked
<1>7. Begin(op, IF x.length = 0 THEN <<>> ELSE <<TheCopy'>>)
  BY <1>4, <1>5 DEF copy_lookup, Asked
<1> QED
  BY <1>2, <1>3, <1>6, <1>7, BeginArrives

LEMMA Sha3Arrives ==
  ASSUME Assumptions, IInv, Sha3
  PROVE  Arrived'
<1> SUFFICES ASSUME Effective' PROVE Arrived'
  BY DEF Arrived
<1>1. PICK x \in Ranges :
        Begin([name |-> "SHA3", offset |-> x.offset, length |-> x.length],
          IF x.length = 0 THEN <<>>
          ELSE copy_lookup(call_id, Memory, call_id, RlcAcc,
                           x.offset, x.offset + x.length, 0, x.length))
  BY DEF Sha3
<1> DEFINE op == [name |-> "SHA3", offset |-> x.offset, length |-> x.length]
<1>2. /\ op.name = "SHA3" /\ op.offset = x.offset /\ op.length = x.length
      /\ opcode' = op /\ call_id' = call_id /\ ~Executing
  BY <1>1 DEF Begin, BeginWith, Sha3, Running, frame
<1>3. TheCopy' \in LookupSet
  <2>1. CopyTyped'
    BY CopyTypedHolds, PTL
  <2> QED
    BY <2>1, Sha3Keeps DEF CopyTyped, IInv
<1>4. Begin(op, IF x.length = 0 THEN <<>>
                ELSE copy_lookup(call_id, Memory, call_id, RlcAcc,
                                 x.offset, x.offset + x.length, 0, x.length))
  BY <1>1
<1> HIDE DEF op
<1>5. TheCopy' = Asked(call_id, Memory, call_id, RlcAcc, x.offset, x.offset + x.length, 0, x.length)
  BY <1>2 DEF TheCopy
<1>6. TheCopy'.length = x.length
  BY <1>5 DEF Asked
<1>7. Begin(op, IF x.length = 0 THEN <<>> ELSE <<TheCopy'>>)
  BY <1>4, <1>5 DEF copy_lookup, Asked
<1> QED
  BY <1>2, <1>3, <1>6, <1>7, BeginArrives

LEMMA ReturnArrives ==
  ASSUME Assumptions, IInv, Return
  PROVE  Arrived'
<1> SUFFICES ASSUME Effective' PROVE Arrived'
  BY DEF Arrived
<1> DEFINE copied(x) == Smaller(x.length, context.return_data.length)
<1>1. PICK x \in Ranges :
        Begin([name |-> "RETURN", offset |-> x.offset, length |-> x.length],
              copy_lookup(call_id, Memory, Caller, Memory, x.offset, x.offset + x.length,
                          context.return_data.offset, copied(x)))
  BY DEF Return
<1> DEFINE op == [name |-> "RETURN", offset |-> x.offset, length |-> x.length]
<1>2. /\ op.name = "RETURN" /\ op.offset = x.offset /\ op.length = x.length
      /\ opcode' = op /\ call_id' = call_id /\ context' = context /\ ~Executing
  BY <1>1 DEF Begin, BeginWith, Return, Running, frame
<1>3. TheCopy' \in LookupSet
  <2>1. CopyTyped'
    BY CopyTypedHolds, PTL
  <2> QED
    BY <2>1, ReturnKeeps DEF CopyTyped, IInv
<1>4. Begin(op, copy_lookup(call_id, Memory, Caller, Memory, x.offset, x.offset + x.length,
                            context.return_data.offset, copied(x)))
  BY <1>1
<1> HIDE DEF op
<1>5. TheCopy' = Asked(call_id, Memory, Caller, Memory, x.offset, x.offset + x.length,
                       context.return_data.offset, copied(x))
  BY <1>2 DEF TheCopy
<1>6. Begin(op, <<TheCopy'>>)
  BY <1>4, <1>5 DEF copy_lookup, Asked
<1> QED
  BY <1>2, <1>3, <1>6, BeginArrives

LEMMA TwoLookups ==
  ASSUME NEW a, NEW b
  PROVE  <<a>> \o <<b>> = <<a, b>>
<1> DEFINE S == {a, b}
<1>1. <<a>> \in Seq(S) /\ <<b>> \in Seq(S) /\ <<a, b>> \in Seq(S)
  OBVIOUS
<1>2. /\ Len(<<a>>) = 1 /\ Len(<<b>>) = 1 /\ Len(<<a, b>>) = 2
      /\ <<a>>[1] = a /\ <<b>>[1] = b /\ <<a, b>>[1] = a /\ <<a, b>>[2] = b
  OBVIOUS
<1> DEFINE x == <<a>>   y == <<b>>   z == <<a, b>>   c == x \o y
<1>3. /\ x \in Seq(S) /\ y \in Seq(S) /\ z \in Seq(S) /\ Len(x) = 1 /\ Len(y) = 1 /\ Len(z) = 2
      /\ x[1] = a /\ y[1] = b /\ z[1] = a /\ z[2] = b
  BY <1>1, <1>2
<1> HIDE DEF x, y, z, S
<1>4. c \in Seq(S) /\ Len(c) = 2 /\ c[1] = a /\ c[2] = b
  <2>1. /\ c \in Seq(S) /\ Len(c) = Len(x) + Len(y)
        /\ \A i \in 1 .. Len(x) + Len(y) : c[i] = IF i <= Len(x) THEN x[i] ELSE y[i - Len(x)]
    BY <1>3, ConcatProperties
  <2> HIDE DEF c
  <2> QED
    BY <1>3, <2>1
<1> HIDE DEF c
<1>5. \A i \in 1 .. 2 : c[i] = z[i]
  BY <1>3, <1>4
<1>6. c = z
  BY <1>3, <1>4, <1>5, SeqEqual
<1> QED
  BY <1>6 DEF c, x, y, z

LEMMA dataCopyArrives ==
  ASSUME Assumptions, IInv, dataCopy
  PROVE  Arrived' /\ (todo' = <<TheCopy', Second'>>) /\ step' = NoStep /\ copy_rwc_inc' = 0
         /\ context' = context
<1> DEFINE in == context.call_data
           out == context.return_data
           op == [name |-> "DATACOPY", call_data |-> in, return_data |-> out]
<1>1. Begin(op, copy_lookup(Caller, Memory, Caller, Memory, in.offset, calldata_end,
                            out.offset, out.offset + out.length)
                \o copy_lookup(Caller, Memory, Callee, Memory, in.offset, calldata_end,
                               0, out.length))
  BY DEF dataCopy
<1>2. /\ op.name = "DATACOPY" /\ opcode' = op /\ context' = context /\ calldata_end' = calldata_end
      /\ ~Executing
  BY <1>1 DEF Begin, BeginWith, dataCopy, frame, calldata_end
<1>3. Effective' => TheCopy' \in LookupSet
  <2>1. CopyTyped'
    BY CopyTypedHolds, PTL
  <2> QED
    BY <2>1, dataCopyKeeps DEF CopyTyped, IInv
<1>4. TheCopy' = Asked(Caller, Memory, Caller, Memory, in.offset, calldata_end,
                       out.offset, out.offset + out.length)
  BY <1>2 DEF TheCopy
<1>5. Second' = Asked(Caller, Memory, Callee, Memory, in.offset, calldata_end, 0, out.length)
  BY <1>2 DEF Second
<1>6. <<TheCopy'>> \o <<Second'>> = <<TheCopy', Second'>>
  BY TwoLookups
<1>7. Begin(op, <<TheCopy', Second'>>)
  BY <1>1, <1>4, <1>5, <1>6 DEF copy_lookup, Asked
<1>8. Arrived'
  <2> HIDE DEF op
  <2>1. CASE Effective'
    BY <1>2, <1>3, <1>7, <2>1, BeginArrives
  <2>2. CASE ~Effective'
    BY <2>2 DEF Arrived
  <2> QED
    BY <2>1, <2>2
<1>9. todo' = <<TheCopy', Second'>> /\ step' = NoStep /\ copy_rwc_inc' = 0
  BY <1>2, <1>7, Between DEF Begin, BeginWith
<1> QED
  BY <1>2, <1>8, <1>9

\* The other steps lay nothing.
LEMMA OthersArrive ==
  ASSUME IInv, \/ Mstore8 \/ CallContract \/ CallIdentity \/ Stop
               \/ EndSameContext \/ EnterIdentity \/ RestoreCaller
  PROVE  ~Effective' /\ ~PlainIdentity'
<1>1. CASE Mstore8 \/ CallContract \/ Stop
  <2>1. opcode' = NoOpcode
    BY <1>1 DEF Mstore8, CallContract, Stop, Running, Executing
  <2> QED
    BY <2>1 DEF Effective, Executing, PlainIdentity, NoOpcode
<1>2. CASE CallIdentity
  <2>1. PICK in, out, lookups :
          BeginWith([name |-> "CALL", call_data |-> in, return_data |-> out], lookups, EmptyCallee)
    BY <1>2 DEF CallIdentity
  <2>2. opcode'.name = "CALL"
    BY <2>1 DEF BeginWith
  <2> QED
    BY <2>2 DEF Effective, PlainIdentity
<1>3. CASE EndSameContext \/ EnterIdentity \/ RestoreCaller
  <2>1. opcode' = NoOpcode
    BY <1>3 DEF EndSameContext, EnterIdentity, RestoreCaller, EndStep
  <2> QED
    BY <2>1 DEF Effective, Executing, PlainIdentity, NoOpcode
<1> QED
  BY <1>1, <1>2, <1>3

LEMMA StepArrives ==
  ASSUME Assumptions, IInv, Arrived, [Next]_vars
  PROVE  Arrived'
<1>1. CASE UNCHANGED vars
  <2>1. UNCHANGED <<frame, opcode, memory, before, log, todo, step, rlc_acc>>
    BY <1>1 DEF vars, frame
  <2>2. Laid(0)' = Laid(0) /\ Laid(TheCopy.length)' = Laid(TheCopy.length)
        /\ Laid(Byte + 1)' = Laid(Byte + 1)
    BY <2>1, SameCopies DEF Laid, Byte
  <2> QED
    BY <2>1, <2>2, SameCopies DEF Arrived, Byte
<1>2. CASE \/ Mstore8 \/ CallContract \/ CallIdentity \/ Stop
           \/ EndSameContext \/ EnterIdentity \/ RestoreCaller
  BY <1>2, OthersArrive DEF Arrived
<1> QED
  BY <1>1, <1>2, CallDataCopyArrives, CodeCopyArrives, ReturnDataCopyArrives, LogArrives,
     Sha3Arrives, ReturnArrives, dataCopyArrives, FirstStepArrives, NextStepArrives DEF Next

-----------------------------------------------------------------------------
(* The counters of the identity precompile.                                *)

\* It is given room for its input, so that no byte of its copies is padding.
LEMMA PlainCopies ==
  ASSUME Assumptions, IInv, PlainIdentity, NEW lookup \in {TheCopy, Second}
  PROVE  /\ context.call_data.length \in Nat /\ lookup.length = context.call_data.length
         /\ lookup.src_tag = Memory /\ lookup.dst_tag = Memory
         /\ lookup.src_addr \in Nat
         /\ lookup.src_addr_end = lookup.src_addr + context.call_data.length
<1>1. opcode.name = "DATACOPY" /\ opcode.name \in IdentityNames
      /\ opcode.return_data = [offset |-> 0, length |-> opcode.call_data.length]
  BY DEF PlainIdentity, IdentityNames
<1>2. context = [call_data |-> opcode.call_data, return_data |-> opcode.return_data]
  BY <1>1 DEF IInv, Bound
<1>3. /\ context.return_data.offset = 0
      /\ context.return_data.length = context.call_data.length
  BY <1>1, <1>2
<1>4. context.call_data.length \in Nat /\ context.call_data.offset \in Nat
  BY RangesTyped DEF IInv, TypeOK
<1>5. CASE lookup = TheCopy
  <2>1. lookup = Asked(Caller, Memory, Caller, Memory, context.call_data.offset, calldata_end,
                       context.return_data.offset,
                       context.return_data.offset + context.return_data.length)
    BY <1>1, <1>5, TheCopyIs
  <2>2. /\ lookup.length = context.return_data.offset + context.return_data.length
        /\ lookup.src_tag = Memory /\ lookup.dst_tag = Memory
        /\ lookup.src_addr = context.call_data.offset /\ lookup.src_addr_end = calldata_end
    BY <2>1 DEF Asked
  <2> QED
    BY <1>3, <1>4, <2>2 DEF calldata_end
<1>6. CASE lookup = Second
  BY <1>3, <1>4, <1>6 DEF Second, Asked, calldata_end
<1> QED
  BY <1>5, <1>6

LEMMA TwoCounters ==
  ASSUME Assumptions, IInv, PlainIdentity, NEW lookup \in {TheCopy, Second}, NEW s, NEW t, NEW n,
         Laying0(s, lookup, n), Lays(s, t), n < lookup.length
  PROVE  followed_counter(t) = 2
<1>1. /\ t \in StepSet /\ n \in Nat /\ At(t, lookup, n)
  BY PlaceLaid
<1>2. /\ lookup.length \in Nat /\ lookup.src_addr \in Nat
      /\ lookup.src_addr_end = lookup.src_addr + lookup.length
      /\ lookup.src_tag = Memory /\ lookup.dst_tag = Memory
  BY PlainCopies
<1>3. t.read.addr = lookup.src_addr + n /\ t.read.src_addr_end = lookup.src_addr_end
      /\ t.read.tag = Memory /\ t.write.tag = Memory
  BY <1>1, <1>2 DEF At
<1>4. t.read.addr < t.read.src_addr_end
  BY <1>1, <1>2, <1>3
<1>5. ~t.read.is_pad
  BY <1>4 DEF Lays, verify_step, is_padding
<1> QED
  BY <1>3, <1>5 DEF followed_counter, read_diff, write_diff, rw_diff

LEMMA CopySpends ==
  ASSUME Assumptions, IInv, PlainIdentity, NEW lookup \in {TheCopy, Second}, NEW s, NEW t, NEW n,
         Laying0(s, lookup, n), Lays(s, t), NEW base \in Nat, s.rw_counter = base + 2 * n
  PROVE  /\ ~t.write.is_last =>
              /\ step' # NoStep /\ todo' = todo
              /\ step'.rw_counter = base + 2 * Byte'
              /\ Byte' < context.call_data.length => followed_counter(step') = 2
         /\ t.write.is_last =>
              /\ step' = NoStep /\ todo' = Tail(todo)
              /\ copy_rwc_inc' = base + 2 * context.call_data.length
<1>1. /\ t \in StepSet /\ n \in Nat /\ SamePlace(s, t)
  BY PlaceLaid
<1>2. lookup.length = context.call_data.length /\ context.call_data.length \in Nat
  BY PlainCopies
<1>3. t.rw_counter = base + 2 * n
  BY <1>1 DEF SamePlace
<1>4. CASE ~t.write.is_last
  <2>1. step' = t /\ todo' = todo /\ Byte' = n /\ step' # NoStep
    BY <1>4, NotLastByte
  <2>2. n < lookup.length => followed_counter(t) = 2
    BY TwoCounters
  <2> QED
    BY <1>2, <1>3, <1>4, <2>1, <2>2
<1>5. CASE t.write.is_last
  <2>1. n + 1 = lookup.length /\ step' = NoStep /\ todo' = Tail(todo)
        /\ copy_rwc_inc' = t.rw_counter + followed_counter(t)
    BY <1>5, LastByte
  <2>2. n < lookup.length
    BY <1>1, <1>2, <2>1
  <2>3. followed_counter(t) = 2
    BY <2>2, TwoCounters
  <2>4. copy_rwc_inc' = base + 2 * n + 2
    BY <1>3, <2>1, <2>3
  <2>5. base + 2 * n + 2 = base + 2 * lookup.length
    BY <1>1, <1>2, <2>1
  <2> QED
    BY <1>2, <1>5, <2>1, <2>4, <2>5
<1> QED
  BY <1>4, <1>5

LEMMA LaySpends ==
  ASSUME Assumptions, IInv, Spent, FirstStep \/ NextStep
  PROVE  Spent'
<1> DEFINE length == context.call_data.length
<1>1. PICK s, t, n :
        /\ Laying0(s, Head(todo), n) /\ Lays(s, t) /\ n \in Nat
        /\ \/ step = NoStep /\ n = 0 /\ s.rw_counter = copy_rwc_inc
           \/ /\ step # NoStep /\ Byte \in Nat /\ n = Byte + 1 /\ n < Head(todo).length
              /\ step \in StepSet /\ s.rw_counter = step.rw_counter + followed_counter(step)
  <2>1. CASE FirstStep
    <3>1. 0 \in Nat /\ step = NoStep
      BY <2>1 DEF FirstStep
    <3> QED
      BY <2>1, <3>1, FirstLays
  <2>2. CASE NextStep
    <3>1. step # NoStep /\ Byte \in Nat /\ Byte + 1 \in Nat /\ Byte + 1 < Head(todo).length
          /\ step \in StepSet
      BY <2>2, NextLays DEF NextStep
    <3> QED
      BY <2>2, <3>1, NextLays
  <2> QED
    BY <2>1, <2>2
<1>2. UNCHANGED <<frame, opcode>> /\ context' = context
  BY <1>1 DEF Laying0, frame
<1>3. SUFFICES ASSUME PlainIdentity PROVE Spent'
  BY <1>2, SameCopies DEF Spent
<1>4. length \in Nat
  BY RangesTyped DEF IInv, TypeOK
<1>5. ASSUME NEW lookup \in {TheCopy, Second}, lookup = Head(todo), NEW base \in Nat,
             step = NoStep => copy_rwc_inc = base,
             step # NoStep => /\ step.rw_counter = base + 2 * Byte
                              /\ Byte < length => followed_counter(step) = 2
      PROVE  s.rw_counter = base + 2 * n
  <2>1. lookup.length = length
    BY <1>3, PlainCopies
  <2>2. CASE step = NoStep
    BY <1>1, <1>5, <2>2
  <2>3. CASE step # NoStep
    <3>1. Byte \in Nat /\ n = Byte + 1 /\ n < length
          /\ s.rw_counter = step.rw_counter + followed_counter(step)
      BY <1>1, <1>5, <2>1, <2>3
    <3> HIDE DEF length
    <3>2. followed_counter(step) = 2 /\ step.rw_counter = base + 2 * Byte
      BY <1>4, <1>5, <2>3, <3>1
    <3> QED
      BY <3>1, <3>2
  <2> QED
    BY <2>2, <2>3
<1>6. TheCopy' = TheCopy /\ Second' = Second
  BY <1>2, SameCopies
<1>7. 0 + 2 * length = 2 * length /\ 2 * length + 2 * length = 4 * length
      /\ 2 * length \in Nat /\ 0 \in Nat
  BY <1>4
<1>8. CASE /\ todo = <<TheCopy, Second>>
           /\ step = NoStep => copy_rwc_inc = 0
           /\ step # NoStep => /\ step.rw_counter = 0 + 2 * Byte
                               /\ Byte < length => followed_counter(step) = 2
  <2>1. Head(todo) = TheCopy /\ Tail(todo) = <<Second>>
    BY <1>8
  <2>2. s.rw_counter = 0 + 2 * n
    BY <1>5, <1>7, <1>8, <2>1
  <2>3. /\ ~t.write.is_last =>
             /\ step' # NoStep /\ todo' = todo
             /\ step'.rw_counter = 0 + 2 * Byte'
             /\ Byte' < context.call_data.length => followed_counter(step') = 2
        /\ t.write.is_last =>
             /\ step' = NoStep /\ todo' = Tail(todo)
             /\ copy_rwc_inc' = 0 + 2 * context.call_data.length
    BY <1>1, <1>3, <1>7, <2>1, <2>2, CopySpends
  <2> QED
    BY <1>2, <1>6, <1>7, <1>8, <2>1, <2>3 DEF Spent
<1>9. CASE /\ todo = <<Second>>
           /\ step = NoStep => copy_rwc_inc = 2 * length
           /\ step # NoStep => /\ step.rw_counter = 2 * length + 2 * Byte
                               /\ Byte < length => followed_counter(step) = 2
  <2>1. Head(todo) = Second /\ Tail(todo) = <<>>
    BY <1>9
  <2>2. s.rw_counter = 2 * length + 2 * n
    BY <1>5, <1>7, <1>9, <2>1
  <2>3. /\ ~t.write.is_last =>
             /\ step' # NoStep /\ todo' = todo
             /\ step'.rw_counter = 2 * length + 2 * Byte'
             /\ Byte' < context.call_data.length => followed_counter(step') = 2
        /\ t.write.is_last =>
             /\ step' = NoStep /\ todo' = Tail(todo)
             /\ copy_rwc_inc' = 2 * length + 2 * context.call_data.length
    BY <1>1, <1>3, <1>7, <2>1, <2>2, CopySpends
  <2> QED
    BY <1>2, <1>6, <1>7, <1>9, <2>1, <2>3 DEF Spent
<1>10. todo # <<>>
  BY <1>1 DEF Laying0
<1> QED
  BY <1>3, <1>8, <1>9, <1>10 DEF Spent

LEMMA StepSpends ==
  ASSUME Assumptions, IInv, Spent, [Next]_vars
  PROVE  Spent'
<1>1. CASE FirstStep \/ NextStep
  BY <1>1, LaySpends
<1>2. CASE dataCopy
  <2>1. todo' = <<TheCopy', Second'>> /\ step' = NoStep /\ copy_rwc_inc' = 0
    BY <1>2, dataCopyArrives
  <2> QED
    BY <2>1 DEF Spent
<1>3. CASE UNCHANGED vars
  <2>1. UNCHANGED <<frame, opcode, todo, step, copy_rwc_inc>> /\ context' = context
    BY <1>3 DEF vars, frame
  <2>2. Byte' = Byte
    BY <2>1 DEF Byte
  <2> QED
    BY <2>1, <2>2, SameCopies DEF Spent
<1>4. CASE CallDataCopy \/ CodeCopy \/ ReturnDataCopy
  <2>1. \E name \in CopyNames : \E op \in CopyOperands(name) : \E lookups : Begin(op, lookups)
    BY <1>4 DEF CallDataCopy, CodeCopy, ReturnDataCopy, CopyNames
  <2>2. \E name \in CopyNames : \E op \in CopyOperands(name) : opcode' = op /\ op.name = name
    BY <2>1, CopyOperandsTyped DEF Begin, BeginWith
  <2> QED
    BY <2>2 DEF Spent, PlainIdentity, CopyNames
<1>5. CASE Log \/ Sha3 \/ Return
  <2>1. \E name \in RangeNames, x \in Ranges : \E lookups :
          Begin([name |-> name, offset |-> x.offset, length |-> x.length], lookups)
    BY <1>5 DEF Log, Sha3, Return, RangeNames
  <2>2. opcode'.name \in RangeNames
    BY <2>1 DEF Begin, BeginWith
  <2> QED
    BY <2>2 DEF Spent, PlainIdentity, RangeNames
<1>6. CASE \/ Mstore8 \/ CallContract \/ CallIdentity \/ Stop
           \/ EndSameContext \/ EnterIdentity \/ RestoreCaller
  BY <1>6, OthersArrive DEF Spent
<1> QED
  BY <1>1, <1>2, <1>3, <1>4, <1>5, <1>6 DEF Next

-----------------------------------------------------------------------------
(* The memory of the caller of the identity precompile.                    *)

\* A memory of the caller is the one it called the identity precompile with, but for the
\* range where the output belongs.
Outside(mem) ==
  LET out == context.return_data
  IN  \A a \in Addresses : ~(out.offset <= a /\ a < out.offset + out.length) => mem[a] = called[a]

\* A copy into memory goes to a range of the memory of the caller.
Into(range, lookup) ==
  lookup.dst_tag = Memory =>
    /\ lookup.dst_id = Caller /\ range.offset <= lookup.dst_addr
    /\ lookup.dst_addr + lookup.length <= range.offset + range.length
AllInto(range, lookups) == \A i \in 1 .. Len(lookups) : Into(range, lookups[i])

\* The CALL of the identity precompile and its return write nowhere else.  A copy without
\* bytes that is begun is never done.
Kept ==
  /\ opcode.name = "CALL" =>
       /\ AllInto(context.return_data, todo)
       /\ (step # NoStep => Head(todo).length > 0) => Outside(memory[Caller])
  /\ is_precompile /\ Executing => opcode.name = "DATACOPY"
  /\ is_precompile /\ ~Executing => Outside(memory[Caller])
  /\ opcode.name = "DATACOPY" => Outside(before[Caller])

LEMMA OneInto ==
  ASSUME NEW range, NEW src_id, NEW src_tag, NEW dst_id, NEW dst_tag, NEW src_addr,
         NEW src_addr_end, NEW dst_addr, NEW length,
         dst_tag = Memory => /\ dst_id = Caller /\ range.offset <= dst_addr
                             /\ dst_addr + length <= range.offset + range.length
  PROVE  AllInto(range, copy_lookup(src_id, src_tag, dst_id, dst_tag,
                                    src_addr, src_addr_end, dst_addr, length))
<1> DEFINE l == [src_id |-> src_id, src_tag |-> src_tag, dst_id |-> dst_id, dst_tag |-> dst_tag,
                 src_addr |-> src_addr, src_addr_end |-> src_addr_end, dst_addr |-> dst_addr,
                 length |-> length]
<1>1. Into(range, l)
  BY DEF Into
<1>2. copy_lookup(src_id, src_tag, dst_id, dst_tag, src_addr, src_addr_end, dst_addr, length) = <<l>>
  BY DEF copy_lookup
<1> HIDE DEF l
<1> QED
  BY <1>1, <1>2 DEF AllInto

LEMMA NoneInto == \A range : AllInto(range, <<>>)
BY DEF AllInto

LEMMA MoreInto ==
  ASSUME NEW range, NEW a, Fitting(a), AllInto(range, a), NEW b, Fitting(b), AllInto(range, b)
  PROVE  AllInto(range, a \o b)
<1>1. Len(a \o b) = Len(a) + Len(b) /\ Len(a) \in Nat /\ Len(b) \in Nat
  BY DEF Fitting
<1>2. ASSUME NEW i \in 1 .. Len(a \o b)
      PROVE  Into(range, (a \o b)[i])
  <2>1. CASE i <= Len(a)
    BY <1>1, <2>1 DEF Fitting, AllInto
  <2>2. CASE i > Len(a)
    <3>1. i - Len(a) \in 1 .. Len(b) /\ (a \o b)[i] = b[i - Len(a)]
      BY <1>1, <2>2 DEF Fitting
    <3> QED
      BY <3>1 DEF AllInto
  <2> QED
    BY <1>1, <2>1, <2>2
<1> QED
  BY <1>2 DEF AllInto

\* A byte of a copy of the CALL is written where the output belongs.
LEMMA ByteInto ==
  ASSUME Assumptions, IInv, NEW s, NEW t, NEW lookup, NEW n, Laying0(s, lookup, n), Lays(s, t),
         Into(context.return_data, lookup), n < lookup.length, Outside(memory[Caller])
  PROVE  Outside(memory[Caller])'
<1> DEFINE out == context.return_data   at == lookup.dst_addr + n
<1>1. /\ t.write.addr = at /\ t.write.id = lookup.dst_id /\ t.write.tag = lookup.dst_tag
      /\ write_lookup(t.write) /\ n \in Nat /\ lookup.dst_addr \in Nat /\ lookup.length \in Nat
  BY PlaceLaid DEF At, LookupSet, Lays
<1>2. context' = context /\ called' = called
  BY DEF Laying0, frame
<1>3. out.offset \in Nat /\ out.length \in Nat /\ Addresses \subseteq Int
  <2>1. out \in Ranges
    BY DEF IInv, TypeOK
  <2> HIDE DEF out
  <2>2. Addresses \subseteq Int
    BY RangesTyped DEF Addresses
  <2> QED
    BY <2>1, <2>2, RangesTyped
<1>4. memory \in [Calls -> [Addresses -> Bytes]] /\ Caller \in Calls
  BY DEF IInv, TypeOK, Calls
<1>5. ASSUME NEW a \in Addresses, ~(out.offset <= a /\ a < out.offset + out.length)
      PROVE  memory'[Caller][a] = memory[Caller][a]
  <2>1. CASE lookup.dst_tag = Memory
    <3>1. /\ lookup.dst_id = Caller /\ out.offset <= lookup.dst_addr
          /\ lookup.dst_addr + lookup.length <= out.offset + out.length
      BY <2>1 DEF Into
    <3>2. a # at
      BY <1>1, <1>3, <1>5, <3>1
    <3>3. memory'[Caller] = WithByte(memory[Caller], at, t.write.value)
      BY <1>1, <1>4, <2>1, <3>1 DEF write_lookup
    <3>4. a \in DOMAIN memory[Caller]
      BY <1>4
    <3> HIDE DEF at
    <3> QED
      BY <3>2, <3>3, <3>4 DEF WithByte
  <2>2. CASE lookup.dst_tag # Memory
    BY <1>1, <2>2 DEF write_lookup
  <2> QED
    BY <2>1, <2>2
<1>6. \A a \in Addresses : ~(out.offset <= a /\ a < out.offset + out.length) =>
        memory'[Caller][a] = called[a]
  BY <1>5 DEF Outside
<1> QED
  BY <1>2, <1>6 DEF Outside

LEMMA LayKeeps ==
  ASSUME Assumptions, IInv, Kept, FirstStep \/ NextStep
  PROVE  Kept'
<1>1. PICK s, t, n :
        /\ Laying0(s, Head(todo), n) /\ Lays(s, t) /\ n \in Nat
        /\ n < Head(todo).length \/ (n = 0 /\ step = NoStep)
        /\ step # NoStep => Head(todo).length > 0
  <2>1. CASE FirstStep
    <3>1. 0 \in Nat /\ step = NoStep
      BY <2>1 DEF FirstStep
    <3> QED
      BY <2>1, <3>1, FirstLays
  <2>2. CASE NextStep
    <3>1. Byte \in Nat /\ Byte + 1 \in Nat /\ Byte + 1 < Head(todo).length
      BY <2>2, NextLays
    <3>2. todo # <<>> /\ Head(todo) \in LookupSet
      <4>1. todo # <<>>
        BY <2>2, NextLays DEF Laying0
      <4> QED
        BY <4>1 DEF IInv, Queued
    <3>3. Head(todo).length > 0
      BY <3>1, <3>2 DEF LookupSet
    <3> QED
      BY <2>2, <3>1, <3>3, NextLays
  <2> QED
    BY <2>1, <2>2
<1> DEFINE lookup == Head(todo)
<1>2. /\ lookup \in LookupSet /\ lookup.length \in Nat /\ todo # <<>>
      /\ todo \in Seq(LookupSet)
  <2>1. lookup \in LookupSet /\ todo # <<>> /\ todo \in Seq(LookupSet)
    BY <1>1, PlaceLaid DEF IInv, Queued, Laying0
  <2> QED
    BY <2>1 DEF LookupSet
<1>3. /\ opcode' = opcode /\ before' = before /\ UNCHANGED frame
      /\ context' = context /\ called' = called /\ is_precompile' = is_precompile
  BY <1>1 DEF Laying0, frame
<1>4. Executing /\ Executing'
  BY <1>2, <1>3 DEF IInv, Queued, Executing
<1>5. Outside(before[Caller])' = Outside(before[Caller])
  BY <1>3 DEF Outside
<1>6. ASSUME opcode.name = "CALL"
      PROVE  /\ AllInto(context.return_data, todo)'
             /\ (step # NoStep => Head(todo).length > 0)' => Outside(memory[Caller])'
  <2>1. AllInto(context.return_data, todo) /\ Outside(memory[Caller])
    BY <1>1, <1>6 DEF Kept
  <2>2. Into(context.return_data, lookup)
    <3>1. lookup = todo[1] /\ 1 \in 1 .. Len(todo)
      BY <1>2
    <3> QED
      BY <2>1, <3>1 DEF AllInto
  <2>3. todo' = todo \/ todo' = Tail(todo)
    BY <1>1 DEF Lays
  <2>4. AllInto(context.return_data, Tail(todo))
    <3>1. \A i \in 1 .. Len(Tail(todo)) : i + 1 \in 1 .. Len(todo) /\ Tail(todo)[i] = todo[i + 1]
      BY <1>2
    <3> QED
      BY <2>1, <3>1 DEF AllInto
  <2>5. AllInto(context.return_data, todo)'
    BY <1>3, <2>1, <2>3, <2>4 DEF AllInto, Into
  <2>6. CASE n < lookup.length
    BY <1>1, <2>1, <2>2, <2>5, <2>6, ByteInto
  <2>7. CASE ~(n < lookup.length)
    <3>1. n = 0 /\ lookup.length = 0
      BY <1>1, <1>2, <2>7
    <3>2. ~t.write.is_last
      BY <1>1, <3>1, LastByte
    <3>3. step' # NoStep /\ todo' = todo
      BY <1>1, <3>2, NotLastByte
    <3> QED
      BY <2>5, <3>1, <3>3
  <2> QED
    BY <2>6, <2>7
<1> QED
  BY <1>3, <1>4, <1>5, <1>6 DEF Kept

LEMMA CallIdentityKept ==
  ASSUME Assumptions, IInv, CallIdentity
  PROVE  Kept'
<1> DEFINE reading(read) ==
             IF read.length = 0 THEN <<>>
             ELSE copy_lookup(Caller, Memory, Callee, RlcAcc, read.offset,
                              read.offset + read.length, 0, read.length)
           output(in) == copy_lookup(Callee, Memory, Callee, RlcAcc, 0, in.length, 0, in.length)
           back(in, out) ==
             copy_lookup(Callee, Memory, Caller, Memory, 0, Smaller(in.length, out.length),
                         out.offset, Smaller(in.length, out.length))
           returning(in, out) == IF in.length = 0 THEN <<>> ELSE output(in) \o back(in, out)
           op(in, out) == [name |-> "CALL", call_data |-> in, return_data |-> out]
<1>1. PICK in \in Ranges, read \in Ranges, out \in Ranges :
        /\ BeginWith(op(in, out), reading(read) \o returning(in, out), EmptyCallee)
        /\ context' = [call_data |-> in, return_data |-> out]
  BY DEF CallIdentity
<1>2. /\ ~Executing /\ call_id = Caller /\ UNCHANGED is_precompile
      /\ called' = memory[Caller]
  BY DEF CallIdentity, Running, IsRoot
<1>3. /\ in.length \in Nat /\ read.offset \in Nat /\ read.length \in Nat
      /\ out.offset \in Nat /\ out.length \in Nat /\ out.offset \in Addresses
      /\ out.offset + out.length <= MaxAddr + 1 /\ MaxAddr \in Nat
  BY RangesTyped
<1>4. /\ Callee \in Ids /\ Caller \in Ids /\ Caller \in Calls
      /\ Memory \in SourceTags /\ Memory \in TargetTags
      /\ RlcAcc \in TargetTags /\ RlcAcc # Memory
  BY DEF Ids, Calls, SourceTags, TargetTags, RlcAcc, Memory
<1>5. Fitting(reading(read)) /\ AllInto(out, reading(read))
  <2>1. read.offset + read.length \in Nat /\ 0 \in Nat
    BY <1>3
  <2>2. Fitting(reading(read))
    BY <1>3, <1>4, <2>1, OneFits, NoneFits
  <2> QED
    BY <1>4, <2>2, OneInto, NoneInto
<1>6. Fitting(output(in)) /\ AllInto(out, output(in))
  <2>1. 0 \in Nat
    OBVIOUS
  <2>2. Fitting(output(in))
    BY <1>3, <1>4, <2>1, OneFits
  <2> QED
    BY <1>4, <2>2, OneInto
<1>7. Fitting(back(in, out)) /\ AllInto(out, back(in, out))
  <2> DEFINE copied == Smaller(in.length, out.length)
  <2>1. copied \in Nat /\ copied <= out.length /\ 0 \in Nat
    BY <1>3, SmallerFits
  <2> HIDE DEF copied
  <2>2. /\ out.offset + copied <= MaxAddr + 1
        /\ out.offset <= out.offset /\ out.offset + copied <= out.offset + out.length
    BY <1>3, <2>1
  <2>3. Fitting(copy_lookup(Callee, Memory, Caller, Memory, 0, copied, out.offset, copied))
    BY <1>3, <1>4, <2>1, <2>2, OneFits
  <2>4. AllInto(out, copy_lookup(Callee, Memory, Caller, Memory, 0, copied, out.offset, copied))
    BY <2>2, OneInto
  <2> QED
    BY <2>3, <2>4 DEF copied
<1> HIDE DEF output, back
<1>8. Fitting(returning(in, out)) /\ AllInto(out, returning(in, out))
  BY <1>6, <1>7, MoreFit, MoreInto, NoneFits, NoneInto
<1> HIDE DEF reading, returning
<1>9. AllInto(out, reading(read) \o returning(in, out))
  BY <1>5, <1>8, MoreInto
<1>10. ~is_precompile'
  BY <1>2 DEF IInv, Bound, Caller, Callee
<1>11. opcode'.name = "CALL" /\ todo' = reading(read) \o returning(in, out)
       /\ memory' = EmptyCallee /\ context'.return_data = out
  BY <1>1 DEF BeginWith
<1>12. memory'[Caller] = memory[Caller]
  BY <1>11 DEF EmptyCallee, IInv, TypeOK, Calls, Caller, Callee
<1>13. Outside(memory[Caller])'
  BY <1>2, <1>12 DEF Outside
<1>14. AllInto(context.return_data, todo)'
  BY <1>9, <1>11 DEF AllInto, Into
<1> QED
  BY <1>10, <1>11, <1>13, <1>14 DEF Kept

LEMMA StepKept ==
  ASSUME Assumptions, IInv, Kept, [Next]_vars
  PROVE  Kept'
<1>1. CASE FirstStep \/ NextStep
  BY <1>1, LayKeeps
<1>2. CASE CallIdentity
  BY <1>2, CallIdentityKept
<1>3. CASE dataCopy
  <2>1. ~Executing /\ is_precompile /\ UNCHANGED frame /\ before' = memory
        /\ opcode'.name = "DATACOPY"
    BY <1>3 DEF dataCopy, Begin, BeginWith
  <2>2. Outside(memory[Caller])
    BY <2>1 DEF Kept
  <2>3. Outside(before[Caller])'
    BY <2>1, <2>2 DEF Outside, frame
  <2>4. Executing'
    BY <2>1 DEF Executing, NoOpcode
  <2> QED
    BY <2>1, <2>3, <2>4 DEF Kept
<1>4. CASE UNCHANGED vars
  <2>1. UNCHANGED <<opcode, todo, step, memory, before, is_precompile, context, called>>
    BY <1>4 DEF vars
  <2> QED
    BY <2>1 DEF Kept, Outside, AllInto, Into, Executing
<1>5. CASE CallDataCopy \/ CodeCopy \/ ReturnDataCopy \/ Log \/ Sha3 \/ Return
  <2>1. /\ opcode'.name \notin IdentityNames /\ UNCHANGED frame
    <3>1. CASE CallDataCopy \/ CodeCopy \/ ReturnDataCopy
      <4>1. \E name \in CopyNames : \E op \in CopyOperands(name) : opcode' = op
        BY <3>1 DEF CallDataCopy, CodeCopy, ReturnDataCopy, CopyNames, Begin, BeginWith
      <4>2. \E name \in CopyNames : opcode'.name = name
        BY <4>1, CopyOperandsTyped
      <4> QED
        BY <3>1, <4>2 DEF CopyNames, IdentityNames, CallDataCopy, CodeCopy, ReturnDataCopy
    <3>2. CASE Log \/ Sha3 \/ Return
      <4>1. \E name \in RangeNames, x \in Ranges :
              opcode' = [name |-> name, offset |-> x.offset, length |-> x.length]
        BY <3>2 DEF Log, Sha3, Return, RangeNames, Begin, BeginWith
      <4> QED
        BY <3>2, <4>1 DEF RangeNames, IdentityNames, Log, Sha3, Return
    <3> QED
      BY <1>5, <3>1, <3>2
  <2>2. ~is_precompile
    BY <1>5 DEF CallDataCopy, CodeCopy, ReturnDataCopy, Log, Sha3, Return, IsRoot, IInv, Bound,
                Caller, Callee
  <2> QED
    BY <2>1, <2>2 DEF Kept, frame, IdentityNames
<1>6. CASE Mstore8 \/ CallContract \/ Stop
  <2>1. opcode' = NoOpcode /\ is_precompile' = is_precompile
    BY <1>6 DEF Mstore8, CallContract, Stop, Running, Executing, frame
  <2>2. ~is_precompile
    BY <1>6 DEF Mstore8, CallContract, Stop, IsRoot, IInv, Bound, Caller, Callee
  <2> QED
    BY <2>1, <2>2 DEF Kept, NoOpcode
<1>7. CASE EnterIdentity
  <2>1. /\ opcode.name = "CALL" /\ todo = <<>> /\ opcode' = NoOpcode
        /\ UNCHANGED <<memory, context, called>>
    BY <1>7 DEF EnterIdentity, EndStep, Done
  <2>2. step = NoStep
    BY <2>1 DEF IInv, Counted
  <2>3. Outside(memory[Caller])
    BY <2>1, <2>2 DEF Kept
  <2>4. Outside(memory[Caller])'
    BY <2>1, <2>3 DEF Outside
  <2> QED
    BY <2>1, <2>4 DEF Kept, NoOpcode, Executing
<1>8. CASE EndSameContext \/ RestoreCaller
  <2>1. opcode' = NoOpcode /\ Executing
    BY <1>8 DEF EndSameContext, RestoreCaller, EndStep, Done
  <2>2. ~is_precompile'
    BY <1>8, <2>1 DEF EndSameContext, RestoreCaller, Kept, frame
  <2> QED
    BY <2>1, <2>2 DEF Kept, NoOpcode
<1> QED
  BY <1>1, <1>2, <1>3, <1>4, <1>5, <1>6, <1>7, <1>8 DEF Next

-----------------------------------------------------------------------------
(* Theorems.                                                               *)

\* The memory before a step is kept until it ends.
Remembered == before \in [Calls -> [Addresses -> Bytes]]

LEMMA StepRemembers ==
  ASSUME Assumptions, IInv, Remembered, [Next]_vars
  PROVE  Remembered'
<1>1. before' = before \/ before' = memory' \/ before' = NoMemory
  <2>1. CASE \/ CallDataCopy \/ CodeCopy \/ ReturnDataCopy \/ Log \/ Sha3 \/ Return \/ CallIdentity
             \/ dataCopy
    <3>1. \E op, lookups, mem : BeginWith(op, lookups, mem)
      BY <2>1 DEF CallDataCopy, CodeCopy, ReturnDataCopy, Log, Sha3, Return, CallIdentity, dataCopy,
                  Begin
    <3> QED
      BY <3>1 DEF BeginWith
  <2>2. CASE EndSameContext \/ EnterIdentity \/ RestoreCaller
    BY <2>2 DEF EndSameContext, EnterIdentity, RestoreCaller, EndStep
  <2>3. CASE Mstore8 \/ CallContract \/ Stop \/ FirstStep \/ NextStep \/ UNCHANGED vars
    BY <2>3 DEF Mstore8, CallContract, Stop, FirstStep, NextStep, vars
  <2> QED
    BY <2>1, <2>2, <2>3 DEF Next
<1>2. IInv'
  BY StepKeeps
<1> QED
  BY <1>1, <1>2, FreshTyped DEF Remembered, IInv, TypeOK

Inv == IInv /\ Remembered /\ Arrived /\ Spent /\ Kept

LEMMA InitInv == Init => Inv
<1> SUFFICES ASSUME Init PROVE Inv
  OBVIOUS
<1>1. IInv
  BY AssumptionsHold, InitKeeps
<1>2. opcode = NoOpcode /\ before = NoMemory /\ ~is_precompile
  BY DEF Init
<1>3. Arrived /\ Spent /\ Kept
  BY <1>2 DEF Arrived, Spent, Kept, Effective, Executing, PlainIdentity, NoOpcode
<1> QED
  BY <1>1, <1>2, <1>3, AssumptionsHold, FreshTyped DEF Inv, Remembered

LEMMA StepInv == Inv /\ [Next]_vars => Inv'
<1> SUFFICES ASSUME Inv, [Next]_vars PROVE Inv'
  OBVIOUS
<1> QED
  BY AssumptionsHold, StepKeeps, StepRemembers, StepArrives, StepSpends, StepKept DEF Inv

\* Data that a copy has put into a memory.
LEMMA DataPut ==
  ASSUME TypeOK, Remembered, NEW call \in Calls, NEW calls \in SUBSET Calls, call \in calls,
         NEW offset \in Int, NEW data, Len(data) \in Nat, NEW lookup,
         Written(memory, before, lookup, Len(data), calls),
         lookup.dst_tag = Memory, lookup.dst_id = call, lookup.dst_addr = offset,
         \A k \in 0 .. Len(data) - 1 : data[k + 1] = SourceByte(before, lookup, k)
  PROVE  /\ memory[call] = WithData(call, offset, data)[call]
         /\ calls = Calls => memory = WithData(call, offset, data)
<1> DEFINE length == Len(data)
           put == [a \in Addresses |-> IF a \in offset .. offset + length - 1
                                       THEN data[a - offset + 1] ELSE before[call][a]]
           w == WithData(call, offset, data)
<1>1. /\ memory \in [Calls -> [Addresses -> Bytes]] /\ before \in [Calls -> [Addresses -> Bytes]]
  BY DEF TypeOK, Remembered
<1>2. w = [before EXCEPT ![call] = put]
  BY DEF WithData
<1>3. length \in Nat /\ Addresses \subseteq Int
  BY RangesAssumption DEF Addresses, RangesAssumption
<1>4. ASSUME NEW a \in Addresses
      PROVE  memory[call][a] = put[a]
  <2>1. memory[call][a] = IF offset <= a /\ a < offset + length
                          THEN SourceByte(before, lookup, a - offset) ELSE before[call][a]
    BY DEF Written
  <2>2. a \in Int /\ (a \in offset .. offset + length - 1 <=> offset <= a /\ a < offset + length)
    BY <1>3
  <2>3. CASE a \in offset .. offset + length - 1
    <3>1. a - offset \in 0 .. length - 1
      BY <1>3, <2>2, <2>3
    <3>2. data[a - offset + 1] = SourceByte(before, lookup, a - offset)
      BY <3>1
    <3> QED
      BY <2>1, <2>2, <2>3, <3>2
  <2>4. CASE a \notin offset .. offset + length - 1
    BY <2>1, <2>2, <2>4
  <2> QED
    BY <2>3, <2>4
<1> HIDE DEF w
<1>5. memory[call] = put
  <2>1. memory[call] \in [Addresses -> Bytes]
    BY <1>1
  <2> HIDE DEF put
  <2>2. memory[call] = [a \in Addresses |-> memory[call][a]]
    BY <2>1
  <2>3. put = [a \in Addresses |-> put[a]]
    BY DEF put
  <2>4. [a \in Addresses |-> memory[call][a]] = [a \in Addresses |-> put[a]]
    BY <1>4
  <2> QED
    BY <2>2, <2>3, <2>4
<1> HIDE DEF put
<1>6. w[call] = put
  BY <1>1, <1>2
<1>7. ASSUME calls = Calls
      PROVE  memory = w
  <2>1. ASSUME NEW c \in Calls
        PROVE  memory[c] = w[c]
    <3>1. CASE c = call
      BY <1>5, <1>6, <3>1
    <3>2. CASE c # call
      <4>1. \A a \in Addresses : memory[c][a] = before[c][a]
        BY <1>7, <3>2 DEF Written
      <4>2. memory[c] \in [Addresses -> Bytes] /\ before[c] \in [Addresses -> Bytes]
        BY <1>1
      <4>3. memory[c] = before[c]
        BY <4>1, <4>2
      <4>4. w[c] = before[c]
        BY <1>1, <1>2, <3>2
      <4> QED
        BY <4>3, <4>4
    <3> QED
      BY <3>1, <3>2
  <2>2. DOMAIN w = Calls /\ w = [c \in Calls |-> w[c]]
    BY <1>1, <1>2
  <2> QED
    BY <1>1, <2>1, <2>2
<1> QED
  BY <1>5, <1>6, <1>7 DEF w

\* When a step is done its copy has arrived.
LEMMA DoneArrived ==
  ASSUME Inv, Done, Effective
  PROVE  /\ Laid(TheCopy.length)
         /\ TheCopy.dst_tag = RlcAcc => rlc_acc = Accumulated(before, TheCopy, TheCopy.length)
BY DEF Inv, Arrived, Done

LEMMA DataLength ==
  ASSUME NEW n \in Nat, NEW call, NEW offset
  PROVE  /\ Len(Data(call, offset, n)) = n
         /\ \A k \in 1 .. n : Data(call, offset, n)[k] = before[call][offset + k - 1]
BY DEF Data

LEMMA CopiedData ==
  ASSUME Assumptions, Inv, Done, opcode.name \in {"CALLDATACOPY", "CODECOPY"}
  PROVE  memory = WithData(call_id, opcode.memory_offset, Copied(opcode))
<1> DEFINE data == Copied(opcode)
           byte(k) == IF opcode.name = "CODECOPY" THEN CodeByte(opcode.offset + k)
                      ELSE CallDataByte(opcode.offset + k)
<1>1. TypeOK /\ Bound /\ Remembered
  BY DEF Inv, IInv
<1>2. opcode \in CopyOps
  BY <1>1, NamesTell DEF CopyNames
<1>3. /\ opcode.offset \in Nat /\ opcode.length \in Nat /\ opcode.memory_offset \in Nat
      /\ MaxAddr \in Nat /\ MaxLength \in Nat
  BY <1>2, RangesTyped DEF CopyOps, Addresses, Lengths
<1>4. Effective /\ Watched = Calls
  BY DEF Effective, Done, Watched
<1>5. Len(data) = opcode.length /\ \A k \in 0 .. opcode.length - 1 : data[k + 1] = byte(k)
  <2> DEFINE at(k) == IF opcode.name = "CODECOPY" THEN CodeByte(opcode.offset + k - 1)
                      ELSE CallDataByte(opcode.offset + k - 1)
  <2>1. data = [k \in 1 .. opcode.length |-> at(k)]
    BY DEF Copied
  <2>2. ASSUME NEW k \in 0 .. opcode.length - 1
        PROVE  k + 1 \in 1 .. opcode.length /\ opcode.offset + (k + 1) - 1 = opcode.offset + k
    BY <1>3
  <2> HIDE DEF data
  <2>3. \A k \in 0 .. opcode.length - 1 : at(k + 1) = byte(k)
    BY <2>2
  <2> HIDE DEF at, byte
  <2> QED
    BY <1>3, <2>1, <2>2, <2>3
<1>6. /\ TheCopy.dst_tag = Memory /\ TheCopy.dst_id = call_id
      /\ TheCopy.dst_addr = opcode.memory_offset /\ TheCopy.length = opcode.length
      /\ TheCopy.src_tag \in SourceTags
  <2>1. CASE opcode.name = "CODECOPY"
    BY <2>1, TheCopyIs, IdsAndTags DEF Asked
  <2>2. CASE opcode.name = "CALLDATACOPY" /\ IsRoot
    BY <2>2, TheCopyIs, IdsAndTags DEF Asked
  <2>3. CASE opcode.name = "CALLDATACOPY" /\ ~IsRoot
    BY <2>3, TheCopyIs, IdsAndTags DEF Asked
  <2> QED
    BY <2>1, <2>2, <2>3
<1>7. ASSUME NEW k \in 0 .. opcode.length - 1
      PROVE  byte(k) = SourceByte(before, TheCopy, k)
  <2>1. opcode.offset + k \in Nat
    BY <1>3
  <2>2. CASE opcode.name = "CODECOPY"
    <3>1. /\ TheCopy.src_tag = Bytecode /\ TheCopy.src_addr = opcode.offset
          /\ TheCopy.src_addr_end = Len(Code) /\ Bytecode # Memory
      BY <2>2, TheCopyIs DEF Asked, Bytecode, Memory
    <3> QED
      BY <2>2, <3>1 DEF SourceByte, CodeByte, HasByte
  <2>3. CASE opcode.name = "CALLDATACOPY" /\ IsRoot
    <3>1. /\ TheCopy.src_tag = TxCalldata /\ TheCopy.src_addr = opcode.offset
          /\ TheCopy.src_addr_end = Len(CallData) /\ TxCalldata # Memory /\ TxCalldata # Bytecode
      BY <2>3, TheCopyIs DEF Asked, Bytecode, Memory, TxCalldata
    <3> QED
      BY <2>3, <3>1 DEF SourceByte, CallDataByte, HasByte
  <2>4. CASE opcode.name = "CALLDATACOPY" /\ ~IsRoot
    <3> DEFINE start == context.call_data.offset   length == context.call_data.length
    <3>1. /\ TheCopy.src_tag = Memory /\ TheCopy.src_id = Caller
          /\ TheCopy.src_addr = start + opcode.offset
          /\ TheCopy.src_addr_end = start + length
      BY <2>4, TheCopyIs DEF Asked, calldata_end
    <3>2. start \in Nat /\ length \in Nat
      BY <1>1, RangesTyped DEF TypeOK
    <3>3. byte(k) = IF opcode.offset + k < length THEN before[Caller][start + (opcode.offset + k)]
                    ELSE 0
      BY <2>4 DEF CallDataByte
    <3> HIDE DEF start, length, byte
    <3>4. /\ start + opcode.offset + k = start + (opcode.offset + k)
          /\ (start + opcode.offset + k < start + length <=> opcode.offset + k < length)
      BY <1>3, <3>2
    <3>5. SourceByte(before, TheCopy, k)
            = IF ~(start + opcode.offset + k < start + length) THEN 0
              ELSE before[Caller][start + opcode.offset + k]
      BY <3>1 DEF SourceByte
    <3> QED
      BY <3>3, <3>4, <3>5
  <2> QED
    BY <2>2, <2>3, <2>4
<1>8. Written(memory, before, TheCopy, Len(data), Calls)
  BY <1>4, <1>5, <1>6, DoneArrived DEF Laid
<1>9. \A k \in 0 .. Len(data) - 1 : data[k + 1] = SourceByte(before, TheCopy, k)
  BY <1>5, <1>7
<1> HIDE DEF data
<1>10. call_id \in Calls /\ opcode.memory_offset \in Int /\ Len(data) \in Nat
  BY <1>1, <1>3, <1>5 DEF TypeOK
<1>11. memory = WithData(call_id, opcode.memory_offset, data)
  BY <1>1, <1>6, <1>8, <1>9, <1>10, DataPut
<1> QED
  BY <1>11 DEF data

\* A copy of memory that stays before the end of its source puts data there.
LEMMA DataCopied ==
  ASSUME Assumptions, Inv, Done, Effective, NEW call \in Calls, call \in Watched,
         NEW source, NEW offset \in Nat, NEW to \in Nat, NEW n \in Nat,
         TheCopy.src_tag = Memory, TheCopy.src_id = source, TheCopy.src_addr = offset,
         offset + n <= TheCopy.src_addr_end, TheCopy.src_addr_end \in Int,
         TheCopy.dst_tag = Memory, TheCopy.dst_id = call, TheCopy.dst_addr = to,
         TheCopy.length = n
  PROVE  /\ memory[call] = WithData(call, to, Data(source, offset, n))[call]
         /\ Watched = Calls => memory = WithData(call, to, Data(source, offset, n))
<1> DEFINE data == Data(source, offset, n)
<1>1. Len(data) = n /\ \A k \in 1 .. n : data[k] = before[source][offset + k - 1]
  BY DataLength
<1>2. ASSUME NEW k \in 0 .. n - 1
      PROVE  data[k + 1] = SourceByte(before, TheCopy, k)
  <2>1. /\ k + 1 \in 1 .. n /\ offset + (k + 1) - 1 = offset + k
        /\ offset + k < TheCopy.src_addr_end
    OBVIOUS
  <2>2. SourceByte(before, TheCopy, k) = before[source][offset + k]
    BY <2>1 DEF SourceByte
  <2> HIDE DEF data
  <2>3. data[k + 1] = before[source][offset + (k + 1) - 1]
    BY <1>1, <2>1
  <2> QED
    BY <2>1, <2>2, <2>3
<1> HIDE DEF data
<1>3. Written(memory, before, TheCopy, Len(data), Watched)
  BY <1>1, DoneArrived DEF Laid
<1>4. \A k \in 0 .. Len(data) - 1 : data[k + 1] = SourceByte(before, TheCopy, k)
  BY <1>1, <1>2
<1>5. TypeOK /\ Remembered /\ Watched \in SUBSET Calls /\ Len(data) \in Nat /\ to \in Int
  BY <1>1, TheCopySound DEF Inv, IInv
<1>6. /\ memory[call] = WithData(call, to, data)[call]
      /\ Watched = Calls => memory = WithData(call, to, data)
  BY <1>3, <1>4, <1>5, DataPut
<1> QED
  BY <1>6 DEF data

LEMMA ReturnedData ==
  ASSUME Assumptions, Inv, Done, opcode.name = "RETURN"
  PROVE  memory = WithData(Caller, context.return_data.offset,
                    Data(Callee, opcode.offset,
                         Smaller(opcode.length, context.return_data.length)))
<1> DEFINE n == Smaller(opcode.length, context.return_data.length)
<1>1. TypeOK /\ Bound /\ Effective /\ Watched = Calls
  BY DEF Inv, IInv, Effective, Done, Watched
<1>2. opcode \in RangeOps /\ call_id = Callee
  BY <1>1, NamesTell DEF RangeNames, Bound
<1>3. /\ opcode.offset \in Nat /\ opcode.length \in Nat
      /\ context.return_data.offset \in Nat /\ context.return_data.length \in Nat
  <2>1. opcode.offset \in Nat /\ opcode.length \in Nat
    BY <1>2, RangesTyped DEF RangeOps, Addresses, Lengths
  <2>2. context.return_data \in Ranges
    BY <1>1 DEF TypeOK
  <2> QED
    BY <2>1, <2>2, RangesTyped
<1>4. n \in Nat /\ n <= opcode.length
  BY <1>3, SmallerFits
<1>5. /\ TheCopy.src_tag = Memory /\ TheCopy.src_id = Callee /\ TheCopy.src_addr = opcode.offset
      /\ TheCopy.src_addr_end = opcode.offset + opcode.length
      /\ TheCopy.dst_tag = Memory /\ TheCopy.dst_id = Caller
      /\ TheCopy.dst_addr = context.return_data.offset /\ TheCopy.length = n
  BY <1>2, TheCopyIs DEF Asked
<1> HIDE DEF n
<1>6. opcode.offset + n <= TheCopy.src_addr_end /\ TheCopy.src_addr_end \in Int
  BY <1>3, <1>4, <1>5
<1>7. Caller \in Calls /\ Caller \in Watched
  BY <1>1 DEF Calls
<1>8. memory = WithData(Caller, context.return_data.offset, Data(Callee, opcode.offset, n))
  BY <1>1, <1>3, <1>4, <1>5, <1>6, <1>7, DataCopied
<1> QED
  BY <1>8 DEF n

LEMMA ReturnDataCopiedFrom ==
  ASSUME Assumptions, Inv, Done, opcode.name = "RETURNDATACOPY"
  PROVE  memory = WithData(Caller, opcode.memory_offset,
                    Data(Callee, last_callee.offset, opcode.length))
<1>1. TypeOK /\ Bound /\ Effective /\ Watched = Calls
  BY DEF Inv, IInv, Effective, Done, Watched
<1>2. opcode \in CopyOps /\ call_id = Caller
  BY <1>1, NamesTell DEF CopyNames, Bound
<1>3. /\ opcode.memory_offset \in Nat /\ opcode.length \in Nat /\ last_callee.offset \in Nat
  <2>1. opcode.memory_offset \in Nat /\ opcode.length \in Nat
    BY <1>2, RangesTyped DEF CopyOps, Addresses, Lengths
  <2>2. last_callee \in Ranges
    BY <1>1 DEF TypeOK
  <2> QED
    BY <2>1, <2>2, RangesTyped
<1>4. /\ TheCopy.src_tag = Memory /\ TheCopy.src_id = Callee
      /\ TheCopy.src_addr = last_callee.offset
      /\ TheCopy.src_addr_end = last_callee.offset + opcode.length
      /\ TheCopy.dst_tag = Memory /\ TheCopy.dst_id = Caller
      /\ TheCopy.dst_addr = opcode.memory_offset /\ TheCopy.length = opcode.length
  BY <1>2, TheCopyIs DEF Asked
<1>5. last_callee.offset + opcode.length <= TheCopy.src_addr_end /\ TheCopy.src_addr_end \in Int
  BY <1>3, <1>4
<1>6. Caller \in Calls /\ Caller \in Watched
  BY <1>1 DEF Calls
<1> QED
  BY <1>1, <1>3, <1>4, <1>5, <1>6, DataCopied

LEMMA InputReturned ==
  ASSUME Assumptions, Inv, Done, PlainIdentity,
         opcode.call_data.offset >= opcode.call_data.length
  PROVE  memory[Caller] = WithOutput(opcode.call_data)
<1>1. TypeOK /\ Bound /\ Effective
  BY DEF Inv, IInv, Effective, Done, PlainIdentity
<1>2. opcode.name = "DATACOPY" /\ opcode.name \in IdentityNames
  BY DEF PlainIdentity, IdentityNames
<1>3. /\ context.call_data = opcode.call_data
      /\ context.return_data = [offset |-> 0, length |-> opcode.call_data.length]
  BY <1>1, <1>2 DEF Bound, PlainIdentity
<1> DEFINE offset == opcode.call_data.offset   n == opcode.call_data.length
<1>4. offset \in Nat /\ n \in Nat /\ 0 \in Nat
  BY <1>1, <1>3, RangesTyped DEF TypeOK
<1>5. /\ TheCopy.src_tag = Memory /\ TheCopy.src_id = Caller /\ TheCopy.src_addr = offset
      /\ TheCopy.src_addr_end = offset + n
      /\ TheCopy.dst_tag = Memory /\ TheCopy.dst_id = Caller /\ TheCopy.dst_addr = 0
      /\ TheCopy.length = 0 + n
  BY <1>2, <1>3, TheCopyIs DEF Asked, calldata_end
<1> HIDE DEF offset, n
<1>6. /\ TheCopy.length = n /\ offset + n <= TheCopy.src_addr_end /\ TheCopy.src_addr_end \in Int
  BY <1>4, <1>5
<1>7. Caller \in Calls /\ Caller \in Watched
  BY <1>2 DEF Calls, Watched
<1>8. memory[Caller] = WithData(Caller, 0, Data(Caller, offset, n))[Caller]
  BY <1>1, <1>4, <1>5, <1>6, <1>7, DataCopied
<1>9. /\ before \in [Calls -> [Addresses -> Bytes]] /\ offset >= n
      /\ \A a \in Addresses : ~(0 <= a /\ a < 0 + n) => before[Caller][a] = called[a]
  BY <1>2, <1>3 DEF Inv, Remembered, Kept, Outside, offset, n
<1>10. /\ offset + n <= MaxAddr + 1 /\ MaxAddr \in Nat
       /\ \A a \in Addresses : a \in Nat /\ a <= MaxAddr
  BY <1>1, <1>3, RangesTyped DEF TypeOK, offset, n, Addresses
<1> DEFINE data == Data(Caller, offset, n)
<1>11. Len(data) = n /\ \A k \in 1 .. n : data[k] = before[Caller][offset + k - 1]
  BY <1>4, DataLength
<1> HIDE DEF data
<1>12. WithData(Caller, 0, data)[Caller] =
         [a \in Addresses |-> IF a \in 0 .. 0 + n - 1 THEN data[a - 0 + 1] ELSE before[Caller][a]]
  BY <1>7, <1>9, <1>11 DEF WithData
<1>13. ASSUME NEW a \in Addresses
       PROVE  (IF a \in 0 .. 0 + n - 1 THEN data[a - 0 + 1] ELSE before[Caller][a])
                = IF a < n THEN called[offset + a] ELSE called[a]
  <2>1. CASE a < n
    <3>1. /\ a \in 0 .. 0 + n - 1 /\ a - 0 + 1 \in 1 .. n
          /\ offset + (a - 0 + 1) - 1 = offset + a
          /\ offset + a \in 0 .. MaxAddr /\ ~(offset + a < 0 + n)
      BY <1>4, <1>9, <1>10, <2>1
    <3>2. data[a - 0 + 1] = before[Caller][offset + a]
      BY <1>11, <3>1
    <3> QED
      BY <1>9, <2>1, <3>1, <3>2 DEF Addresses
  <2>2. CASE ~(a < n)
    <3>1. a \notin 0 .. 0 + n - 1 /\ ~(a < 0 + n)
      BY <1>4, <1>10, <2>2
    <3> QED
      BY <1>9, <2>2, <3>1
  <2> QED
    BY <2>1, <2>2
<1>14. memory[Caller] = [a \in Addresses |-> IF a < n THEN called[offset + a] ELSE called[a]]
  BY <1>8, <1>12, <1>13 DEF data
<1> QED
  BY <1>14 DEF WithOutput, offset, n

\* LOG and SHA3 read the bytes of their operands.
LEMMA DataRead ==
  ASSUME Assumptions, Inv, Done, opcode.name \in {"LOG", "SHA3"}
  PROVE  LET data == Data(call_id, opcode.offset, opcode.length)
         IN  /\ memory = before
             /\ opcode.name = "LOG" =>
                  DOMAIN log = 0 .. opcode.length - 1 /\ \A i \in DOMAIN log : log[i] = data[i + 1]
             /\ opcode.name = "SHA3" => rlc_acc = RLC(data)
<1> DEFINE data == Data(call_id, opcode.offset, opcode.length)
<1>1. TypeOK /\ Bound /\ Remembered /\ Effective /\ Watched = Calls
  BY DEF Inv, IInv, Effective, Done, Watched
<1>2. opcode \in RangeOps
  BY <1>1, NamesTell DEF RangeNames
<1>3. opcode.offset \in Nat /\ opcode.length \in Nat
  BY <1>2, RangesTyped DEF RangeOps, Addresses, Lengths
<1>4. /\ TheCopy.src_tag = Memory /\ TheCopy.src_id = call_id /\ TheCopy.src_addr = opcode.offset
      /\ TheCopy.src_addr_end = opcode.offset + opcode.length
      /\ TheCopy.length = opcode.length
      /\ TheCopy.dst_tag = (IF opcode.name = "LOG" THEN TxLog ELSE RlcAcc)
      /\ TheCopy.dst_tag # Memory
  <2>1. CASE opcode.name = "LOG"
    BY <2>1, TheCopyIs DEF Asked, TxLog, Memory
  <2>2. CASE opcode.name = "SHA3"
    BY <2>2, TheCopyIs DEF Asked, RlcAcc, Memory
  <2> QED
    BY <2>1, <2>2
<1>5. Len(data) = opcode.length
      /\ \A k \in 1 .. opcode.length : data[k] = before[call_id][opcode.offset + k - 1]
  BY <1>3, DataLength
<1>6. ASSUME NEW k \in 0 .. opcode.length - 1
      PROVE  data[k + 1] = SourceByte(before, TheCopy, k)
  <2>1. /\ k + 1 \in 1 .. opcode.length /\ opcode.offset + (k + 1) - 1 = opcode.offset + k
        /\ opcode.offset + k < TheCopy.src_addr_end
    BY <1>3, <1>4
  <2>2. SourceByte(before, TheCopy, k) = before[call_id][opcode.offset + k]
    BY <1>4, <2>1 DEF SourceByte
  <2> HIDE DEF data
  <2>3. data[k + 1] = before[call_id][opcode.offset + (k + 1) - 1]
    BY <1>5, <2>1
  <2> QED
    BY <2>1, <2>2, <2>3
<1>7. /\ Written(memory, before, TheCopy, opcode.length, Calls)
      /\ Logged(log, before, TheCopy, opcode.length)
      /\ TheCopy.dst_tag = RlcAcc => rlc_acc = Accumulated(before, TheCopy, opcode.length)
  BY <1>1, <1>4, DoneArrived DEF Laid
<1>8. memory = before
  <2>1. \A c \in Calls, a \in Addresses : memory[c][a] = before[c][a]
    BY <1>4, <1>7 DEF Written
  <2>2. memory \in [Calls -> [Addresses -> Bytes]] /\ before \in [Calls -> [Addresses -> Bytes]]
    BY <1>1 DEF TypeOK, Remembered
  <2>3. \A c \in Calls : memory[c] = before[c]
    BY <2>1, <2>2
  <2> QED
    BY <2>2, <2>3
<1>9. ASSUME opcode.name = "LOG"
      PROVE  DOMAIN log = 0 .. opcode.length - 1 /\ \A i \in DOMAIN log : log[i] = data[i + 1]
  <2> HIDE DEF data
  <2> QED
    BY <1>4, <1>6, <1>7, <1>9 DEF Logged
<1>10. ASSUME opcode.name = "SHA3"
       PROVE  rlc_acc = RLC(data)
  <2>1. TheCopy.dst_tag = RlcAcc
    BY <1>4, <1>10
  <2>2. ASSUME NEW k \in 1 .. opcode.length
        PROVE  data[k] = SourceByte(before, TheCopy, k - 1)
    <3>1. k - 1 \in 0 .. opcode.length - 1 /\ (k - 1) + 1 = k
      BY <1>3
    <3> HIDE DEF data
    <3> QED
      BY <1>6, <3>1
  <2>3. data = [k \in 1 .. opcode.length |-> data[k]]
    BY DEF Data
  <2> HIDE DEF data
  <2>4. data = [k \in 1 .. opcode.length |-> SourceByte(before, TheCopy, k - 1)]
    BY <2>2, <2>3
  <2> QED
    BY <1>7, <2>1, <2>4 DEF Accumulated
<1> QED
  BY <1>8, <1>9, <1>10

LEMMA InvSpends ==
  ASSUME Assumptions, Inv, Done, opcode.name = "DATACOPY" => PlainIdentity
  PROVE  counters = 0 .. rw_counter_offset - 1
<1>1. step = NoStep /\ counters = 0 .. copy_rwc_inc - 1 /\ todo = <<>>
  BY DEF Inv, IInv, Counted, Done
<1>2. CASE opcode.name # "DATACOPY"
  BY <1>1, <1>2 DEF rw_counter_offset
<1>3. CASE opcode.name = "DATACOPY"
  <2>1. PlainIdentity /\ opcode.name \in IdentityNames
    BY <1>3 DEF IdentityNames
  <2>2. context.call_data = opcode.call_data
    BY <2>1 DEF Inv, IInv, Bound
  <2>3. copy_rwc_inc = 4 * opcode.call_data.length
    BY <1>1, <2>1, <2>2 DEF Inv, Spent
  <2> QED
    BY <1>1, <1>3, <2>3 DEF rw_counter_offset
<1> QED
  BY <1>2, <1>3

\* The variables have their types in every state: what is copied anywhere is bytes, and
\* the ranges that calls hand on lie in memory (callop, return_revert, dataCopy).
THEOREM TypesHold == Spec => []TypeOK
<1>1. Inv => TypeOK
  BY DEF Inv, IInv
<1> QED
  BY <1>1, InitInv, StepInv, PTL DEF Spec

\* CALLDATACOPY, CODECOPY, RETURN and RETURNDATACOPY from offset 0 leave in memory what the
\* EVM copies, whatever the prover adds to the rows (calldatacopy, codecopy, return_revert,
\* returndatacopy, verify_step).
THEOREM BytesCopied == Spec => []MemoryCopied
<1>1. Inv => MemoryCopied
  BY AssumptionsHold, CopiedData, ReturnedData, ReturnDataCopiedFrom DEF MemoryCopied
<1> QED
  BY <1>1, InitInv, StepInv, PTL DEF Spec

\* LOG logs, and SHA3 hashes, the bytes of memory that their operands say, and neither
\* writes to memory (log, sha3, verify_step).
THEOREM BytesRead == Spec => []DataLoggedAndHashed
<1>1. Inv => DataLoggedAndHashed
  BY AssumptionsHold, DataRead DEF DataLoggedAndHashed
<1> QED
  BY <1>1, InitInv, StepInv, PTL DEF Spec

\* A step moves the counter of the rw table on by the rows that its copies have looked up,
\* each of another counter, and so does the identity precompile that is given room for its
\* input (copy_lookup, copy_rwc_inc, dataCopy).
THEOREM EveryCounterSpent == Spec => []CountersSpent
<1>1. Inv => CountersSpent
  BY AssumptionsHold, InvSpends DEF CountersSpent
<1> QED
  BY <1>1, InitInv, StepInv, PTL DEF Spec

\* The identity precompile, given the room it needs at the beginning of memory, returns its
\* input as it was before the CALL, if that lies behind this room (callop, dataCopy).
THEOREM IdentityIsIdentity == Spec => []IdentityReturnsInput
<1>1. Inv => IdentityReturnsInput
  BY AssumptionsHold, InputReturned DEF IdentityReturnsInput
<1> QED
  BY <1>1, InitInv, StepInv, PTL DEF Spec
=============================================================================
