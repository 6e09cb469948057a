--------------------------- MODULE BytecodeCircuit ---------------------------
(***************************************************************************)
(* The bytecode circuit (src/zkevm_specs/bytecode_circuit.py).  It unrolls *)
(* bytecodes into rows, a Header and then the Bytes, so that the EVM       *)
(* circuit can look up what stands at a position of a code and whether it  *)
(* is an opcode or the data of a PUSH.                                     *)
(*                                                                         *)
(* A behaviour lays the rows down from the first to the last, each checked *)
(* with the row before it, and closes the table with the checks of the     *)
(* last row.  A hash is represented by the code it is the hash of, an      *)
(* accumulator value_rlc by the bytes it has accumulated.                  *)
(*                                                                         *)
(* The tag of a row is a field element that no constraint restricts.  A    *)
(* row whose tag is neither Header nor Byte is not looked at, and what the *)
(* circuit asks of a row after it does not relate the two: such a Byte row *)
(* starts with any index, count of push data and accumulator.              *)
(***************************************************************************)
EXTENDS Integers, Sequences

CONSTANTS
  Bytes,      \* the bytes of the push table
  PushSize,   \* the push table: how many bytes of data follow an opcode
  Codes,      \* the codes of the keccak table
  MaxLength,  \* bound on the lengths and positions the prover may claim
  MaxHeight,  \* bound on the number of rows
  Claims(_)   \* bound: what the prover may put where a given value should stand

ConstantsAssumption ==
  /\ Bytes \subseteq Nat
  /\ PushSize \in [Bytes -> Nat]
  /\ Codes \subseteq Seq(Bytes) /\ <<>> \in Codes
  /\ MaxLength \in Nat
ASSUME ConstantsAssumption

VARIABLES
  rows,    \* the rows laid down so far
  closed   \* the last row has been checked too

vars == <<rows, closed>>

\* BytecodeFieldTag, and any value that is none.
Header == 1
Byte == 2
Other == 3

EMPTY_HASH == <<>>

\* What an accumulator holds that no row before it has accumulated: one value of
\* the prover's choice.
Unknown == -1

Lengths == 0 .. MaxLength

RowSet ==
  [tag : {Header, Byte, Other}, hash : Codes, index : Lengths, value : Bytes \cup Lengths,
   is_code : {0, 1}, push_data_left : Int, value_rlc : Seq(Bytes \cup {Unknown}),
   length : Lengths, push_data_size : Nat]

LastRow == rows[Len(rows)]

-----------------------------------------------------------------------------
(* The accumulator and the keccak table.                                   *)

\* The byte at distance i from the end of an accumulation, 0 before its start.
Digit(acc, i) == IF i < Len(acc) THEN acc[Len(acc) - i] ELSE 0

\* Two accumulations come to the same value if they differ in leading zeros.
SameRlc(a, b) ==
  \A i \in 0 .. (IF Len(a) < Len(b) THEN Len(b) ELSE Len(a)) : Digit(a, i) = Digit(b, i)

\* An accumulation that starts from a free value comes to whatever is looked up.
Free(acc) == acc # <<>> /\ acc[1] = Unknown

keccak_lookup(value_rlc, length, hash) ==
  hash \in Codes /\ Len(hash) = length /\ (Free(value_rlc) \/ SameRlc(hash, value_rlc))

-----------------------------------------------------------------------------
(* check_bytecode_row: the constraints on a row and the row after it.      *)

check_header(cur) == cur.value = cur.length /\ cur.index = 0

\* Faulty: is_code is not tied to the count of push data.
check_byte_unmarked(cur) ==
  cur.value \in Bytes /\ cur.push_data_size = PushSize[cur.value]

\* Faulty: a byte is code if it pushes data.
check_byte_pushing(cur) ==
  /\ cur.value \in Bytes /\ cur.push_data_size = PushSize[cur.value]
  /\ cur.is_code = 1 <=> cur.push_data_left = 0 \/ cur.push_data_size > 0

check_byte(cur) ==
  /\ cur.value \in Bytes /\ cur.push_data_size = PushSize[cur.value]
  /\ cur.is_code = 1 <=> cur.push_data_left = 0

header_to_byte(cur, next) ==
  /\ next.length = cur.length
  /\ next.index = 0
  /\ next.is_code = 1
  /\ next.hash = cur.hash
  /\ next.value_rlc = <<next.value>>

\* Faulty: the hash of an empty code is not checked.
header_to_header_any_hash(cur) == cur.length = 0

header_to_header(cur) == cur.length = 0 /\ cur.hash = EMPTY_HASH

byte_to_byte(cur, next) ==
  /\ next.length = cur.length
  /\ next.index = cur.index + 1
  /\ next.hash = cur.hash
  /\ next.value_rlc = Append(cur.value_rlc, next.value)
  /\ next.push_data_left = IF cur.is_code = 1 THEN cur.push_data_size
                                              ELSE cur.push_data_left - 1

\* Faulty: the length is not compared with the bytes there are.
byte_to_header_any_length(cur) ==
  keccak_lookup(cur.value_rlc, cur.length, cur.hash)

byte_to_header(cur) ==
  /\ cur.index + 1 = cur.length
  /\ keccak_lookup(cur.value_rlc, cur.length, cur.hash)

check_bytecode_row(cur, next) ==
  /\ cur.tag = Header => /\ check_header(cur)
                         /\ next.tag = Byte => header_to_byte(cur, next)
                         /\ next.tag = Header => header_to_header(cur)
  /\ cur.tag = Byte => /\ check_byte(cur)
                       /\ next.tag = Byte => byte_to_byte(cur, next)
                       /\ next.tag = Header => byte_to_header(cur)

\* The last row: neither its value nor its index is looked at.
check_last_row(cur) == cur.tag = Header /\ header_to_header(cur)

-----------------------------------------------------------------------------
(* Laying the rows down.                                                   *)

\* What may stand for a value in a column of lengths or positions.
Claimed(n) == Claims(n) \cap Lengths

\* The Headers the prover may put; the columns that only Bytes use are 0.
HeaderRows ==
  LET values(h) == UNION {{n} \X Claimed(n) : n \in Claimed(Len(h))}
  IN  UNION {{[tag |-> Header, hash |-> h, index |-> i, value |-> nv[2], is_code |-> 0,
               push_data_left |-> 0, value_rlc |-> <<>>, length |-> nv[1],
               push_data_size |-> 0] :
                i \in Claimed(0), nv \in values(h)} : h \in Codes}

\* A row of another tag; nothing looks at its other columns.
OtherRow ==
  [tag |-> Other, hash |-> EMPTY_HASH, index |-> 0, value |-> 0, is_code |-> 0,
   push_data_left |-> 0, value_rlc |-> <<>>, length |-> 0, push_data_size |-> 0]

\* The Bytes that may follow a row.  After a Header or a Byte, the index, the
\* accumulator and the count of push data are those that follow from cur, or those
\* of a first byte; no others pass.  After a row of another tag they are free.
ByteRows(cur) ==
  LET free       == cur.tag = Other
      indices    == IF free THEN Lengths ELSE {0, cur.index + 1} \cap Lengths
      lengths(h) == IF free THEN Claimed(Len(h)) ELSE {cur.length}
      lefts      == IF free THEN Claimed(0) ELSE {0, cur.push_data_size, cur.push_data_left - 1}
      rlcs(v)    == IF free THEN {<<Unknown>>} ELSE {<<v>>, Append(cur.value_rlc, v)}
  IN  UNION {{[tag |-> Byte, hash |-> h, index |-> i, value |-> v, is_code |-> c,
               push_data_left |-> d, value_rlc |-> acc, length |-> n,
               push_data_size |-> PushSize[v]] :
                i \in indices, c \in {0, 1}, d \in lefts, acc \in rlcs(v), n \in lengths(h)} :
             h \in Codes, v \in Bytes}

Init == rows = <<>> /\ closed = FALSE

\* q_first
FirstRow ==
  /\ rows = <<>>
  /\ \E row \in HeaderRows : rows' = <<row>>
  /\ UNCHANGED closed

AppendRow(row) ==
  /\ check_bytecode_row(LastRow, row)
  /\ rows' = Append(rows, row)
  /\ UNCHANGED closed

Open == ~closed /\ rows # <<>> /\ Len(rows) < MaxHeight

AppendHeader == Open /\ \E row \in HeaderRows : AppendRow(row)

AppendByte == Open /\ \E row \in ByteRows(LastRow) : AppendRow(row)

AppendOther == Open /\ AppendRow(OtherRow)

\* q_last
CloseTable ==
  /\ ~closed /\ rows # <<>>
  /\ check_last_row(LastRow)
  /\ closed' = TRUE
  /\ UNCHANGED rows

Next == FirstRow \/ AppendHeader \/ AppendByte \/ AppendOther \/ CloseTable

Spec == Init /\ [][Next]_vars

-----------------------------------------------------------------------------
(* Properties.                                                             *)

\* Type invariant; the count of push data, a field element, never wraps below 0
\* in a row that has been checked.
TypeOK ==
  /\ rows \in Seq(RowSet) /\ closed \in BOOLEAN
  /\ \A i \in DOMAIN rows : i < Len(rows) => rows[i].push_data_left >= 0

ByteOfItsCode(row) ==
  /\ row.length = Len(row.hash)
  /\ row.index < Len(row.hash)
  /\ row.value = row.hash[row.index + 1]

\* Between two Headers stand Bytes and nothing else.
CodeBetween(h, e) ==
  /\ h < e
  /\ rows[h].tag = Header /\ rows[e].tag = Header
  /\ \A i \in h + 1 .. e - 1 : rows[i].tag = Byte

\* Whatever the prover puts between two Headers, a lookup by hash and position
\* finds the byte of the code with that hash, although only the row that ends a
\* code is compared with its hash (check_bytecode_row_byte_to_header).
BytesOfCodes ==
  \A h, e \in DOMAIN rows : CodeBetween(h, e) =>
    \A i \in h + 1 .. e - 1 : ByteOfItsCode(rows[i])

\* Opcodes and push data alternate as the EVM reads them: the first byte of a
\* code is an opcode, and after an opcode come as many bytes of data as it
\* pushes, then an opcode.  A JUMP into push data finds no row (is_code).
OpcodesMarked ==
  \A h, e \in DOMAIN rows : CodeBetween(h, e) =>
    \A m \in h + 1 .. e - 1 :
      /\ m = h + 1 => rows[m].is_code = 1
      /\ \A i \in h + 1 .. m - 1 : rows[i].is_code = 1 =>
           /\ m - i <= PushSize[rows[i].value] => rows[m].is_code = 0
           /\ m - i = PushSize[rows[i].value] + 1 => rows[m].is_code = 1

\* A Header carries the length of its code, and all the bytes of the code stand
\* between it and the Header that comes next.
CodesComplete ==
  \A h, e \in DOMAIN rows : CodeBetween(h, e) =>
    /\ rows[h].value = Len(rows[h].hash)
    /\ e - h - 1 = Len(rows[h].hash)
    /\ \A i \in h + 1 .. e - 1 : rows[i].hash = rows[h].hash

\* Every Byte of an accepted table is the byte of its code: "If `tag` is `Byte`,
\* the rows contain a complete bytecode sequence" (specs/bytecode-proof.md).  A row
\* of another tag in front of a Byte, or after it, breaks it.
EveryByteOfItsCode ==
  closed => \A i \in DOMAIN rows : rows[i].tag = Byte => ByteOfItsCode(rows[i])

\* Every Header carries the length of its code, which is what the EVM circuit
\* looks up as the size of the code ("Length if it's a `Header` row",
\* specs/bytecode-proof.md).
LengthsOfCodes ==
  closed =>
    \A i \in DOMAIN rows : rows[i].tag = Header => rows[i].value = Len(rows[i].hash)
=============================================================================
