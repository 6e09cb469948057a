------------------------ MODULE BytecodeCircuitProofs ------------------------
(***************************************************************************)
(* Proofs about the bytecode circuit, for every push table, every keccak   *)
(* table and every table of the prover's choice, rows of other tags        *)
(* included.                                                               *)
(***************************************************************************)
EXTENDS BytecodeCircuit, SequenceTheorems, TLAPS

-----------------------------------------------------------------------------
(* The inductive invariant.  Rows are checked in pairs, so that what the   *)
(* last row claims is known only in part; what a code claims is known only *)
(* when the Header after it has been laid down.                            *)

\* What a row says of itself once the row after it is there.
RowChecked(i) ==
  /\ rows[i].tag = Header => rows[i].value = rows[i].length
  /\ rows[i].tag = Byte =>
       /\ rows[i].value \in Bytes
       /\ rows[i].push_data_size = PushSize[rows[i].value]
       /\ rows[i].is_code = 1 <=> rows[i].push_data_left = 0

\* Bytes and nothing else stand after the Header in row h, down to row i.
RunFrom(h, i) ==
  /\ h < i /\ rows[h].tag = Header
  /\ \A j \in h + 1 .. i : rows[j].tag = Byte

\* A Byte of such a run claims the code of its Header and has accumulated the
\* Bytes between.
Laid(h, i) ==
  /\ rows[i].hash = rows[h].hash /\ rows[i].length = rows[h].length
  /\ rows[i].index = i - h - 1
  /\ rows[i].value_rlc \in Seq(Bytes) /\ Len(rows[i].value_rlc) = i - h
  /\ \A j \in h + 1 .. i : rows[j].value = rows[i].value_rlc[j - h]

\* The count of push data below an opcode of the run.
PushCounted(h, i) ==
  /\ i = h + 1 => rows[i].is_code = 1
  /\ \A j \in h + 1 .. i - 1 :
       rows[j].is_code = 1 /\ i - j <= PushSize[rows[j].value] + 1
       => rows[i].push_data_left = PushSize[rows[j].value] + 1 - (i - j)

\* The count of push data of the last row, whose is_code is not checked yet.
LeftCounted(i) ==
  rows[i].push_data_left < 0 => rows[i].tag = Byte /\ rows[i].is_code = 1

\* What the Header in row e tells of the code laid before it.
CodeKnown(h, e) ==
  /\ rows[h].value = Len(rows[h].hash)
  /\ e - h - 1 = Len(rows[h].hash)
  /\ \A i \in h + 1 .. e - 1 : rows[i].hash = rows[h].hash /\ ByteOfItsCode(rows[i])

IInv ==
  /\ TypeOK
  /\ \A i \in DOMAIN rows : (i < Len(rows) => RowChecked(i)) /\ LeftCounted(i)
  /\ \A h, i \in DOMAIN rows : RunFrom(h, i) => Laid(h, i) /\ PushCounted(h, i)
  /\ \A h, e \in DOMAIN rows : CodeBetween(h, e) => CodeKnown(h, e)

-----------------------------------------------------------------------------
(* What the rows the prover may append are.                                *)

\* What AppendRow may lay down.
Offered(row) ==
  /\ row \in RowSet
  /\ row.tag # Byte => row.push_data_left = 0
  /\ row.tag = Byte => row.value \in Bytes
  /\ row.tag = Byte /\ LastRow.tag = Other => row.push_data_left \in Nat

LEMMA HeaderRowsTyped ==
  ASSUME ConstantsAssumption, NEW row \in HeaderRows
  PROVE  row \in RowSet /\ row.tag = Header /\ row.push_data_left = 0
<1>1. PICK h \in Codes : \E i \in Claimed(0), nv \in UNION {{n} \X Claimed(n) : n \in Claimed(Len(h))} :
        row = [tag |-> Header, hash |-> h, index |-> i, value |-> nv[2], is_code |-> 0,
               push_data_left |-> 0, value_rlc |-> <<>>, length |-> nv[1],
               push_data_size |-> 0]
  BY DEF HeaderRows
<1>2. PICK i \in Claimed(0), nv \in UNION {{n} \X Claimed(n) : n \in Claimed(Len(h))} :
        row = [tag |-> Header, hash |-> h, index |-> i, value |-> nv[2], is_code |-> 0,
               push_data_left |-> 0, value_rlc |-> <<>>, length |-> nv[1],
               push_data_size |-> 0]
  BY <1>1
<1>3. PICK n \in Claimed(Len(h)) : nv \in {n} \X Claimed(n)
  OBVIOUS
<1>4. nv[1] \in Lengths /\ nv[2] \in Lengths /\ i \in Lengths
  BY <1>3 DEF Claimed
<1> QED
  BY <1>2, <1>4 DEF RowSet, Header, Byte, Other

LEMMA ByteRowsTyped ==
  ASSUME ConstantsAssumption, NEW cur \in RowSet, NEW row \in ByteRows(cur)
  PROVE  /\ row \in RowSet /\ row.tag = Byte /\ row.value \in Bytes
         /\ cur.tag = Other => row.push_data_left \in Nat
<1> DEFINE indices == IF cur.tag = Other THEN Lengths ELSE {0, cur.index + 1} \cap Lengths
           lengths(h) == IF cur.tag = Other THEN Claimed(Len(h)) ELSE {cur.length}
           lefts == IF cur.tag = Other THEN Claimed(0)
                    ELSE {0, cur.push_data_size, cur.push_data_left - 1}
           rlcs(v) == IF cur.tag = Other THEN {<<Unknown>>}
                      ELSE {<<v>>, Append(cur.value_rlc, v)}
<1>0. PICK h \in Codes, v \in Bytes :
        \E i \in indices, c \in {0, 1}, d \in lefts, acc \in rlcs(v), n \in lengths(h) :
          row = [tag |-> Byte, hash |-> h, index |-> i, value |-> v, is_code |-> c,
                 push_data_left |-> d, value_rlc |-> acc, length |-> n,
                 push_data_size |-> PushSize[v]]
  BY DEF ByteRows
<1>1. PICK i \in indices, c \in {0, 1}, d \in lefts, acc \in rlcs(v), n \in lengths(h) :
        row = [tag |-> Byte, hash |-> h, index |-> i, value |-> v, is_code |-> c,
               push_data_left |-> d, value_rlc |-> acc, length |-> n,
               push_data_size |-> PushSize[v]]
  BY <1>0
<1>2. i \in Lengths /\ n \in Lengths /\ PushSize[v] \in Nat
  BY DEF ConstantsAssumption, RowSet, Claimed
<1>3. d \in Int /\ (cur.tag = Other => d \in Nat)
  BY DEF RowSet, Claimed, Lengths
<1>4. acc \in Seq(Bytes \cup {Unknown})
  <2> DEFINE Digits == Bytes \cup {Unknown}
  <2>1. v \in Digits /\ Unknown \in Digits
    OBVIOUS
  <2>2. cur.value_rlc \in Seq(Digits)
    BY DEF RowSet
  <2> HIDE DEF Digits
  <2>3. <<Unknown>> \in Seq(Digits) /\ <<v>> \in Seq(Digits)
    BY <2>1
  <2>4. Append(cur.value_rlc, v) \in Seq(Digits)
    BY <2>1, <2>2
  <2>5. acc = <<Unknown>> \/ acc = <<v>> \/ acc = Append(cur.value_rlc, v)
    OBVIOUS
  <2> QED
    BY <2>3, <2>4, <2>5 DEF Digits
<1> HIDE DEF indices, lengths, lefts, rlcs
<1> QED
  BY <1>1, <1>2, <1>3, <1>4 DEF RowSet

LEMMA OtherRowTyped ==
  ASSUME ConstantsAssumption
  PROVE  OtherRow \in RowSet /\ OtherRow.tag = Other /\ OtherRow.push_data_left = 0
<1>1. 0 \in Lengths /\ EMPTY_HASH \in Codes
  BY DEF ConstantsAssumption, Lengths, EMPTY_HASH
<1> QED
  BY <1>1 DEF OtherRow, RowSet, Other

\* The accumulation of as many bytes as the code has is the code.
LEMMA SameBytes ==
  ASSUME NEW a \in Seq(Bytes), NEW b \in Seq(Bytes), Len(a) = Len(b), SameRlc(a, b),
         NEW k \in 1 .. Len(a)
  PROVE  a[k] = b[k]
<1> DEFINE i == Len(a) - k
<1>1. i \in 0 .. Len(b) /\ i < Len(a) /\ Len(a) - i = k /\ Len(b) - i = k
  OBVIOUS
<1>2. Digit(a, i) = Digit(b, i)
  BY <1>1 DEF SameRlc
<1> QED
  BY <1>1, <1>2 DEF Digit

LEMMA NotFree ==
  ASSUME ConstantsAssumption, NEW acc \in Seq(Bytes)
  PROVE  ~Free(acc)
<1> SUFFICES ASSUME acc # <<>>
             PROVE  acc[1] # Unknown
  BY DEF Free
<1>1. acc[1] \in Bytes
  OBVIOUS
<1> QED
  BY <1>1 DEF ConstantsAssumption, Unknown

-----------------------------------------------------------------------------
(* A row is appended: first what becomes known of the rows already there.  *)

LEMMA LastRowChecked ==
  ASSUME ConstantsAssumption, IInv, rows # <<>>, NEW row \in RowSet,
         check_bytecode_row(LastRow, row)
  PROVE  /\ Len(rows) \in Nat \ {0} /\ DOMAIN rows = 1 .. Len(rows)
         /\ LastRow = rows[Len(rows)] /\ LastRow \in RowSet /\ rows \in Seq(RowSet)
         /\ rows[Len(rows)].push_data_left >= 0
         /\ \A i \in DOMAIN rows : RowChecked(i)
<1>1. rows \in Seq(RowSet) /\ Len(rows) \in Nat \ {0} /\ LastRow = rows[Len(rows)]
      /\ DOMAIN rows = 1 .. Len(rows)
  BY DEF IInv, TypeOK, LastRow
<1>2. LastRow \in RowSet
  BY <1>1
<1>3. RowChecked(Len(rows))
  BY <1>1 DEF check_bytecode_row, check_header, check_byte, RowChecked
<1>4. LeftCounted(Len(rows))
  BY <1>1 DEF IInv
<1>5. rows[Len(rows)].push_data_left >= 0
  BY <1>1, <1>2, <1>3, <1>4 DEF RowChecked, LeftCounted, RowSet
<1>6. \A i \in DOMAIN rows : RowChecked(i)
  BY <1>1, <1>3 DEF IInv
<1> QED
  BY <1>1, <1>2, <1>5, <1>6

LEMMA Appended ==
  ASSUME rows \in Seq(RowSet), NEW row \in RowSet, rows' = Append(rows, row)
  PROVE  /\ rows' \in Seq(RowSet) /\ Len(rows') = Len(rows) + 1
         /\ DOMAIN rows' = 1 .. Len(rows) + 1
         /\ rows'[Len(rows) + 1] = row
         /\ \A i \in 1 .. Len(rows) : rows'[i] = rows[i]
OBVIOUS

\* When a Header follows a run of Bytes, the keccak lookup tells what they are.
LEMMA EndOfCode ==
  ASSUME ConstantsAssumption, IInv, rows # <<>>, NEW row \in RowSet,
         check_bytecode_row(LastRow, row), row.tag = Header,
         NEW h \in DOMAIN rows, RunFrom(h, Len(rows))
  PROVE  CodeKnown(h, Len(rows) + 1)
<1> DEFINE L == Len(rows)
           code == rows[h].hash
<1>1. /\ L \in Nat \ {0} /\ DOMAIN rows = 1 .. L /\ LastRow = rows[L] /\ h \in 1 .. L - 1
      /\ \A i \in DOMAIN rows : RowChecked(i)
  BY LastRowChecked DEF RunFrom
<1>2. ASSUME NEW i \in h + 1 .. L
      PROVE  Laid(h, i) /\ rows[i].tag = Byte
  <2>1. i \in DOMAIN rows /\ RunFrom(h, i)
    BY <1>1 DEF RunFrom
  <2> QED
    BY <2>1 DEF IInv, RunFrom
<1>3. L \in h + 1 .. L
  BY <1>1
<1>4. Laid(h, L) /\ LastRow.tag = Byte
  BY <1>1, <1>2, <1>3
<1>5. /\ LastRow.index + 1 = LastRow.length
      /\ keccak_lookup(LastRow.value_rlc, LastRow.length, LastRow.hash)
  BY <1>4 DEF check_bytecode_row, byte_to_header, Header, Byte
<1>6. /\ code \in Seq(Bytes) /\ LastRow.value_rlc \in Seq(Bytes) /\ LastRow.hash = code
      /\ Len(LastRow.value_rlc) = L - h /\ LastRow.length = rows[h].length
      /\ LastRow.index = L - h - 1
  <2>1. LastRow.hash = code /\ code \in Codes
    BY <1>1, <1>4, <1>5 DEF Laid, keccak_lookup
  <2>2. code \in Seq(Bytes)
    BY <2>1 DEF ConstantsAssumption
  <2> QED
    BY <1>1, <1>4, <2>1, <2>2 DEF Laid
<1>7. Len(code) = LastRow.length /\ SameRlc(code, LastRow.value_rlc)
  BY <1>5, <1>6, NotFree DEF keccak_lookup
<1>8. Len(code) = L - h
  BY <1>1, <1>5, <1>6, <1>7
<1>9. rows[h].value = Len(code)
  <2>1. rows[h].tag = Header
    BY DEF RunFrom
  <2> QED
    BY <1>1, <1>6, <1>7, <2>1 DEF RowChecked
<1>10. ASSUME NEW i \in h + 1 .. L
       PROVE  rows[i].hash = code /\ ByteOfItsCode(rows[i])
  <2>1. /\ rows[i].hash = code /\ rows[i].length = Len(code) /\ rows[i].index = i - h - 1
    BY <1>2, <1>6, <1>7 DEF Laid
  <2>2. rows[i].value = LastRow.value_rlc[i - h]
    BY <1>1, <1>4 DEF Laid
  <2>3. i - h \in 1 .. Len(code)
    BY <1>1, <1>8
  <2>4. code[i - h] = LastRow.value_rlc[i - h]
    BY <2>3, <1>6, <1>7, <1>8, SameBytes
  <2>5. rows[i].index + 1 = i - h /\ rows[i].index < Len(code)
    <3>1. i \in Int /\ h \in Int /\ Len(code) \in Int
      BY <1>1, <1>6
    <3> HIDE DEF code, L
    <3> QED
      BY <3>1, <2>1, <2>3
  <2> QED
    BY <2>1, <2>2, <2>4, <2>5 DEF ByteOfItsCode
<1>11. L + 1 - h - 1 = Len(code) /\ h + 1 .. L + 1 - 1 = h + 1 .. L
  BY <1>1, <1>8
<1> QED
  BY <1>9, <1>10, <1>11 DEF CodeKnown

-----------------------------------------------------------------------------
(* What is known of the row appended.                                      *)

\* A Byte right after the Header.
LEMMA FirstByte ==
  ASSUME ConstantsAssumption, IInv, rows # <<>>, NEW row \in RowSet, AppendRow(row),
         row.tag = Byte, row.value \in Bytes, LastRow.tag = Header,
         NEW L, L = Len(rows), NEW n, n = L + 1
  PROVE  Laid(L, n)' /\ PushCounted(L, n)'
<1>1. L \in Nat \ {0} /\ LastRow = rows[L] /\ rows \in Seq(RowSet) /\ DOMAIN rows = 1 .. L
  BY LastRowChecked DEF AppendRow
<1>2. rows'[n] = row /\ rows'[L] = LastRow
  <2>1. L \in 1 .. L
    BY <1>1
  <2> QED
    BY <1>1, <2>1, Appended DEF AppendRow
<1>3. /\ row.index = 0 /\ row.hash = LastRow.hash /\ row.length = LastRow.length
      /\ row.value_rlc = <<row.value>> /\ row.is_code = 1
  BY DEF AppendRow, check_bytecode_row, header_to_byte, Header, Byte
<1>4. row.value_rlc \in Seq(Bytes) /\ Len(row.value_rlc) = 1 /\ row.value = row.value_rlc[1]
  BY <1>3
<1>5. n - L = 1 /\ n - L - 1 = 0 /\ L + 1 .. n = {n} /\ L + 1 .. n - 1 = {}
  BY <1>1
<1>6. Laid(L, n)'
  <2>1. rows'[n].hash = rows'[L].hash /\ rows'[n].length = rows'[L].length
        /\ rows'[n].index = n - L - 1
        /\ rows'[n].value_rlc \in Seq(Bytes) /\ Len(rows'[n].value_rlc) = n - L
    BY <1>2, <1>3, <1>4, <1>5
  <2>2. \A j \in L + 1 .. n : rows'[j].value = rows'[n].value_rlc[j - L]
    BY <1>2, <1>4, <1>5
  <2> QED
    BY <2>1, <2>2 DEF Laid
<1>7. PushCounted(L, n)'
  BY <1>2, <1>3, <1>5 DEF PushCounted
<1> QED
  BY <1>6, <1>7

\* A Byte after a Byte of the run.
LEMMA NextByteLaid ==
  ASSUME ConstantsAssumption, IInv, rows # <<>>, NEW row \in RowSet, AppendRow(row),
         row.tag = Byte, row.value \in Bytes, NEW h \in DOMAIN rows, RunFrom(h, Len(rows)),
         NEW L, L = Len(rows), NEW n, n = L + 1
  PROVE  Laid(h, n)'
<1> DEFINE acc == LastRow.value_rlc
<1>1. /\ L \in Nat \ {0} /\ LastRow = rows[L] /\ rows \in Seq(RowSet) /\ DOMAIN rows = 1 .. L
      /\ h \in 1 .. L - 1
  BY LastRowChecked DEF AppendRow, RunFrom
<1>2. rows'[n] = row /\ \A i \in 1 .. L : rows'[i] = rows[i]
  BY <1>1, Appended DEF AppendRow
<1>3. Laid(h, L) /\ LastRow.tag = Byte
  BY <1>1 DEF IInv, RunFrom
<1>4. /\ row.index = LastRow.index + 1 /\ row.hash = LastRow.hash
      /\ row.length = LastRow.length /\ row.value_rlc = Append(acc, row.value)
  BY <1>3 DEF AppendRow, check_bytecode_row, byte_to_byte, Header, Byte
<1>5. /\ LastRow.hash = rows[h].hash /\ LastRow.length = rows[h].length
      /\ LastRow.index = L - h - 1 /\ acc \in Seq(Bytes) /\ Len(acc) = L - h
      /\ \A j \in h + 1 .. L : rows[j].value = acc[j - h]
  BY <1>1, <1>3 DEF Laid
<1>6. /\ row.value_rlc \in Seq(Bytes) /\ Len(row.value_rlc) = L - h + 1
      /\ row.value_rlc[L - h + 1] = row.value
      /\ \A k \in 1 .. L - h : row.value_rlc[k] = acc[k]
  <2>1. row.value \in Bytes
    OBVIOUS
  <2> HIDE DEF acc
  <2> QED
    BY <2>1, <1>4, <1>5, AppendProperties
<1>7. row.index = n - h - 1 /\ L - h + 1 = n - h
  BY <1>1, <1>4, <1>5
<1>8. rows'[h] = rows[h]
  BY <1>1, <1>2
<1>9. ASSUME NEW j \in h + 1 .. n
      PROVE  rows'[j].value = row.value_rlc[j - h]
  <2>1. CASE j = n
    BY <2>1, <1>2, <1>6, <1>7
  <2>2. CASE j # n
    <3>1. j \in h + 1 .. L /\ j - h \in 1 .. L - h
      BY <2>2, <1>1
    <3>2. rows'[j] = rows[j]
      BY <3>1, <1>1, <1>2
    <3> QED
      BY <3>1, <3>2, <1>5, <1>6
  <2> QED
    BY <2>1, <2>2
<1> QED
  BY <1>2, <1>4, <1>5, <1>6, <1>7, <1>8, <1>9 DEF Laid

LEMMA NextByteCounted ==
  ASSUME ConstantsAssumption, IInv, rows # <<>>, NEW row \in RowSet, AppendRow(row),
         row.tag = Byte, NEW h \in DOMAIN rows, RunFrom(h, Len(rows)),
         NEW L, L = Len(rows), NEW n, n = L + 1
  PROVE  PushCounted(h, n)'
<1>1. /\ L \in Nat \ {0} /\ LastRow = rows[L] /\ rows \in Seq(RowSet) /\ DOMAIN rows = 1 .. L
      /\ h \in 1 .. L - 1 /\ \A i \in DOMAIN rows : RowChecked(i)
  BY LastRowChecked DEF AppendRow, RunFrom
<1>2. rows'[n] = row /\ \A i \in 1 .. L : rows'[i] = rows[i]
  BY <1>1, Appended DEF AppendRow
<1>3. PushCounted(h, L) /\ RowChecked(L) /\ LastRow.tag = Byte
  BY <1>1 DEF IInv, RunFrom
<1>4. row.push_data_left = IF LastRow.is_code = 1 THEN LastRow.push_data_size
                                                  ELSE LastRow.push_data_left - 1
  BY <1>3 DEF AppendRow, check_bytecode_row, byte_to_byte, Header, Byte
<1>5. ASSUME NEW j \in h + 1 .. n - 1, rows[j].is_code = 1,
             n - j <= PushSize[rows[j].value] + 1
      PROVE  row.push_data_left = PushSize[rows[j].value] + 1 - (n - j)
  <2> DEFINE size == PushSize[rows[j].value]
  <2>1. j \in h + 1 .. L /\ j \in DOMAIN rows /\ rows[j].tag = Byte
    BY <1>1 DEF RunFrom
  <2>2. size \in Nat
    BY <2>1, <1>1 DEF RowChecked, ConstantsAssumption
  <2>3. CASE j = L
    BY <2>3, <2>2, <1>1, <1>3, <1>4, <1>5 DEF RowChecked
  <2>4. CASE j # L
    <3>1. j \in h + 1 .. L - 1 /\ L - j <= size
      <4>1. n - j <= size + 1
        BY <1>5
      <4> HIDE DEF size
      <4> QED
        BY <4>1, <2>1, <2>2, <2>4, <1>1
    <3>2. LastRow.push_data_left = size + 1 - (L - j)
      <4>1. L - j <= size + 1
        BY <3>1, <2>2, <1>1
      <4> QED
        BY <4>1, <3>1, <1>1, <1>3, <1>5 DEF PushCounted
    <3>3. LastRow.push_data_left # 0
      <4> HIDE DEF size
      <4> QED
        BY <3>1, <3>2, <2>1, <2>2, <1>1
    <3>4. LastRow.is_code # 1
      BY <3>3, <1>1, <1>3 DEF RowChecked
    <3> HIDE DEF size
    <3> QED
      BY <3>1, <3>2, <3>4, <2>1, <2>2, <1>1, <1>4 DEF size
  <2> QED
    BY <2>3, <2>4
<1>6. \A j \in h + 1 .. n - 1 : rows'[j] = rows[j]
  BY <1>1, <1>2
<1>7. n # h + 1
  BY <1>1
<1> QED
  BY <1>2, <1>5, <1>6, <1>7 DEF PushCounted

LEMMA NewLeftCounted ==
  ASSUME ConstantsAssumption, IInv, rows # <<>>, NEW row, Offered(row), AppendRow(row),
         NEW L, L = Len(rows), NEW n, n = L + 1
  PROVE  LeftCounted(n)'
<1>1. /\ LastRow = rows[L] /\ LastRow \in RowSet /\ LastRow.push_data_left >= 0
      /\ RowChecked(L) /\ rows \in Seq(RowSet)
  BY LastRowChecked DEF AppendRow, Offered
<1>2. rows'[n] = row
  BY <1>1, Appended DEF AppendRow, Offered
<1>3. row \in RowSet /\ LastRow.tag \in {Header, Byte, Other}
  BY <1>1 DEF RowSet, Offered
<1>4. CASE row.tag # Byte
  BY <1>2, <1>4 DEF LeftCounted, Offered
<1>5. CASE row.tag = Byte /\ LastRow.tag = Header
  BY <1>2, <1>5 DEF AppendRow, check_bytecode_row, header_to_byte, LeftCounted
<1>6. CASE row.tag = Byte /\ LastRow.tag = Byte
  <2>1. row.push_data_left = IF LastRow.is_code = 1 THEN LastRow.push_data_size
                                                    ELSE LastRow.push_data_left - 1
    BY <1>6 DEF AppendRow, check_bytecode_row, byte_to_byte, Header, Byte
  <2>2. LastRow.push_data_size \in Nat /\ LastRow.push_data_left \in Int
    BY <1>1 DEF RowSet
  <2>3. ~(row.push_data_left < 0)
    BY <1>1, <1>6, <2>1, <2>2 DEF RowChecked
  <2> QED
    BY <2>3, <1>2 DEF LeftCounted
<1>7. CASE row.tag = Byte /\ LastRow.tag = Other
  <2>1. ~(row.push_data_left < 0)
    BY <1>7 DEF Offered
  <2> QED
    BY <2>1, <1>2 DEF LeftCounted
<1> QED
  BY <1>3, <1>4, <1>5, <1>6, <1>7

-----------------------------------------------------------------------------
(* The invariant.                                                          *)

LEMMA FirstRowInv ==
  ASSUME ConstantsAssumption, IInv, FirstRow
  PROVE  IInv'
<1>1. PICK row \in HeaderRows : rows' = <<row>>
  BY DEF FirstRow
<1>2. row \in RowSet /\ row.tag = Header /\ row.push_data_left = 0
  BY HeaderRowsTyped
<1>3. rows' \in Seq(RowSet) /\ Len(rows') = 1 /\ DOMAIN rows' = {1} /\ rows'[1] = row
  BY <1>1, <1>2
<1>4. TypeOK'
  BY <1>3 DEF FirstRow, IInv, TypeOK
<1>5. (\A i \in DOMAIN rows : (i < Len(rows) => RowChecked(i)) /\ LeftCounted(i))'
  BY <1>2, <1>3 DEF LeftCounted
<1>6. (\A h, i \in DOMAIN rows : ~RunFrom(h, i) /\ ~CodeBetween(h, i))'
  BY <1>3 DEF RunFrom, CodeBetween
<1> QED
  BY <1>4, <1>5, <1>6 DEF IInv

\* What relates two rows stays as it is.
LEMMA OldRowsKept ==
  ASSUME NEW L \in Nat, \A k \in 1 .. L : rows'[k] = rows[k],
         NEW h \in 1 .. L, NEW i \in 1 .. L
  PROVE  /\ RowChecked(i)' <=> RowChecked(i)
         /\ LeftCounted(i)' <=> LeftCounted(i)
         /\ RunFrom(h, i)' <=> RunFrom(h, i)
         /\ CodeBetween(h, i)' <=> CodeBetween(h, i)
         /\ Laid(h, i) => Laid(h, i)'
         /\ PushCounted(h, i) => PushCounted(h, i)'
         /\ CodeKnown(h, i) => CodeKnown(h, i)'
<1>1. rows'[h] = rows[h] /\ rows'[i] = rows[i]
  OBVIOUS
<1>2. \A j \in h + 1 .. i : j \in 1 .. L /\ rows'[j] = rows[j]
  OBVIOUS
<1>3. \A j \in h + 1 .. i - 1 : j \in 1 .. L /\ rows'[j] = rows[j]
  OBVIOUS
<1>4. (RowChecked(i)' <=> RowChecked(i)) /\ (LeftCounted(i)' <=> LeftCounted(i))
  BY <1>1 DEF RowChecked, LeftCounted
<1>5. RunFrom(h, i)' <=> RunFrom(h, i)
  BY <1>1, <1>2 DEF RunFrom
<1>6. CodeBetween(h, i)' <=> CodeBetween(h, i)
  BY <1>1, <1>3 DEF CodeBetween
<1>7. Laid(h, i) => Laid(h, i)'
  BY <1>1, <1>2 DEF Laid
<1>8. PushCounted(h, i) => PushCounted(h, i)'
  BY <1>1, <1>3 DEF PushCounted
<1>9. CodeKnown(h, i) => CodeKnown(h, i)'
  BY <1>1, <1>3 DEF CodeKnown
<1> QED
  BY <1>4, <1>5, <1>6, <1>7, <1>8, <1>9

LEMMA RunsKnown ==
  ASSUME ConstantsAssumption, IInv, rows # <<>>, NEW row, Offered(row), AppendRow(row),
         NEW h \in 1 .. Len(rows) + 1, NEW i \in 1 .. Len(rows) + 1, RunFrom(h, i)'
  PROVE  Laid(h, i)' /\ PushCounted(h, i)'
<1> DEFINE L == Len(rows)
<1>1. /\ L \in Nat \ {0} /\ LastRow = rows[L] /\ rows \in Seq(RowSet) /\ DOMAIN rows = 1 .. L
      /\ row \in RowSet
  BY LastRowChecked DEF AppendRow, Offered
<1>2. rows'[L + 1] = row /\ \A j \in 1 .. L : rows'[j] = rows[j]
  BY <1>1, Appended DEF AppendRow
<1>3. h \in 1 .. L /\ h < i /\ rows'[h].tag = Header /\ rows'[i].tag = Byte
  BY <1>1 DEF RunFrom
<1>4. CASE i \in 1 .. L
  <2>1. RunFrom(h, i)
    BY <1>1, <1>2, <1>3, <1>4, OldRowsKept
  <2>2. Laid(h, i) /\ PushCounted(h, i)
    BY <2>1, <1>1, <1>3, <1>4 DEF IInv
  <2> QED
    BY <2>2, <1>1, <1>2, <1>3, <1>4, OldRowsKept
<1>5. CASE i = L + 1
  <2>1. row.tag = Byte /\ row.value \in Bytes
    BY <1>2, <1>3, <1>5 DEF Offered
  <2>2. CASE h = L
    <3>1. LastRow.tag = Header
      BY <2>2, <1>1, <1>2, <1>3
    <3> HIDE DEF L
    <3> QED
      BY <3>1, <2>1, <2>2, <1>1, <1>5, FirstByte DEF L
  <2>3. CASE h # L
    <3>1. RunFrom(h, L)
      <4>1. h < L /\ rows[h].tag = Header
        <5>1. h \in 1 .. L /\ L \in Nat
          BY <1>1, <1>3
        <5>2. h < L
          BY <2>3, <5>1
        <5>3. rows'[h] = rows[h]
          BY <1>2, <5>1
        <5> QED
          BY <5>2, <5>3, <1>3
      <4>2. \A j \in h + 1 .. L : j \in h + 1 .. i /\ rows'[j] = rows[j]
        BY <1>1, <1>2, <1>5
      <4> QED
        BY <4>1, <4>2 DEF RunFrom
    <3> QED
      BY <3>1, <2>1, <1>1, <1>3, <1>5, NextByteLaid, NextByteCounted
  <2> QED
    BY <2>2, <2>3
<1> QED
  BY <1>1, <1>4, <1>5

LEMMA CodesKnown ==
  ASSUME ConstantsAssumption, IInv, rows # <<>>, NEW row, Offered(row), AppendRow(row),
         NEW h \in 1 .. Len(rows) + 1, NEW e \in 1 .. Len(rows) + 1, CodeBetween(h, e)'
  PROVE  CodeKnown(h, e)'
<1> DEFINE L == Len(rows)
<1>1. /\ L \in Nat \ {0} /\ LastRow = rows[L] /\ rows \in Seq(RowSet) /\ DOMAIN rows = 1 .. L
      /\ row \in RowSet /\ \A i \in DOMAIN rows : RowChecked(i)
  BY LastRowChecked DEF AppendRow, Offered
<1>2. rows'[L + 1] = row /\ \A j \in 1 .. L : rows'[j] = rows[j]
  BY <1>1, Appended DEF AppendRow
<1>3. h \in 1 .. L /\ h < e /\ rows'[h].tag = Header /\ rows'[e].tag = Header
  BY <1>1 DEF CodeBetween
<1>4. CASE e \in 1 .. L
  <2>1. CodeBetween(h, e)
    BY <1>1, <1>2, <1>3, <1>4, OldRowsKept
  <2>2. CodeKnown(h, e)
    BY <2>1, <1>1, <1>3, <1>4 DEF IInv
  <2> QED
    BY <2>2, <1>1, <1>2, <1>3, <1>4, OldRowsKept
<1>5. CASE e = L + 1
  <2>1. row.tag = Header
    BY <1>2, <1>3, <1>5
  <2>2. CodeKnown(h, e)
    <3>1. CASE h = L
      <4>1. LastRow.tag = Header
        BY <3>1, <1>1, <1>2, <1>3
      <4>2. LastRow.length = 0 /\ LastRow.hash = <<>>
        BY <4>1, <2>1 DEF AppendRow, check_bytecode_row, header_to_header, EMPTY_HASH
      <4>3. LastRow.value = 0
        BY <4>1, <4>2, <1>1 DEF RowChecked
      <4>4. e - h - 1 = 0 /\ h + 1 .. e - 1 = {}
        BY <3>1, <1>1, <1>5
      <4> QED
        BY <4>2, <4>3, <4>4, <3>1, <1>1 DEF CodeKnown
    <3>2. CASE h # L
      <4>1. RunFrom(h, L)
        <5>1. h < L /\ rows[h].tag = Header
          <6>1. h \in 1 .. L /\ L \in Nat
            BY <1>1, <1>3
          <6>2. h < L
            BY <3>2, <6>1
          <6>3. rows'[h] = rows[h]
            BY <1>2, <6>1
          <6> QED
            BY <6>2, <6>3, <1>3
        <5>2. \A j \in h + 1 .. L : j \in h + 1 .. e - 1 /\ rows'[j] = rows[j]
          BY <1>1, <1>2, <1>5
        <5> QED
          BY <5>1, <5>2 DEF RunFrom, CodeBetween
      <4> QED
        BY <4>1, <2>1, <1>1, <1>3, <1>5, EndOfCode DEF AppendRow
    <3> QED
      BY <3>1, <3>2
  <2>3. rows'[h] = rows[h] /\ \A j \in h + 1 .. e - 1 : rows'[j] = rows[j]
    BY <1>1, <1>2, <1>3, <1>5
  <2> QED
    BY <2>2, <2>3 DEF CodeKnown
<1> QED
  BY <1>1, <1>4, <1>5

LEMMA AppendRowInv ==
  ASSUME ConstantsAssumption, IInv, Open, NEW row, Offered(row), AppendRow(row)
  PROVE  IInv'
<1> DEFINE L == Len(rows)
<1>1. /\ rows # <<>> /\ rows \in Seq(RowSet) /\ row \in RowSet
      /\ L \in Nat \ {0} /\ DOMAIN rows = 1 .. L /\ rows[L].push_data_left >= 0
      /\ \A i \in DOMAIN rows : RowChecked(i)
  BY LastRowChecked DEF AppendRow, Open, Offered
<1>2. rows' \in Seq(RowSet) /\ Len(rows') = L + 1 /\ DOMAIN rows' = 1 .. L + 1
      /\ \A i \in 1 .. L : rows'[i] = rows[i]
  BY <1>1, Appended DEF AppendRow
<1>3. TypeOK'
  <2>1. ASSUME NEW i \in 1 .. L
        PROVE  rows'[i].push_data_left >= 0
    <3>1. CASE i = L
      BY <3>1, <1>1, <1>2
    <3>2. CASE i # L
      <4>1. i < L
        <5>1. L \in Nat
          BY <1>1
        <5> QED
          BY <3>2, <5>1
      <4>2. i \in DOMAIN rows /\ rows'[i] = rows[i]
        BY <1>1, <1>2
      <4> QED
        BY <4>1, <4>2 DEF IInv, TypeOK
    <3> QED
      BY <3>1, <3>2
  <2>2. \A i \in DOMAIN rows' : i < Len(rows') => i \in 1 .. L
    BY <1>1, <1>2
  <2> QED
    BY <1>2, <2>1, <2>2 DEF AppendRow, IInv, TypeOK
<1>4. (\A i \in DOMAIN rows : (i < Len(rows) => RowChecked(i)) /\ LeftCounted(i))'
  <2>1. ASSUME NEW i \in 1 .. L
        PROVE  RowChecked(i)' /\ LeftCounted(i)'
    BY <1>1, <1>2, OldRowsKept DEF IInv
  <2>2. \A n : n = L + 1 => LeftCounted(n)'
    BY <1>1, NewLeftCounted
  <2>3. \A i \in 1 .. L + 1 : (i < L + 1 => i \in 1 .. L) /\ (i \in 1 .. L \/ i = L + 1)
    BY <1>1
  <2> HIDE DEF L
  <2> QED
    BY <1>2, <2>1, <2>2, <2>3
<1>5. (\A h, i \in DOMAIN rows : RunFrom(h, i) => Laid(h, i) /\ PushCounted(h, i))'
  BY <1>1, <1>2, RunsKnown
<1>6. (\A h, e \in DOMAIN rows : CodeBetween(h, e) => CodeKnown(h, e))'
  BY <1>1, <1>2, CodesKnown
<1> QED
  BY <1>3, <1>4, <1>5, <1>6 DEF IInv

LEMMA SameRows ==
  ASSUME IInv, rows' = rows, closed' \in BOOLEAN
  PROVE  IInv'
<1>1. TypeOK'
  BY DEF IInv, TypeOK
<1> QED
  BY <1>1 DEF IInv, RowChecked, LeftCounted, RunFrom, Laid, PushCounted, CodeBetween, CodeKnown

\* The strengthened invariant holds of every table the constraints let pass, and
\* of every part of one.
THEOREM Inductive == Spec => []IInv
<1> USE ConstantsAssumption
<1>1. Init => IInv
  <2> SUFFICES ASSUME Init
               PROVE  IInv
    OBVIOUS
  <2>1. rows \in Seq(RowSet) /\ DOMAIN rows = {} /\ closed = FALSE
    BY DEF Init
  <2> QED
    BY <2>1 DEF IInv, TypeOK
<1>2. IInv /\ [Next]_vars => IInv'
  <2> SUFFICES ASSUME IInv, [Next]_vars
               PROVE  IInv'
    OBVIOUS
  <2>1. CASE FirstRow
    BY <2>1, FirstRowInv
  <2>2. CASE AppendHeader
    <3>1. PICK row \in HeaderRows : AppendRow(row)
      BY <2>2 DEF AppendHeader
    <3>2. Offered(row)
      BY HeaderRowsTyped DEF Header, Byte, Offered
    <3> QED
      BY <2>2, <3>1, <3>2, AppendRowInv DEF AppendHeader
  <2>3. CASE AppendByte
    <3>1. LastRow \in RowSet
      BY <2>3 DEF AppendByte, Open, IInv, TypeOK, LastRow
    <3>2. PICK row \in ByteRows(LastRow) : AppendRow(row)
      BY <2>3 DEF AppendByte
    <3>3. Offered(row)
      BY <3>1, ByteRowsTyped DEF Offered
    <3> QED
      BY <2>3, <3>2, <3>3, AppendRowInv DEF AppendByte
  <2>4. CASE AppendOther
    <3>1. Offered(OtherRow)
      BY OtherRowTyped DEF Offered, Byte, Other
    <3> QED
      BY <2>4, <3>1, AppendRowInv DEF AppendOther
  <2>5. CASE CloseTable
    BY <2>5, SameRows DEF CloseTable
  <2>6. CASE UNCHANGED vars
    BY <2>6, SameRows DEF vars, IInv, TypeOK
  <2> QED
    BY <2>1, <2>2, <2>3, <2>4, <2>5, <2>6 DEF Next
<1> QED
  BY <1>1, <1>2, PTL DEF Spec

-----------------------------------------------------------------------------
(* The properties.                                                         *)

\* The rows keep their types, and the count of push data does not wrap.
THEOREM TypeCorrect == Spec => []TypeOK
<1>1. IInv => TypeOK
  BY DEF IInv
<1> QED
  BY <1>1, Inductive, PTL

\* Between two Headers of a table, with rows of other tags anywhere else, stands
\* at each position of a code the byte of that code.
THEOREM BytesAreOfCodes == Spec => []BytesOfCodes
<1>1. IInv => BytesOfCodes
  BY DEF IInv, BytesOfCodes, CodeKnown
<1> QED
  BY <1>1, Inductive, PTL

\* The opcodes between two Headers are those the EVM reads.
THEOREM OpcodesAreMarked == Spec => []OpcodesMarked
<1>1. IInv => OpcodesMarked
  <2> SUFFICES ASSUME IInv, NEW h \in DOMAIN rows, NEW e \in DOMAIN rows, CodeBetween(h, e),
                      NEW m \in h + 1 .. e - 1
               PROVE  /\ m = h + 1 => rows[m].is_code = 1
                      /\ \A i \in h + 1 .. m - 1 : rows[i].is_code = 1 =>
                           /\ m - i <= PushSize[rows[i].value] => rows[m].is_code = 0
                           /\ m - i = PushSize[rows[i].value] + 1 => rows[m].is_code = 1
    BY DEF OpcodesMarked
  <2>1. /\ Len(rows) \in Nat /\ DOMAIN rows = 1 .. Len(rows) /\ rows \in Seq(RowSet)
        /\ m \in DOMAIN rows /\ m < Len(rows)
    BY DEF IInv, TypeOK
  <2>2. RunFrom(h, m)
    BY <2>1 DEF CodeBetween, RunFrom
  <2>3. PushCounted(h, m)
    BY <2>1, <2>2 DEF IInv
  <2>4. /\ RowChecked(m) /\ rows[m].tag = Byte /\ rows[m].is_code \in {0, 1}
    <3>1. \A i \in DOMAIN rows : i < Len(rows) => RowChecked(i)
      BY DEF IInv
    <3>2. RowChecked(m)
      BY <3>1, <2>1
    <3>3. rows[m] \in RowSet
      BY <2>1
    <3>4. m \in h + 1 .. m
      <4>1. h \in Int
        BY <2>1
      <4> QED
        BY <4>1
    <3>5. rows[m].tag = Byte
      BY <3>4, <2>2 DEF RunFrom
    <3> QED
      BY <3>2, <3>3, <3>5 DEF RowSet
  <2>5. ASSUME NEW i \in h + 1 .. m - 1, rows[i].is_code = 1
        PROVE  /\ m - i <= PushSize[rows[i].value] => rows[m].is_code = 0
               /\ m - i = PushSize[rows[i].value] + 1 => rows[m].is_code = 1
    <3>1. i \in DOMAIN rows /\ i < Len(rows) /\ i \in Nat /\ m \in Nat /\ rows[i].tag = Byte
      BY <2>1, <2>2 DEF RunFrom
    <3>2. PushSize[rows[i].value] \in Nat
      BY <3>1, ConstantsAssumption DEF IInv, RowChecked, ConstantsAssumption
    <3>3. m - i <= PushSize[rows[i].value] + 1 =>
            rows[m].push_data_left = PushSize[rows[i].value] + 1 - (m - i)
      BY <2>3, <2>5 DEF PushCounted
    <3>4. rows[m].is_code = 1 <=> rows[m].push_data_left = 0
      BY <2>4 DEF RowChecked
    <3> QED
      BY <2>4, <3>1, <3>2, <3>3, <3>4, SMTT(30)
  <2> QED
    BY <2>3, <2>5 DEF PushCounted
<1> QED
  BY <1>1, Inductive, PTL

\* Between two Headers stands the whole code of the first, and its length is right.
THEOREM CodesAreComplete == Spec => []CodesComplete
<1>1. IInv => CodesComplete
  BY DEF IInv, CodesComplete, CodeKnown
<1> QED
  BY <1>1, Inductive, PTL
=============================================================================
