-------------------------- MODULE PublicInputsProofs --------------------------
(***************************************************************************)
(* Proofs about the public input circuit, for any number of transactions   *)
(* and bytes: its type correctness; that its call data rows implement      *)
(* TxCalldata; that they attribute the bytes of the leading transactions   *)
(* right when the public costs are (LeadingCalldata); and that the rows of *)
(* the witness builder pass (BuilderPasses). Last, of the withdrawals the  *)
(* same circuit lays, that an accepted block names the trie of exactly the *)
(* withdrawals in the public bytes, for any number of them.                *)
(***************************************************************************)
EXTENDS PublicInputs, Withdrawals, FiniteSetTheorems, SequenceTheorems, WellFoundedInduction, TLAPS

-----------------------------------------------------------------------------
(* The inductive invariant.                                                *)

\* Transactions come in order, and padding after them.
Ordered ==
  \A i, j \in DOMAIN rows : i < j =>
    /\ rows[i].tx_id = Padding => rows[j].tx_id = Padding
    /\ rows[j].tx_id # Padding => rows[i].tx_id <= rows[j].tx_id

\* A transaction with bytes has a last one.
HasLast ==
  \A t \in Ids : RowsOf(t) # {} => \E i \in RowsOf(t) : \A j \in RowsOf(t) : j <= i

\* A byte marked as its transaction's last has none of the same after it.
FinalsAreLast ==
  \A i, j \in DOMAIN rows : i < j /\ rows[i].tx_id # Padding /\ rows[i].is_final = 1 =>
    rows[j].tx_id # rows[i].tx_id

\* What is accepted is complete.
Complete == accepted => Len(rows) = MaxCalldata

IInv == TypeOK /\ Ordered /\ HasLast /\ FinalsAreLast /\ Complete

\* The bytes a row may cost.
LEMMA GasCostType == \A byte \in Bytes : gas_cost(byte) \in Nat
BY DEF gas_cost

\* The rows a prover may lay down are rows, as long as the row before is one.
LEMMA RowsAfterType ==
  ASSUME ConstantsAssumption, NEW cur, cur.index \in Nat, cur.calldata_gas_cost \in Nat,
         NEW value \in Bytes, NEW row \in RowsAfter(cur, value)
  PROVE  row \in RowSet /\ row.value = value
<1>1. gas_cost(value) \in Nat
  BY GasCostType
<1>2. PICK t \in Ids \cup {Padding}, i \in {0, cur.index + 1},
           g \in {0, gas_cost(value), cur.calldata_gas_cost + gas_cost(value)}, f \in {0, 1} :
        row = [tx_id |-> t, index |-> i, value |-> value, calldata_gas_cost |-> g, is_final |-> f]
  BY DEF RowsAfter
<1>3. i \in Nat /\ g \in Nat
  BY <1>1
<1> QED
  BY <1>2, <1>3 DEF RowSet

\* What a row that is laid down is, the first one or one that check_row accepts
\* after the last.
Laid(row) ==
  /\ row \in RowSet /\ Len(rows) < MaxCalldata
  /\ row.value = public.values[Len(rows) + 1]
  /\ rows' = Append(rows, row)
  /\ rows = <<>> => check_calldata_start(row)
  /\ rows # <<>> => check_row(LastRow, row)
  /\ UNCHANGED <<public, accepted>>

LEMMA LaidDown ==
  ASSUME ConstantsAssumption, TypeOK, FirstRow \/ AppendRow
  PROVE  \E row : Laid(row)
<1>1. CASE FirstRow
  <2>1. rows = <<>> /\ Len(rows) < MaxCalldata /\ rows' = Append(rows, rows'[1])
    BY <1>1 DEF FirstRow, ConstantsAssumption
  <2>2. PICK row \in RowsAfter(NoRow, public.values[1]) : check_calldata_start(row) /\ rows' = <<row>>
    BY <1>1 DEF FirstRow
  <2>3. public.values[1] \in Bytes
    BY DEF TypeOK, PublicSet, ConstantsAssumption
  <2>4. row \in RowSet /\ row.value = public.values[1]
    BY <2>2, <2>3, RowsAfterType DEF NoRow
  <2> QED
    BY <1>1, <2>1, <2>2, <2>4 DEF FirstRow, Laid
<1>2. CASE AppendRow
  <2>1. rows # <<>> /\ Len(rows) < MaxCalldata /\ LastRow \in RowSet
    BY <1>2 DEF AppendRow, TypeOK, LastRow
  <2>2. PICK row \in RowsAfter(LastRow, public.values[Len(rows) + 1]) :
          check_row(LastRow, row) /\ rows' = Append(rows, row)
    BY <1>2 DEF AppendRow
  <2>3. public.values[Len(rows) + 1] \in Bytes
    BY <2>1 DEF TypeOK, PublicSet, ConstantsAssumption
  <2>4. LastRow.index \in Nat /\ LastRow.calldata_gas_cost \in Nat
    BY <2>1 DEF RowSet
  <2>5. row \in RowSet /\ row.value = public.values[Len(rows) + 1]
    BY <2>2, <2>3, <2>4, RowsAfterType
  <2> QED
    BY <1>2, <2>1, <2>2, <2>5 DEF AppendRow, Laid
<1> QED
  BY <1>1, <1>2

\* The rows after one is laid down.
LEMMA RowsLaid ==
  ASSUME TypeOK, NEW row, Laid(row)
  PROVE  /\ rows' \in Seq(RowSet)
         /\ Len(rows') = Len(rows) + 1
         /\ \A i \in DOMAIN rows : rows'[i] = rows[i]
         /\ rows'[Len(rows) + 1] = row
         /\ DOMAIN rows = 1 .. Len(rows)
         /\ DOMAIN rows' = 1 .. Len(rows) + 1
         /\ \A i \in DOMAIN rows : rows[i] \in RowSet
         /\ rows # <<>> => Len(rows) \in DOMAIN rows
BY DEF TypeOK, Laid

\* The rows of a transaction after a row is laid down.
LEMMA RowsOfLaid ==
  ASSUME TypeOK, NEW row, Laid(row), NEW t
  PROVE  RowsOf(t)' = IF row.tx_id = t THEN RowsOf(t) \cup {Len(rows) + 1} ELSE RowsOf(t)
<1>1. /\ RowsOf(t)' = {i \in 1 .. Len(rows) + 1 : rows'[i].tx_id = t}
      /\ RowsOf(t) = {i \in 1 .. Len(rows) : rows[i].tx_id = t}
  BY RowsLaid DEF RowsOf
<1>2. /\ \A i \in 1 .. Len(rows) : rows'[i] = rows[i]
      /\ rows'[Len(rows) + 1] = row
      /\ Len(rows) \in Nat
  BY RowsLaid DEF TypeOK
<1>3. 1 .. Len(rows) + 1 = (1 .. Len(rows)) \cup {Len(rows) + 1}
  BY <1>2
<1>4. ASSUME NEW i
      PROVE  i \in RowsOf(t)' <=> i \in RowsOf(t) \/ (i = Len(rows) + 1 /\ row.tx_id = t)
  <2>1. CASE i \in 1 .. Len(rows)
    <3>1. i # Len(rows) + 1
      BY <1>2, <2>1
    <3> QED
      BY <1>1, <1>2, <1>3, <2>1, <3>1
  <2>2. CASE i = Len(rows) + 1
    <3>1. i \notin 1 .. Len(rows)
      BY <1>2, <2>2
    <3> QED
      BY <1>1, <1>2, <1>3, <2>2, <3>1
  <2>3. CASE i \notin 1 .. Len(rows) /\ i # Len(rows) + 1
    BY <1>1, <1>3, <2>3
  <2> QED
    BY <2>1, <2>2, <2>3
<1> HIDE DEF RowsOf
<1> QED
  BY <1>4

\* Which constraints check_row puts on a row of another transaction.
LEMMA NextOfOther ==
  ASSUME NEW cur, NEW next, check_row(cur, next), cur.tx_id # Padding, next.tx_id # cur.tx_id
  PROVE  check_next_tx(cur, next)
BY DEF check_row

LEMMA IdsAreIntegers ==
  /\ Ids \subseteq Int /\ Padding \notin Ids /\ Padding \in Int
  /\ \A row \in RowSet : row.tx_id \in Int
<1>1. Ids \subseteq Int /\ Padding \notin Ids /\ Padding \in Int
  BY ConstantsAssumption DEF ConstantsAssumption, Ids, Txs, Padding
<1>2. \A row \in RowSet : row.tx_id \in Ids \cup {Padding}
  BY DEF RowSet
<1> QED
  BY <1>1, <1>2

\* A difference in the u16 table is no negative one.
LEMMA Apart ==
  ASSUME NEW a \in Int, NEW b \in Int, a - b - 1 \in fixed_u16_table
  PROVE  b <= a
BY DEF fixed_u16_table

\* A row is laid down in the order of the transactions.
LEMMA LaidInOrder ==
  ASSUME ConstantsAssumption, TypeOK, Ordered, NEW row, Laid(row), NEW i \in DOMAIN rows
  PROVE  /\ rows[i].tx_id = Padding => row.tx_id = Padding
         /\ row.tx_id # Padding => rows[i].tx_id <= row.tx_id
<1>1. rows # <<>> /\ Len(rows) \in DOMAIN rows /\ DOMAIN rows = 1 .. Len(rows)
      /\ LastRow \in RowSet /\ rows[i] \in RowSet /\ row \in RowSet
  BY RowsLaid DEF Laid, LastRow
<1>2. check_row(LastRow, row)
  BY <1>1 DEF Laid
<1>3. /\ LastRow.tx_id = Padding => row.tx_id = Padding
      /\ row.tx_id # Padding => LastRow.tx_id <= row.tx_id
  <2>1. LastRow.tx_id \in Int /\ row.tx_id \in Int
    BY <1>1, IdsAreIntegers
  <2>2. CASE LastRow.tx_id = Padding
    <3>1. row.tx_id = Padding
      BY <1>2, <2>2 DEF check_row, check_padding
    <3> QED
      BY <3>1
  <2>3. CASE LastRow.tx_id # Padding /\ row.tx_id = LastRow.tx_id
    BY <2>1, <2>3
  <2>4. CASE LastRow.tx_id # Padding /\ row.tx_id # LastRow.tx_id
    <3>1. row.tx_id # Padding => row.tx_id - LastRow.tx_id - 1 \in fixed_u16_table
      BY <1>2, <2>4, NextOfOther DEF check_next_tx
    <3>2. row.tx_id # Padding => LastRow.tx_id <= row.tx_id
      BY <2>1, <3>1, Apart
    <3> QED
      BY <2>4, <3>2
  <2> QED
    BY <2>2, <2>3, <2>4
<1>4. /\ rows[i].tx_id = Padding => LastRow.tx_id = Padding
      /\ LastRow.tx_id # Padding => rows[i].tx_id <= LastRow.tx_id
  <2>1. CASE i = Len(rows)
    <3>1. LastRow.tx_id \in Int
      BY <1>1, IdsAreIntegers
    <3> QED
      BY <2>1, <3>1 DEF LastRow
  <2>2. CASE i < Len(rows)
    BY <1>1, <2>2 DEF Ordered, LastRow
  <2> QED
    BY <1>1, <2>1, <2>2
<1>5. LastRow.tx_id \in Int /\ row.tx_id \in Int /\ rows[i].tx_id \in Int
  BY <1>1, IdsAreIntegers
<1> QED
  BY <1>3, <1>4, <1>5

LEMMA InitIInv == Init => IInv
<1> SUFFICES ASSUME Init PROVE IInv
  OBVIOUS
<1>1. rows = <<>> /\ accepted = FALSE /\ public \in PublicSet
  BY DEF Init
<1>2. TypeOK
  <2>1. rows \in Seq(RowSet) /\ Len(rows) = 0 /\ DOMAIN rows = {}
    BY <1>1
  <2>2. MaxCalldata >= 0
    BY ConstantsAssumption DEF ConstantsAssumption
  <2> QED
    BY <1>1, <2>1, <2>2 DEF TypeOK
<1>3. Ordered /\ HasLast /\ FinalsAreLast /\ Complete
  BY <1>1 DEF Ordered, HasLast, FinalsAreLast, RowsOf, Complete
<1> QED
  BY <1>2, <1>3 DEF IInv

LEMMA LaidIInv ==
  ASSUME IInv, NEW row, Laid(row)
  PROVE  IInv'
<1> USE ConstantsAssumption
<1>1. TypeOK /\ Ordered /\ HasLast /\ FinalsAreLast
  BY DEF IInv
<1>2. TypeOK'
  <2>1. public' \in PublicSet /\ accepted' \in BOOLEAN
    BY <1>1 DEF TypeOK, Laid
  <2>2. rows' \in Seq(RowSet) /\ Len(rows') <= MaxCalldata
    BY <1>1, RowsLaid DEF Laid, TypeOK, ConstantsAssumption
  <2>3. ASSUME NEW i \in DOMAIN rows', rows'[i].tx_id = Padding, i < Len(rows')
        PROVE  rows'[i].calldata_gas_cost = 0 /\ rows'[i + 1].tx_id = Padding
    <3>1. i \in DOMAIN rows /\ rows'[i] = rows[i]
      BY <1>1, <2>3, RowsLaid
    <3>2. CASE i < Len(rows)
      <4>1. i + 1 \in DOMAIN rows /\ rows'[i + 1] = rows[i + 1]
        BY <1>1, <3>1, <3>2, RowsLaid
      <4> QED
        BY <1>1, <2>3, <3>1, <3>2, <4>1 DEF TypeOK
    <3>3. CASE i = Len(rows)
      <4>1. rows # <<>> /\ rows[i] = LastRow /\ rows'[i + 1] = row
        BY <1>1, <3>1, <3>3, RowsLaid DEF LastRow
      <4>2. check_row(LastRow, row)
        BY <4>1 DEF Laid
      <4> QED
        BY <2>3, <3>1, <4>1, <4>2 DEF check_row, check_padding
    <3> QED
      BY <1>1, <3>1, <3>2, <3>3, RowsLaid
  <2> QED
    BY <2>1, <2>2, <2>3 DEF TypeOK
<1>3. Ordered'
  <2> SUFFICES ASSUME NEW i \in DOMAIN rows', NEW j \in DOMAIN rows', i < j
               PROVE  /\ rows'[i].tx_id = Padding => rows'[j].tx_id = Padding
                      /\ rows'[j].tx_id # Padding => rows'[i].tx_id <= rows'[j].tx_id
    BY DEF Ordered
  <2>1. i \in DOMAIN rows /\ rows'[i] = rows[i]
    BY <1>1, RowsLaid
  <2>2. CASE j \in DOMAIN rows
    BY <1>1, <2>1, <2>2, RowsLaid DEF Ordered
  <2>3. CASE j \notin DOMAIN rows
    <3>1. rows'[j] = row
      BY <1>1, <2>3, RowsLaid
    <3> QED
      BY <1>1, <2>1, <3>1, LaidInOrder
  <2> QED
    BY <2>2, <2>3
<1>4. HasLast'
  <2> SUFFICES ASSUME NEW t \in Ids, RowsOf(t)' # {}
               PROVE  \E i \in RowsOf(t)' : \A j \in RowsOf(t)' : j <= i
    BY DEF HasLast
  <2>1. CASE row.tx_id = t
    <3>1. Len(rows) + 1 \in RowsOf(t)'
      BY <1>1, <2>1, RowsOfLaid
    <3>2. \A j \in RowsOf(t)' : j <= Len(rows) + 1
      BY <1>1, RowsLaid DEF RowsOf
    <3> QED
      BY <3>1, <3>2
  <2>2. CASE row.tx_id # t
    <3>1. RowsOf(t)' = RowsOf(t)
      BY <1>1, <2>2, RowsOfLaid
    <3> QED
      BY <1>1, <3>1 DEF HasLast
  <2> QED
    BY <2>1, <2>2
<1>5. FinalsAreLast'
  <2> SUFFICES ASSUME NEW i \in DOMAIN rows', NEW j \in DOMAIN rows', i < j,
                      rows'[i].tx_id # Padding, rows'[i].is_final = 1,
                      rows'[j].tx_id = rows'[i].tx_id
               PROVE  FALSE
    BY DEF FinalsAreLast
  <2>1. i \in DOMAIN rows /\ rows'[i] = rows[i]
    BY <1>1, RowsLaid
  <2>2. CASE j \in DOMAIN rows
    BY <1>1, <2>1, <2>2, RowsLaid DEF FinalsAreLast
  <2>3. CASE j \notin DOMAIN rows
    <3>1. rows'[j] = row /\ rows # <<>> /\ Len(rows) \in DOMAIN rows /\ DOMAIN rows = 1 .. Len(rows)
      BY <1>1, <2>1, <2>3, RowsLaid
    <3>2. LastRow.tx_id # Padding
      BY <1>1, <2>1, <3>1, LaidInOrder DEF LastRow
    <3>3. LastRow.tx_id = row.tx_id
      <4>1. rows[i].tx_id <= LastRow.tx_id /\ LastRow.tx_id <= row.tx_id
        <5>1. LastRow.tx_id <= row.tx_id
          BY <1>1, <2>1, <3>1, LaidInOrder DEF LastRow
        <5>2. CASE i < Len(rows)
          BY <1>1, <2>1, <3>1, <3>2, <5>1, <5>2 DEF Ordered, LastRow
        <5>3. CASE i = Len(rows)
          BY <2>1, <3>1, <5>1, <5>3 DEF LastRow
        <5> QED
          BY <2>1, <3>1, <5>2, <5>3
      <4>2. LastRow \in RowSet /\ row \in RowSet
        BY <1>1, <3>1, RowsLaid DEF LastRow, Laid
      <4>3. LastRow.tx_id \in Int /\ row.tx_id \in Int
        BY <4>2, IdsAreIntegers
      <4> QED
        BY <2>1, <3>1, <4>1, <4>3
    <3>4. LastRow.is_final = 0
      BY <3>1, <3>2, <3>3 DEF Laid, check_row, check_same_tx
    <3>5. CASE i < Len(rows)
      BY <1>1, <2>1, <3>1, <3>3, <3>5 DEF FinalsAreLast, LastRow
    <3>6. CASE i = Len(rows)
      BY <2>1, <3>4, <3>6 DEF LastRow
    <3> QED
      BY <2>1, <3>1, <3>5, <3>6
  <2> QED
    BY <2>2, <2>3
<1>6. Complete'
  BY <1>1 DEF IInv, Complete, Laid, TypeOK
<1> QED
  BY <1>2, <1>3, <1>4, <1>5, <1>6 DEF IInv

LEMMA NextIInv ==
  ASSUME IInv, [Next]_vars
  PROVE  IInv'
<1> USE ConstantsAssumption
<1>1. CASE FirstRow \/ AppendRow
  <2>1. PICK row : Laid(row)
    BY <1>1, LaidDown DEF IInv
  <2> QED
    BY <2>1, LaidIInv
<1>2. CASE Accept
  BY <1>2 DEF Accept, IInv, TypeOK, Ordered, HasLast, FinalsAreLast, Complete, RowsOf
<1>3. CASE UNCHANGED vars
  BY <1>3 DEF vars, IInv, TypeOK, Ordered, HasLast, FinalsAreLast, Complete, RowsOf
<1> QED
  BY <1>1, <1>2, <1>3 DEF Next

\* IInv holds of every call data section that can be laid down.
THEOREM Inductive == Spec => []IInv
<1>1. Init => IInv
  BY InitIInv
<1>2. IInv /\ [Next]_vars => IInv'
  BY NextIInv
<1> QED
  BY <1>1, <1>2, PTL DEF Spec

\* The rows of the public input circuit are rows, however many there are, and call
\* data comes before padding.
THEOREM TypeCorrect == Spec => []TypeOK
<1>1. IInv => TypeOK
  BY DEF IInv
<1> QED
  BY <1>1, Inductive, PTL

-----------------------------------------------------------------------------
(* The call data rows implement TxCalldata.                                *)

\* The values TxCalldata's variables have in a state.
Count == [t \in Ids |-> IF RowsOf(t) = {} THEN 0 ELSE rows[LastRowOf(t)].index + 1]

Charged ==
  [t \in Ids |-> IF RowsOf(t) = {} THEN 0 ELSE rows[LastRowOf(t)].calldata_gas_cost]

Claims ==
  [t \in Txs |-> [length |-> public.CallDataLength[t], cost |-> public.CallDataGasCost[t]]]

\* LastRowOf is the last row of a transaction that has one.
LEMMA LastRowOfIsLast ==
  ASSUME TypeOK, HasLast, NEW t \in Ids, RowsOf(t) # {}
  PROVE  LastRowOf(t) \in RowsOf(t) /\ \A j \in RowsOf(t) : j <= LastRowOf(t)
BY DEF HasLast, LastRowOf

LEMMA LastRowOfUnique ==
  ASSUME TypeOK, NEW t, NEW i \in RowsOf(t), \A j \in RowsOf(t) : j <= i
  PROVE  LastRowOf(t) = i
<1>1. RowsOf(t) \subseteq Nat
  BY DEF RowsOf, TypeOK
<1>2. LastRowOf(t) \in RowsOf(t) /\ \A j \in RowsOf(t) : j <= LastRowOf(t)
  BY DEF LastRowOf
<1>3. LastRowOf(t) <= i /\ i <= LastRowOf(t)
  BY <1>2
<1> QED
  BY <1>1, <1>2, <1>3

\* A row with a transaction of the block or beyond takes the next index and adds
\* its cost.
LEMMA LaidOnTop ==
  ASSUME IInv, NEW row, Laid(row), row.tx_id # Padding
  PROVE  /\ row.index = Count[row.tx_id]
         /\ row.calldata_gas_cost = Charged[row.tx_id] + gas_cost(row.value)
         /\ \A u \in Ids : u > row.tx_id => RowsOf(u) = {}
<1> USE ConstantsAssumption
<1>1. TypeOK /\ Ordered /\ HasLast /\ row \in RowSet /\ row.tx_id \in Ids
  BY DEF IInv, Laid, RowSet
<1>2. ASSUME NEW u \in Ids, u > row.tx_id
      PROVE  RowsOf(u) = {}
  BY <1>1, <1>2, LaidInOrder, IdsAreIntegers DEF RowsOf
<1>3. CASE rows = <<>> \/ LastRow.tx_id # row.tx_id
  <2>1. row.index = 0 /\ row.calldata_gas_cost = gas_cost(row.value)
    <3>1. CASE rows = <<>>
      BY <3>1 DEF Laid, check_calldata_start
    <3>2. CASE rows # <<>>
      <4>1. LastRow.tx_id # Padding
        <5>1. Len(rows) \in DOMAIN rows
          BY <1>1, <3>2, RowsLaid
        <5> QED
          BY <1>1, <5>1, LaidInOrder DEF LastRow
      <4> QED
        <5>1. check_next_tx(LastRow, row)
          BY <1>3, <3>2, <4>1, NextOfOther DEF Laid
        <5> QED
          BY <5>1 DEF check_next_tx
    <3> QED
      BY <3>1, <3>2
  <2>2. RowsOf(row.tx_id) = {}
    <3> SUFFICES ASSUME NEW i \in RowsOf(row.tx_id) PROVE FALSE
      OBVIOUS
    <3>1. i \in DOMAIN rows /\ rows[i].tx_id = row.tx_id /\ rows # <<>>
          /\ Len(rows) \in DOMAIN rows /\ DOMAIN rows = 1 .. Len(rows)
      BY <1>1, RowsLaid DEF RowsOf
    <3>2. LastRow.tx_id <= row.tx_id /\ LastRow.tx_id # Padding
      BY <1>1, <3>1, LaidInOrder DEF LastRow
    <3>3. rows[i].tx_id <= LastRow.tx_id
      <4>1. i < Len(rows)
        BY <1>3, <3>1 DEF LastRow
      <4> QED
        BY <1>1, <3>1, <3>2, <4>1 DEF Ordered, LastRow
    <3>4. LastRow.tx_id \in Int /\ row.tx_id \in Int /\ rows[i].tx_id \in Int
      <4>1. LastRow \in RowSet /\ rows[i] \in RowSet
        BY <1>1, <3>1, RowsLaid DEF LastRow
      <4> QED
        BY <1>1, <4>1, IdsAreIntegers
    <3> QED
      BY <1>3, <3>1, <3>2, <3>3, <3>4
  <2>3. Count[row.tx_id] = 0 /\ Charged[row.tx_id] = 0
    BY <1>1, <2>2 DEF Count, Charged
  <2>4. gas_cost(row.value) \in Nat
    BY <1>1, GasCostType DEF RowSet
  <2> QED
    BY <1>2, <2>1, <2>3, <2>4
<1>4. CASE rows # <<>> /\ LastRow.tx_id = row.tx_id
  <2>1. /\ row.index = LastRow.index + 1
        /\ row.calldata_gas_cost = LastRow.calldata_gas_cost + gas_cost(row.value)
    BY <1>4 DEF Laid, check_row, check_same_tx
  <2>2. Len(rows) \in RowsOf(row.tx_id) /\ \A j \in RowsOf(row.tx_id) : j <= Len(rows)
    BY <1>1, <1>4, RowsLaid DEF RowsOf, LastRow
  <2>3. LastRowOf(row.tx_id) = Len(rows)
    BY <1>1, <2>2, LastRowOfUnique
  <2>4. Count[row.tx_id] = LastRow.index + 1 /\ Charged[row.tx_id] = LastRow.calldata_gas_cost
    BY <1>1, <2>2, <2>3 DEF Count, Charged, LastRow
  <2> QED
    BY <1>2, <2>1, <2>4
<1> QED
  BY <1>3, <1>4

\* Laying down a row changes the transaction it is of, and no other.
LEMMA LaidCounts ==
  ASSUME IInv, NEW row, Laid(row)
  PROVE  /\ row.tx_id = Padding => Count' = Count /\ Charged' = Charged /\ Looked' = Looked
         /\ row.tx_id # Padding =>
              /\ Count' = [Count EXCEPT ![row.tx_id] = row.index + 1]
              /\ Charged' = [Charged EXCEPT ![row.tx_id] = row.calldata_gas_cost]
              /\ Looked' = Looked \cup {<<row.tx_id, row.index, row.value>>}
<1> USE ConstantsAssumption
<1>1. TypeOK /\ Ordered /\ HasLast /\ TypeOK' /\ row \in RowSet /\ Padding \notin Ids
  BY LaidIInv DEF IInv, Laid, Ids, Txs, Padding, ConstantsAssumption
<1>2. ASSUME NEW t \in Ids, t # row.tx_id
      PROVE  Count'[t] = Count[t] /\ Charged'[t] = Charged[t]
  <2>1. RowsOf(t)' = RowsOf(t)
    BY <1>1, <1>2, RowsOfLaid
  <2>2. LastRowOf(t)' = LastRowOf(t)
    BY <2>1 DEF LastRowOf
  <2>3. RowsOf(t) # {} => rows'[LastRowOf(t)] = rows[LastRowOf(t)]
    <3>1. RowsOf(t) # {} => LastRowOf(t) \in DOMAIN rows
      BY <1>1, LastRowOfIsLast DEF RowsOf
    <3> QED
      BY <1>1, <3>1, RowsLaid
  <2> QED
    BY <2>1, <2>2, <2>3 DEF Count, Charged
<1>3. ASSUME row.tx_id # Padding
      PROVE  /\ row.tx_id \in Ids
             /\ Count'[row.tx_id] = row.index + 1 /\ Charged'[row.tx_id] = row.calldata_gas_cost
  <2>1. row.tx_id \in Ids
    BY <1>1, <1>3 DEF RowSet
  <2>2. Len(rows) + 1 \in RowsOf(row.tx_id)' /\ \A j \in RowsOf(row.tx_id)' : j <= Len(rows) + 1
    BY <1>1, RowsLaid DEF RowsOf
  <2>3. LastRowOf(row.tx_id)' = Len(rows) + 1
    <3>1. RowsOf(row.tx_id)' \subseteq Nat
      BY <1>1 DEF RowsOf, TypeOK
    <3>2. /\ LastRowOf(row.tx_id)' \in RowsOf(row.tx_id)'
          /\ \A j \in RowsOf(row.tx_id)' : j <= LastRowOf(row.tx_id)'
      BY <2>2 DEF LastRowOf
    <3>3. LastRowOf(row.tx_id)' <= Len(rows) + 1 /\ Len(rows) + 1 <= LastRowOf(row.tx_id)'
      BY <2>2, <3>2
    <3> QED
      BY <2>2, <3>1, <3>2, <3>3
  <2>4. rows'[Len(rows) + 1] = row
    BY <1>1, RowsLaid
  <2> QED
    BY <2>1, <2>2, <2>3, <2>4 DEF Count, Charged
<1>4. /\ row.tx_id = Padding => Looked' = Looked
      /\ row.tx_id # Padding => Looked' = Looked \cup {<<row.tx_id, row.index, row.value>>}
  <2> DEFINE D == {j \in DOMAIN rows : rows[j].tx_id \in Ids}
  <2>1. D' = IF row.tx_id = Padding THEN D ELSE D \cup {Len(rows) + 1}
    BY <1>1, <1>3, RowsLaid
  <2>2. \A i \in D : rows'[i] = rows[i]
    BY <1>1, RowsLaid
  <2>3. rows'[Len(rows) + 1] = row
    BY <1>1, RowsLaid
  <2>4. /\ Looked = {<<rows[i].tx_id, rows[i].index, rows[i].value>> : i \in D}
        /\ Looked' = {<<rows'[i].tx_id, rows'[i].index, rows'[i].value>> : i \in D'}
    BY DEF Looked
  <2> HIDE DEF D
  <2> QED
    BY <2>1, <2>2, <2>3, <2>4
<1>5. /\ Count = [t \in Ids |-> Count[t]] /\ Count' = [t \in Ids |-> Count'[t]]
      /\ Charged = [t \in Ids |-> Charged[t]] /\ Charged' = [t \in Ids |-> Charged'[t]]
  BY DEF Count, Charged
<1> HIDE DEF Count, Charged
<1>6. row.tx_id = Padding => Count' = Count /\ Charged' = Charged
  BY <1>1, <1>2, <1>5
<1>7. row.tx_id # Padding =>
        /\ Count' = [Count EXCEPT ![row.tx_id] = row.index + 1]
        /\ Charged' = [Charged EXCEPT ![row.tx_id] = row.calldata_gas_cost]
  BY <1>2, <1>3, <1>5
<1> QED
  BY <1>4, <1>6, <1>7

\* The cost found for a transaction is what all its bytes cost.
LEMMA CostFound ==
  ASSUME IInv, NEW t \in Txs, check_tx_table(t)
  PROVE  Claims[t].cost = IF Claims[t].length = 0 THEN 0 ELSE Charged[t]
<1> USE ConstantsAssumption
<1>1. TypeOK /\ FinalsAreLast /\ t \in Ids /\ t # Padding
  BY DEF IInv, Txs, Ids, Padding, ConstantsAssumption
<1>2. Claims[t].cost = public.CallDataGasCost[t] /\ Claims[t].length = public.CallDataLength[t]
  BY DEF Claims
<1>3. CASE public.CallDataLength[t] = 0
  BY <1>2, <1>3 DEF check_tx_table
<1>4. CASE public.CallDataLength[t] # 0
  <2>1. PICK i \in DOMAIN rows : /\ rows[i].tx_id = t
                                 /\ rows[i].is_final = 1
                                 /\ rows[i].calldata_gas_cost = public.CallDataGasCost[t]
    BY <1>4 DEF check_tx_table
  <2>2. i \in RowsOf(t) /\ \A j \in RowsOf(t) : j <= i
    <3>1. DOMAIN rows = 1 .. Len(rows)
      BY <1>1 DEF TypeOK
    <3> QED
      BY <1>1, <2>1, <3>1 DEF FinalsAreLast, RowsOf
  <2>3. LastRowOf(t) = i
    BY <1>1, <2>2, LastRowOfUnique
  <2> QED
    BY <1>1, <1>2, <1>4, <2>1, <2>2, <2>3 DEF Charged
<1> QED
  BY <1>3, <1>4

LEMMA InitRefines == Init => Calldata!Init
<1> SUFFICES ASSUME Init PROVE Calldata!Init
  OBVIOUS
<1>1. rows = <<>> /\ accepted = FALSE /\ public \in PublicSet
  BY DEF Init
<1>2. Claims \in [Txs -> [length : Nat, cost : Nat]]
  BY <1>1 DEF Claims, PublicSet
<1>3. \A t \in Ids : RowsOf(t) = {}
  BY <1>1 DEF RowsOf
<1>4. Looked = {}
  BY <1>1 DEF Looked
<1> QED
  BY <1>1, <1>2, <1>3, <1>4 DEF Calldata!Init, Claims

LEMMA LaidRefines ==
  ASSUME IInv, ~accepted, NEW row, Laid(row)
  PROVE  [Calldata!Next]_(Calldata!vars)
<1> USE ConstantsAssumption
<1>1. public' = public /\ accepted' = accepted /\ row \in RowSet
  BY DEF Laid
<1>2. CASE row.tx_id = Padding
  <2>1. Count' = Count /\ Charged' = Charged /\ Looked' = Looked
    BY <1>2, LaidCounts
  <2> QED
    BY <1>1, <2>1 DEF Calldata!vars, Count, Charged
<1>3. CASE row.tx_id # Padding
  <2>1. row.tx_id \in Ids /\ row.value \in Bytes
    BY <1>1, <1>3 DEF RowSet
  <2>2. Calldata!Cost(row.value) = gas_cost(row.value)
    BY DEF Calldata!Cost, gas_cost
  <2>3. /\ Count' = [Count EXCEPT ![row.tx_id] = row.index + 1]
        /\ Charged' = [Charged EXCEPT ![row.tx_id] = row.calldata_gas_cost]
        /\ Looked' = Looked \cup {<<row.tx_id, row.index, row.value>>}
    BY <1>3, LaidCounts
  <2>4. /\ row.index = Count[row.tx_id]
        /\ row.calldata_gas_cost = Charged[row.tx_id] + gas_cost(row.value)
        /\ \A u \in Ids : u > row.tx_id => RowsOf(u) = {}
    BY <1>3, LaidOnTop
  <2>5. \A u \in Ids : u > row.tx_id => Count[u] = 0
    BY <2>4 DEF Count
  <2>6. /\ Count' = [Count EXCEPT ![row.tx_id] = Count[row.tx_id] + 1]
        /\ Charged' = [Charged EXCEPT ![row.tx_id] = Charged[row.tx_id] + Calldata!Cost(row.value)]
        /\ Looked' = Looked \cup {<<row.tx_id, Count[row.tx_id], row.value>>}
    BY <2>2, <2>3, <2>4
  <2>7. Calldata!Deal(row.tx_id, row.value)
    BY <1>1, <2>5, <2>6 DEF Calldata!Deal, Count, Charged
  <2> QED
    BY <2>1, <2>7 DEF Calldata!Next
<1> QED
  BY <1>2, <1>3

LEMMA NextRefines ==
  ASSUME IInv, [Next]_vars
  PROVE  [Calldata!Next]_(Calldata!vars)
<1> USE ConstantsAssumption
<1>1. CASE FirstRow \/ AppendRow
  <2>1. PICK row : Laid(row)
    BY <1>1, LaidDown DEF IInv
  <2>2. ~accepted
    BY <2>1 DEF Laid, IInv, Complete, TypeOK, ConstantsAssumption
  <2> QED
    BY <2>1, <2>2, LaidRefines
<1>2. CASE Accept
  <2>1. \A t \in Txs : Claims[t].cost = IF Claims[t].length = 0 THEN 0 ELSE Charged[t]
    BY <1>2, CostFound DEF Accept
  <2>2. accepted' = TRUE /\ public' = public /\ rows' = rows
    BY <1>2 DEF Accept
  <2>3. Claims' = Claims /\ Looked' = Looked /\ Count' = Count /\ Charged' = Charged
    BY <2>2 DEF Claims, Looked, Count, Charged, RowsOf, LastRowOf
  <2>4. Calldata!Accept
    BY <2>1, <2>2, <2>3 DEF Calldata!Accept, Claims, Count, Charged
  <2> QED
    BY <2>4 DEF Calldata!Next
<1>3. CASE UNCHANGED vars
  BY <1>3 DEF vars, Calldata!vars, Looked, RowsOf, LastRowOf
<1> QED
  BY <1>1, <1>2, <1>3 DEF Next

\* Any call data section the public input circuit accepts, or lays down on the way
\* there, deals out the public bytes as TxCalldata does: each byte is one
\* transaction's, at the next index of it, and a transaction with call data pays
\* for exactly the bytes it can look up.
THEOREM DealsOutCalldata == Spec => DealsCalldata
<1>1. Init => Calldata!Init
  BY InitRefines
<1>2. IInv /\ [Next]_vars => [Calldata!Next]_(Calldata!vars)
  BY NextRefines
<1> QED
  BY <1>1, <1>2, Inductive, PTL DEF Spec, DealsCalldata, Calldata!Spec

-----------------------------------------------------------------------------
(* Induction over the natural numbers, for sets of them.                   *)

Less == {p \in Nat \X Nat : p[1] < p[2]}

LEMMA Least ==
  ASSUME NEW T \in SUBSET Nat, T # {}
  PROVE  \E m \in T : \A n \in T : m <= n
<1>1. IsWellFoundedOn(Less, Nat)
  BY NatLessThanWellFounded DEF OpToRel, Less
<1>2. PICK m \in T : \A n \in T : <<n, m>> \notin Less
  BY <1>1, WFMin
<1>3. \A n \in T : ~(n < m)
  BY <1>2 DEF Less
<1> QED
  BY <1>3

LEMMA Induct ==
  ASSUME NEW S, 0 \in S, \A n \in Nat : n \in S => n + 1 \in S
  PROVE  Nat \subseteq S
<1> SUFFICES ASSUME Nat \ S # {} PROVE FALSE
  OBVIOUS
<1>1. PICK m \in Nat \ S : \A n \in Nat \ S : m <= n
  <2>1. (Nat \ S) \in SUBSET Nat
    OBVIOUS
  <2> QED
    BY <2>1, Least
<1>2. m # 0 /\ m - 1 \in Nat
  BY <1>1
<1>3. m - 1 \in S
  BY <1>1, <1>2
<1> QED
  BY <1>2, <1>3

-----------------------------------------------------------------------------
(* What call data costs.  MapThenSumSet takes the elements of a set out one *)
(* after the other, in an order of its own.                                 *)

Pick(s) == CHOOSE x \in s : TRUE

\* g gives the cost of the bytes of d at each of the sets of positions in D.
Sums(g, d, D) ==
  g = [s \in D |-> IF s = {} THEN 0 ELSE gas_cost(d[Pick(s)]) + g[s \ {Pick(s)}]]

Positions(n) == SUBSET (1 .. n)

Small(n, k) == {s \in Positions(n) : Cardinality(s) <= k}

\* What is left of a set of positions once one is taken out.
LEMMA Rest ==
  ASSUME NEW n \in Nat, NEW s \in Positions(n), s # {}
  PROVE  /\ Pick(s) \in s /\ Pick(s) \in 1 .. n
         /\ \A x \in s : /\ s \ {x} \in Positions(n)
                         /\ Cardinality(s \ {x}) = Cardinality(s) - 1
         /\ Cardinality(s) \in Nat \ {0}
<1>1. Pick(s) \in s /\ Pick(s) \in 1 .. n
  BY DEF Pick, Positions
<1>2. IsFiniteSet(s)
  <2>1. IsFiniteSet(1 .. n)
    BY FS_Interval
  <2> QED
    BY <2>1, FS_Subset DEF Positions
<1>3. Cardinality(s) \in Nat /\ Cardinality(s) # 0
  BY <1>2, FS_CardinalityType, FS_EmptySet
<1>4. \A x \in s : s \ {x} \in Positions(n) /\ Cardinality(s \ {x}) = Cardinality(s) - 1
  BY <1>2, FS_RemoveElement DEF Positions
<1> QED
  BY <1>1, <1>3, <1>4

LEMMA PositionsCounted ==
  ASSUME NEW n \in Nat
  PROVE  /\ \A s \in Positions(n) : Cardinality(s) \in Nat /\ Cardinality(s) <= n
         /\ Small(n, n) = Positions(n)
         /\ {} \in Positions(n) /\ 1 .. n \in Positions(n)
         /\ \A s \in Small(n, 0) : s = {}
<1>1. IsFiniteSet(1 .. n) /\ Cardinality(1 .. n) = n
  BY FS_Interval
<1>2. \A s \in Positions(n) : Cardinality(s) \in Nat /\ Cardinality(s) <= n
  BY <1>1, FS_Subset, FS_CardinalityType DEF Positions
<1>3. {} \in Positions(n) /\ 1 .. n \in Positions(n)
  BY DEF Positions
<1>4. Small(n, n) = Positions(n)
  BY <1>2 DEF Small
<1>5. \A s \in Small(n, 0) : s = {}
  BY Rest DEF Small
<1> QED
  BY <1>2, <1>3, <1>4, <1>5

LEMMA SumsExist ==
  ASSUME NEW n \in Nat, NEW d
  PROVE  \E g : Sums(g, d, Positions(n))
<1> DEFINE S == {k \in Nat : \E g : Sums(g, d, Small(n, k))}
<1>1. 0 \in S
  <2>1. Sums([s \in Small(n, 0) |-> 0], d, Small(n, 0))
    BY PositionsCounted DEF Sums
  <2> QED
    BY <2>1
<1>2. ASSUME NEW k \in Nat, k \in S
      PROVE  k + 1 \in S
  <2>1. PICK g : Sums(g, d, Small(n, k))
    BY <1>2
  <2> DEFINE Value(s) == IF s = {} THEN 0 ELSE gas_cost(d[Pick(s)]) + g[s \ {Pick(s)}]
             h == [s \in Small(n, k + 1) |-> Value(s)]
  <2>2. \A s \in Small(n, k) : s \in Small(n, k + 1) /\ g[s] = Value(s)
    <3>1. \A s \in Small(n, k) : s \in Small(n, k + 1)
      BY PositionsCounted DEF Small
    <3>2. \A s \in Small(n, k) : g[s] = Value(s)
      BY <2>1 DEF Sums
    <3> QED
      BY <3>1, <3>2
  <2>3. \A s \in Small(n, k) : h[s] = g[s]
    <3> HIDE DEF Value
    <3> QED
      BY <2>2
  <2>4. \A s \in Small(n, k + 1) : s # {} => s \ {Pick(s)} \in Small(n, k)
    BY Rest DEF Small
  <2>5. \A s \in Small(n, k + 1) :
          Value(s) = IF s = {} THEN 0 ELSE gas_cost(d[Pick(s)]) + h[s \ {Pick(s)}]
    BY <2>3, <2>4
  <2> HIDE DEF Value
  <2>6. Sums(h, d, Small(n, k + 1))
    BY <2>5 DEF Sums
  <2> QED
    BY <2>6
<1> HIDE DEF S
<1>3. n \in S
  BY <1>1, <1>2, Induct
<1> QED
  BY <1>3, PositionsCounted DEF S

LEMMA SumsAre ==
  ASSUME NEW g, NEW d, NEW n \in Nat, Sums(g, d, Positions(n)), NEW s \in Positions(n)
  PROVE  g[s] = IF s = {} THEN 0 ELSE gas_cost(d[Pick(s)]) + g[s \ {Pick(s)}]
BY DEF Sums

SameNumbers(d, e, n) == \A i \in 1 .. n : d[i] \in Nat /\ e[i] = d[i]

SameSums(g, h, n) == \A s \in Positions(n) : g[s] \in Nat /\ h[s] = g[s]

\* Byte strings that agree at the positions cost the same there.
LEMMA SumsAgree ==
  ASSUME NEW n \in Nat, NEW m \in Nat, n <= m, NEW d, NEW e, NEW g, NEW h,
         SameNumbers(d, e, n),
         Sums(g, d, Positions(n)), Sums(h, e, Positions(m))
  PROVE  SameSums(g, h, n)
<1> DEFINE Right(s) == g[s] \in Nat /\ h[s] = g[s]
           S == {k \in Nat : \A s \in Small(n, k) : Right(s)}
<1>1. Positions(n) \subseteq Positions(m)
  BY DEF Positions
<1>2. Right({})
  <2>1. {} \in Positions(n) /\ {} \in Positions(m)
    BY PositionsCounted
  <2>2. g[{}] = 0 /\ h[{}] = 0
    BY <2>1, SumsAre
  <2> QED
    BY <2>2
<1>3. 0 \in S
  BY <1>2, PositionsCounted
<1>4. ASSUME NEW k \in Nat, k \in S
      PROVE  k + 1 \in S
  <2> SUFFICES ASSUME NEW s \in Small(n, k + 1) PROVE Right(s)
    OBVIOUS
  <2>0. CASE s = {}
    BY <1>2, <2>0
  <2> SUFFICES ASSUME s # {} PROVE Right(s)
    BY <2>0
  <2> DEFINE x == Pick(s)
             t == s \ {x}
  <2>1. s \in Positions(n) /\ x \in 1 .. n /\ t \in Small(n, k)
    BY Rest DEF Small
  <2>2. g[t] \in Nat /\ h[t] = g[t]
    BY <1>4, <2>1
  <2>3. g[s] = gas_cost(d[x]) + g[t] /\ h[s] = gas_cost(e[x]) + h[t]
    <3>1. s \in Positions(m)
      BY <1>1, <2>1
    <3>2. g[s] = gas_cost(d[x]) + g[t]
      BY <2>1, SumsAre
    <3>3. h[s] = gas_cost(e[x]) + h[t]
      BY <3>1, SumsAre, ZenonT(60)
    <3> QED
      BY <3>2, <3>3
  <2>4. e[x] = d[x] /\ gas_cost(d[x]) \in Nat
    BY <2>1 DEF gas_cost, SameNumbers
  <2> HIDE DEF x, t
  <2> QED
    BY <2>2, <2>3, <2>4
<1> HIDE DEF S
<1>5. n \in S
  BY <1>3, <1>4, Induct
<1> QED
  BY <1>5, PositionsCounted DEF S, SameSums

Numbers(d, n) == \A i \in 1 .. n : d[i] \in Nat

AnyOrder(g, d, n) ==
  \A s \in Positions(n) : \A x \in s : g[s] = gas_cost(d[x]) + g[s \ {x}]

\* It does not matter which position is taken out.
LEMMA AnyTakenOut ==
  ASSUME NEW n \in Nat, NEW d, NEW g, Numbers(d, n), Sums(g, d, Positions(n))
  PROVE  AnyOrder(g, d, n)
<1> SUFFICES \A s \in Positions(n) : \A x \in s : g[s] = gas_cost(d[x]) + g[s \ {x}]
  BY DEF AnyOrder
<1> DEFINE Right(s) == \A x \in s : g[s] = gas_cost(d[x]) + g[s \ {x}]
           S == {k \in Nat : \A s \in Small(n, k) : Right(s)}
<1>1. 0 \in S
  BY PositionsCounted
<1>0. \A i \in 1 .. n : d[i] \in Nat
  BY DEF Numbers
<1>2. \A s \in Positions(n) : g[s] \in Nat
  <2>1. SameNumbers(d, d, n) /\ n <= n
    BY <1>0 DEF SameNumbers
  <2>2. SameSums(g, g, n)
    BY <2>1, SumsAgree
  <2> QED
    BY <2>2 DEF SameSums
<1>3. ASSUME NEW k \in Nat, k \in S
      PROVE  k + 1 \in S
  <2> SUFFICES ASSUME NEW s \in Small(n, k + 1), NEW x \in s
               PROVE  g[s] = gas_cost(d[x]) + g[s \ {x}]
    OBVIOUS
  <2> DEFINE p == Pick(s)
             t == s \ {p}
             u == s \ {x}
             v == t \ {x}
  <2>1. /\ s \in Positions(n) /\ p \in s /\ p \in 1 .. n /\ x \in 1 .. n
        /\ t \in Small(n, k) /\ u \in Small(n, k)
    <3>1. s \in Positions(n) /\ s # {} /\ x \in 1 .. n /\ Cardinality(s) <= k + 1
      BY DEF Small, Positions
    <3>2. p \in s /\ p \in 1 .. n
      BY <3>1, Rest
    <3>3. \A y \in s : s \ {y} \in Positions(n) /\ Cardinality(s \ {y}) <= k
      BY <3>1, Rest
    <3> QED
      BY <3>1, <3>2, <3>3 DEF Small
  <2>2. g[s] = gas_cost(d[p]) + g[t]
    BY <2>1, SumsAre
  <2>3. CASE x = p
    BY <2>2, <2>3
  <2>4. CASE x # p
    <3>1. x \in t /\ p \in u /\ v = u \ {p} /\ v \in Positions(n)
      BY <2>1, <2>4 DEF Positions
    <3>2. g[t] = gas_cost(d[x]) + g[v] /\ g[u] = gas_cost(d[p]) + g[v]
      BY <1>3, <2>1, <3>1, ZenonT(60)
    <3>3. gas_cost(d[x]) \in Nat /\ gas_cost(d[p]) \in Nat /\ g[v] \in Nat
      BY <1>0, <1>2, <2>1, <3>1 DEF gas_cost
    <3> HIDE DEF t, u, v, p
    <3> QED
      BY <2>2, <3>2, <3>3 DEF u
  <2> QED
    BY <2>3, <2>4
<1> HIDE DEF S
<1>4. n \in S
  BY <1>1, <1>3, Induct
<1> QED
  BY <1>4, PositionsCounted DEF S

\* The sums that the cost of call data is one of.
CostSums(d) == CHOOSE g : Sums(g, d, SUBSET DOMAIN d)

LEMMA CostInPieces ==
  ASSUME NEW d
  PROVE  call_data_gas_cost(d) = CostSums(d)[DOMAIN d]
<1>1. \A g : Sums(g, d, SUBSET DOMAIN d) <=>
         g = [s \in SUBSET DOMAIN d |->
                IF s = {} THEN 0
                ELSE gas_cost(d[CHOOSE x \in s : TRUE]) + g[s \ {CHOOSE x \in s : TRUE}]]
  BY DEF Sums, Pick
<1>2. call_data_gas_cost(d)
        = (CHOOSE g : g = [s \in SUBSET DOMAIN d |->
             IF s = {} THEN 0
             ELSE gas_cost(d[CHOOSE x \in s : TRUE]) + g[s \ {CHOOSE x \in s : TRUE}]])[DOMAIN d]
  BY DEF call_data_gas_cost, MapThenSumSet, MapThenFoldSet
<1>3. CostSums(d)
        = CHOOSE g : g = [s \in SUBSET DOMAIN d |->
             IF s = {} THEN 0
             ELSE gas_cost(d[CHOOSE x \in s : TRUE]) + g[s \ {CHOOSE x \in s : TRUE}]]
  BY <1>1 DEF CostSums
<1> QED
  BY <1>2, <1>3

LEMMA CostIsASum ==
  ASSUME NEW d \in Seq(Nat)
  PROVE  \E g : Sums(g, d, Positions(Len(d))) /\ call_data_gas_cost(d) = g[1 .. Len(d)]
<1>1. Positions(Len(d)) = SUBSET DOMAIN d /\ 1 .. Len(d) = DOMAIN d /\ Len(d) \in Nat
  BY DEF Positions
<1>2. \E g : Sums(g, d, Positions(Len(d)))
  BY <1>1, SumsExist
<1>3. Sums(CostSums(d), d, Positions(Len(d)))
  BY <1>1, <1>2 DEF CostSums
<1> QED
  BY <1>1, <1>3, CostInPieces

\* Call data costs what it costs without its last byte, and that byte.
LEMMA CostGrows ==
  ASSUME NEW d \in Seq(Nat), NEW e \in Seq(Nat), Len(e) = Len(d) + 1,
         \A i \in 1 .. Len(d) : e[i] = d[i]
  PROVE  /\ call_data_gas_cost(d) \in Nat
         /\ call_data_gas_cost(e) = call_data_gas_cost(d) + gas_cost(e[Len(e)])
<1> DEFINE n == Len(d)
           m == Len(e)
<1>1. n \in Nat /\ m \in Nat /\ m = n + 1
  OBVIOUS
<1>2. PICK g : Sums(g, d, Positions(n)) /\ call_data_gas_cost(d) = g[1 .. n]
  BY CostIsASum
<1>3. PICK h : Sums(h, e, Positions(m)) /\ call_data_gas_cost(e) = h[1 .. m]
  BY CostIsASum
<1>4. \A i \in 1 .. n : d[i] \in Nat /\ e[i] = d[i]
  OBVIOUS
<1>5. Numbers(e, m)
  BY DEF Numbers
<1>6. 1 .. n \in Positions(n) /\ 1 .. m \in Positions(m) /\ m \in 1 .. m /\ (1 .. m) \ {m} = 1 .. n
  BY <1>1 DEF Positions
<1> HIDE DEF n, m
<1>7. g[1 .. n] \in Nat /\ h[1 .. n] = g[1 .. n]
  <2>1. n <= m /\ n \in Nat /\ m \in Nat
    BY <1>1
  <2>2. SameNumbers(d, e, n)
    BY <1>4 DEF SameNumbers
  <2>3. Sums(g, d, Positions(n)) /\ Sums(h, e, Positions(m))
    BY <1>2, <1>3
  <2>4. SameSums(g, h, n)
    BY <2>1, <2>2, <2>3, SumsAgree
  <2> QED
    BY <1>6, <2>4 DEF SameSums
<1>8. h[1 .. m] = gas_cost(e[m]) + h[1 .. n]
  <2>1. AnyOrder(h, e, m)
    <3>1. Sums(h, e, Positions(m))
      BY <1>3
    <3> QED
      BY <1>1, <1>5, <3>1, AnyTakenOut
  <2> QED
    BY <1>6, <2>1 DEF AnyOrder
<1>9. gas_cost(e[m]) \in Nat
  BY DEF gas_cost
<1> QED
  BY <1>2, <1>3, <1>7, <1>8, <1>9 DEF m

LEMMA NothingCosts == call_data_gas_cost(<<>>) = 0
<1>1. PICK g : Sums(g, <<>>, Positions(0)) /\ call_data_gas_cost(<<>>) = g[1 .. 0]
  <2>1. <<>> \in Seq(Nat) /\ Len(<<>>) = 0
    OBVIOUS
  <2> QED
    BY <2>1, CostIsASum
<1>2. 1 .. 0 = {} /\ {} \in Positions(0)
  BY PositionsCounted
<1> QED
  BY <1>1, <1>2, SumsAre

-----------------------------------------------------------------------------
(* Strings one after the other.                                            *)

\* Where each of the strings ends when they lie one after the other.
Ends(end, seqs) ==
  /\ end \in [0 .. Len(seqs) -> Nat] /\ end[0] = 0
  /\ \A t \in 1 .. Len(seqs) : end[t] = end[t - 1] + Len(seqs[t])

EndsTo(end, seqs, k) ==
  /\ end \in [0 .. k -> Nat] /\ end[0] = 0
  /\ \A t \in 1 .. k : end[t] = end[t - 1] + Len(seqs[t])

LEMMA EndsExist ==
  ASSUME NEW B, NEW seqs \in Seq(Seq(B))
  PROVE  \E end : Ends(end, seqs)
<1> DEFINE n == Len(seqs)
           S == {k \in Nat : k <= n => \E end : EndsTo(end, seqs, k)}
<1>1. 0 \in S
  <2>1. EndsTo([t \in 0 .. 0 |-> 0], seqs, 0)
    BY DEF EndsTo
  <2> QED
    BY <2>1
<1>2. ASSUME NEW k \in Nat, k \in S
      PROVE  k + 1 \in S
  <2> SUFFICES ASSUME k + 1 <= n PROVE \E end : EndsTo(end, seqs, k + 1)
    OBVIOUS
  <2>1. k + 1 \in 1 .. n /\ k <= n /\ Len(seqs[k + 1]) \in Nat
    <3>1. n \in Nat
      OBVIOUS
    <3>2. k + 1 \in 1 .. n
      BY <3>1
    <3>3. seqs[k + 1] \in Seq(B)
      BY <3>2
    <3> QED
      BY <3>1, <3>2, <3>3
  <2>2. PICK end : EndsTo(end, seqs, k)
    BY <1>2, <2>1
  <2> DEFINE l == Len(seqs[k + 1])
             more == [t \in 0 .. k + 1 |-> IF t = k + 1 THEN end[k] + l ELSE end[t]]
  <2> HIDE DEF n, l
  <2>3. l \in Nat /\ end[k] \in Nat /\ more \in [0 .. k + 1 -> Nat] /\ more[0] = 0
    BY <2>1, <2>2, SMTT(30) DEF l, EndsTo
  <2>4. ASSUME NEW t \in 1 .. k + 1
        PROVE  more[t] = more[t - 1] + Len(seqs[t])
    <3>1. CASE t = k + 1
      <4>1. more[t] = end[k] + l /\ more[t - 1] = end[k]
        BY <3>1
      <4> QED
        BY <3>1, <4>1 DEF l
    <3>2. CASE t # k + 1
      <4>1. t \in 1 .. k /\ t - 1 \in 0 .. k /\ t \in 0 .. k + 1 /\ t - 1 \in 0 .. k + 1
            /\ t - 1 # k + 1
        BY <3>2
      <4>2. more[t] = end[t] /\ more[t - 1] = end[t - 1]
        BY <3>2, <4>1
      <4> QED
        BY <2>2, <4>1, <4>2 DEF EndsTo
    <3> QED
      BY <3>1, <3>2
  <2> HIDE DEF more
  <2>5. EndsTo(more, seqs, k + 1)
    BY <2>3, <2>4 DEF EndsTo
  <2> QED
    BY <2>5
<1> HIDE DEF S
<1>3. n \in S
  BY <1>1, <1>2, Induct, SMTT(30)
<1> QED
  BY <1>3 DEF S, Ends, EndsTo

\* The strings end one after the other, and each position is in one of them.
LEMMA EndsOrdered ==
  ASSUME NEW B, NEW seqs \in Seq(Seq(B)), NEW end, Ends(end, seqs)
  PROVE  /\ \A t \in 0 .. Len(seqs) : \A u \in 0 .. t : end[u] <= end[t]
         /\ \A p \in 1 .. end[Len(seqs)] : \E t \in 1 .. Len(seqs) : end[t - 1] < p /\ p <= end[t]
<1> DEFINE n == Len(seqs)
           P(t) == t <= n => \A u \in 0 .. t : end[u] <= end[t]
           S == {t \in Nat : P(t)}
<1>1. n \in Nat /\ end \in [0 .. n -> Nat] /\ end[0] = 0
      /\ \A t \in 1 .. n : end[t] = end[t - 1] + Len(seqs[t]) /\ Len(seqs[t]) \in Nat
  <2>1. \A t \in 1 .. n : seqs[t] \in Seq(B)
    OBVIOUS
  <2> QED
    BY <2>1 DEF Ends
<1> HIDE DEF n
<1>2. 0 \in S
  BY <1>1
<1>3. ASSUME NEW t \in Nat, t \in S
      PROVE  t + 1 \in S
  <2> SUFFICES ASSUME t + 1 <= n, NEW u \in 0 .. t + 1
               PROVE  end[u] <= end[t + 1]
    OBVIOUS
  <2>1. t \in 0 .. n /\ t + 1 \in 1 .. n /\ u \in 0 .. n
    BY <1>1
  <2>2. end[t] <= end[t + 1] /\ end[t] \in Nat /\ end[t + 1] \in Nat /\ end[u] \in Nat
    <3>1. end[t + 1] = end[t] + Len(seqs[t + 1]) /\ Len(seqs[t + 1]) \in Nat
      BY <1>1, <2>1
    <3>2. end[t] \in Nat /\ end[t + 1] \in Nat /\ end[u] \in Nat
      BY <1>1, <2>1
    <3> QED
      BY <3>1, <3>2
  <2>3. u \in 0 .. t => end[u] <= end[t]
    BY <1>1, <1>3, <2>1
  <2> QED
    BY <2>2, <2>3
<1> HIDE DEF S
<1>4. \A t \in 0 .. n : P(t)
  <2>1. Nat \subseteq S
    BY <1>2, <1>3, Induct
  <2> QED
    BY <1>1, <2>1 DEF S
<1>5. ASSUME NEW p \in 1 .. end[n]
      PROVE  \E t \in 1 .. n : end[t - 1] < p /\ p <= end[t]
  <2> DEFINE T == {t \in 0 .. n : p <= end[t]}
  <2>1. n \in T /\ T \in SUBSET Nat
    BY <1>1
  <2>2. PICK t \in T : \A u \in T : t <= u
    BY <2>1, Least
  <2>3. t # 0 /\ t \in 1 .. n /\ t - 1 \in 0 .. n /\ t - 1 \notin T
    BY <1>1, <2>2
  <2>4. end[t - 1] \in Nat /\ ~(p <= end[t - 1])
    BY <1>1, <2>3
  <2> QED
    BY <2>2, <2>3, <2>4
<1> QED
  BY <1>4, <1>5 DEF n

\* f[i] is the first i strings, one after the other.
Flats(f, seqs, k) ==
  f = [i \in 1 .. k |-> IF i = 1 THEN seqs[i] ELSE f[i - 1] \o seqs[i]]

LEMMA FlatsExist ==
  ASSUME NEW seqs, NEW n \in Nat
  PROVE  \E f : Flats(f, seqs, n)
<1> DEFINE S == {k \in Nat : \E f : Flats(f, seqs, k)}
<1>1. 0 \in S
  <2>1. Flats([i \in 1 .. 0 |-> 0], seqs, 0)
    BY DEF Flats
  <2> QED
    BY <2>1
<1>2. ASSUME NEW k \in Nat, k \in S
      PROVE  k + 1 \in S
  <2>1. PICK f : Flats(f, seqs, k)
    BY <1>2
  <2> DEFINE Value(i) == IF i = 1 THEN seqs[i] ELSE f[i - 1] \o seqs[i]
             g == [i \in 1 .. k + 1 |-> Value(i)]
  <2>2. \A i \in 1 .. k : i \in 1 .. k + 1 /\ f[i] = Value(i)
    <3>1. \A i \in 1 .. k : f[i] = Value(i)
      BY <2>1 DEF Flats
    <3> QED
      BY <3>1
  <2>3. \A i \in 1 .. k : g[i] = f[i]
    <3> HIDE DEF Value
    <3> QED
      BY <2>2
  <2>4. \A i \in 1 .. k + 1 : i # 1 => i - 1 \in 1 .. k
    OBVIOUS
  <2>5. \A i \in 1 .. k + 1 : Value(i) = IF i = 1 THEN seqs[i] ELSE g[i - 1] \o seqs[i]
    BY <2>3, <2>4
  <2> HIDE DEF Value
  <2>6. Flats(g, seqs, k + 1)
    BY <2>5 DEF Flats
  <2> QED
    BY <2>6
<1> HIDE DEF S
<1>3. n \in S
  BY <1>1, <1>2, Induct
<1> QED
  BY <1>3 DEF S

\* The strings lie in flat one after the other, those up to k.
Laying(flat, seqs, end, k) ==
  /\ Len(flat) = end[k]
  /\ \A t \in 1 .. k : \A i \in 1 .. Len(seqs[t]) : flat[end[t - 1] + i] = seqs[t][i]

LEMMA Flattened ==
  ASSUME NEW B, NEW seqs \in Seq(Seq(B)), NEW end, Ends(end, seqs)
  PROVE  FlattenSeq(seqs) \in Seq(B) /\ Laying(FlattenSeq(seqs), seqs, end, Len(seqs))
<1> DEFINE n == Len(seqs)
<1>1. n \in Nat /\ end \in [0 .. n -> Nat] /\ end[0] = 0
      /\ \A t \in 1 .. n : /\ end[t] = end[t - 1] + Len(seqs[t]) /\ Len(seqs[t]) \in Nat
                           /\ seqs[t] \in Seq(B)
  <2>1. \A t \in 1 .. n : seqs[t] \in Seq(B)
    OBVIOUS
  <2> QED
    BY <2>1 DEF Ends
<1>2. CASE n = 0
  <2>1. FlattenSeq(seqs) = <<>> /\ seqs = <<>>
    BY <1>2 DEF FlattenSeq
  <2> QED
    BY <1>1, <1>2, <2>1 DEF Laying
<1>3. CASE n # 0
  <2> DEFINE f == CHOOSE g : Flats(g, seqs, n)
  <2>1. Flats(f, seqs, n)
    BY <1>1, FlatsExist
  <2>2. FlattenSeq(seqs) = f[n]
    BY <1>3 DEF FlattenSeq, Flats
  <2> HIDE DEF f
  <2>3. \A i \in 1 .. n : f[i] = IF i = 1 THEN seqs[i] ELSE f[i - 1] \o seqs[i]
    BY <2>1 DEF Flats
  <2> HIDE DEF n
  <2> DEFINE P(k) == f[k] \in Seq(B) /\ Laying(f[k], seqs, end, k)
             S == {k \in Nat : k + 1 <= n => P(k + 1)}
  <2>4. 0 \in S
    <3>1. 1 \in 1 .. n /\ f[1] = seqs[1]
      BY <1>1, <1>3, <2>3
    <3>2. end[1] = Len(seqs[1]) /\ seqs[1] \in Seq(B)
      <4>1. end[1] = end[0] + Len(seqs[1]) /\ Len(seqs[1]) \in Nat /\ seqs[1] \in Seq(B)
        BY <1>1, <3>1
      <4> QED
        BY <1>1, <4>1
    <3>3. \A t \in 1 .. 1 : \A i \in 1 .. Len(seqs[t]) : f[1][end[t - 1] + i] = seqs[t][i]
      <4> SUFFICES ASSUME NEW i \in 1 .. Len(seqs[1])
                   PROVE  f[1][end[0] + i] = seqs[1][i]
        OBVIOUS
      <4>1. end[0] + i = i
        BY <1>1, <3>2
      <4> QED
        BY <3>1, <4>1
    <3> QED
      BY <3>1, <3>2, <3>3 DEF Laying
  <2>5. ASSUME NEW k \in Nat, k \in S
        PROVE  k + 1 \in S
    <3> SUFFICES ASSUME k + 2 <= n PROVE P(k + 2)
      OBVIOUS
    <3> DEFINE a == f[k + 1]
               b == seqs[k + 2]
               c == f[k + 2]
    <3>1. k + 2 \in 1 .. n /\ k + 1 \in 1 .. n /\ k + 2 # 1 /\ (k + 2) - 1 = k + 1
      BY <1>1
    <3>2. c = a \o b
      BY <2>3, <3>1
    <3>3. a \in Seq(B) /\ Laying(a, seqs, end, k + 1)
      BY <2>5, <3>1
    <3>4. b \in Seq(B) /\ end[k + 2] = end[k + 1] + Len(b)
      BY <1>1, <3>1
    <3> HIDE DEF a, b, c
    <3>5. /\ c \in Seq(B) /\ Len(c) = Len(a) + Len(b)
          /\ \A i \in 1 .. Len(a) : c[i] = a[i]
          /\ \A i \in 1 .. Len(b) : c[Len(a) + i] = b[i]
      BY <3>2, <3>3, <3>4
    <3>6. Len(a) = end[k + 1]
      BY <3>3 DEF Laying
    <3>7. ASSUME NEW t \in 1 .. k + 2, NEW i \in 1 .. Len(seqs[t])
          PROVE  c[end[t - 1] + i] = seqs[t][i]
      <4>1. CASE t = k + 2
        <5>1. t - 1 = k + 1 /\ i \in 1 .. Len(b)
          BY <4>1 DEF b
        <5>2. c[Len(a) + i] = b[i]
          BY <3>5, <5>1
        <5> QED
          BY <3>6, <4>1, <5>1, <5>2 DEF b
      <4>2. CASE t # k + 2
        <5>1. t \in 1 .. k + 1 /\ t \in 1 .. n /\ t \in 0 .. n /\ t - 1 \in 0 .. n
              /\ k + 1 \in 0 .. n /\ t \in 0 .. k + 1
          BY <1>1, <3>1, <4>2, SMTT(30)
        <5>2. end[t] <= end[k + 1]
          BY <3>1, <5>1, EndsOrdered DEF n
        <5>3. end[t] = end[t - 1] + Len(seqs[t]) /\ Len(seqs[t]) \in Nat
              /\ end[t - 1] \in Nat /\ end[k + 1] \in Nat
          BY <1>1, <5>1
        <5>4. end[t - 1] + i \in 1 .. Len(a)
          BY <3>6, <5>2, <5>3, SMTT(30)
        <5>5. a[end[t - 1] + i] = seqs[t][i]
          BY <3>3, <5>1 DEF Laying
        <5> QED
          BY <3>5, <5>4, <5>5
      <4> QED
        BY <4>1, <4>2
    <3>8. Len(c) = end[k + 2]
      BY <3>4, <3>5, <3>6
    <3>9. Laying(c, seqs, end, k + 2)
      BY <3>7, <3>8 DEF Laying
    <3> QED
      BY <3>5, <3>9 DEF c
  <2> HIDE DEF S
  <2>6. n - 1 \in S
    <3>1. n - 1 \in Nat
      BY <1>1, <1>3
    <3> QED
      BY <2>4, <2>5, <3>1, Induct
  <2>7. (n - 1) + 1 = n
    BY <1>1
  <2>8. P(n)
    BY <1>1, <2>6, <2>7 DEF S
  <2> QED
    BY <2>2, <2>8 DEF n
<1> QED
  BY <1>2, <1>3

-----------------------------------------------------------------------------
(* The public call data.                                                   *)

\* What the first n of the public bytes cost.
CostTo(values, n) == call_data_gas_cost(SubSeq(values, 1, n))

LEMMA CostSteps ==
  ASSUME ConstantsAssumption, NEW M \in Nat, NEW values \in [1 .. M -> Bytes], NEW n \in 0 .. M
  PROVE  /\ CostTo(values, n) \in Nat
         /\ n = 0 => CostTo(values, n) = 0
         /\ n # 0 => CostTo(values, n) = CostTo(values, n - 1) + gas_cost(values[n])
<1>1. values \in Seq(Nat) /\ Len(values) = M
  <2>1. values \in [1 .. M -> Nat]
    BY DEF ConstantsAssumption
  <2> QED
    BY <2>1
<1>2. \A m \in 0 .. M : /\ SubSeq(values, 1, m) \in Seq(Nat) /\ Len(SubSeq(values, 1, m)) = m
                        /\ \A i \in 1 .. m : SubSeq(values, 1, m)[i] = values[i]
  BY <1>1
<1>3. CASE n = 0
  <2>1. SubSeq(values, 1, n) = <<>>
    BY <1>2, <1>3
  <2>2. CostTo(values, n) = 0
    BY <2>1, NothingCosts DEF CostTo
  <2> QED
    BY <1>3, <2>2
<1>4. CASE n # 0
  <2> DEFINE d == SubSeq(values, 1, n - 1)
             e == SubSeq(values, 1, n)
  <2>1. /\ d \in Seq(Nat) /\ e \in Seq(Nat) /\ Len(d) = n - 1 /\ Len(e) = n
        /\ e[n] = values[n]
    BY <1>2, <1>4
  <2>2. \A i \in 1 .. Len(d) : e[i] = d[i]
    BY <1>2, <1>4, <2>1
  <2>3. Len(e) = Len(d) + 1
    BY <2>1
  <2> HIDE DEF d, e
  <2>4. call_data_gas_cost(d) \in Nat /\ call_data_gas_cost(e) = call_data_gas_cost(d) + gas_cost(e[Len(e)])
    BY <2>1, <2>2, <2>3, CostGrows
  <2>5. gas_cost(values[n]) \in Nat
    BY DEF gas_cost
  <2> QED
    BY <1>4, <2>1, <2>4, <2>5 DEF CostTo, d, e
<1> QED
  BY <1>3, <1>4

\* More bytes cost more.
LEMMA CostIncreases ==
  ASSUME ConstantsAssumption, NEW M \in Nat, NEW values \in [1 .. M -> Bytes],
         NEW m \in 0 .. M, NEW n \in 0 .. M, m < n
  PROVE  CostTo(values, m) < CostTo(values, n)
<1> DEFINE S == {k \in Nat : m + 1 + k <= M => CostTo(values, m) < CostTo(values, m + 1 + k)}
<1>1. \A k \in 0 .. M : CostTo(values, k) \in Nat
  BY CostSteps
<1>2. \A k \in 1 .. M : CostTo(values, k - 1) < CostTo(values, k)
  <2> SUFFICES ASSUME NEW k \in 1 .. M PROVE CostTo(values, k - 1) < CostTo(values, k)
    OBVIOUS
  <2>1. CostTo(values, k) = CostTo(values, k - 1) + gas_cost(values[k])
    <3>1. k \in 0 .. M /\ k # 0
      OBVIOUS
    <3> QED
      BY <3>1, CostSteps
  <2>2. gas_cost(values[k]) \in Nat /\ gas_cost(values[k]) > 0
    BY DEF gas_cost
  <2>3. CostTo(values, k - 1) \in Nat
    BY <1>1
  <2> QED
    BY <2>1, <2>2, <2>3
<1>3. 0 \in S
  <2> SUFFICES ASSUME m + 1 <= M PROVE CostTo(values, m) < CostTo(values, m + 1)
    OBVIOUS
  <2>1. m + 1 \in 1 .. M /\ (m + 1) - 1 = m
    OBVIOUS
  <2> QED
    BY <1>2, <2>1
<1>4. ASSUME NEW k \in Nat, k \in S
      PROVE  k + 1 \in S
  <2> SUFFICES ASSUME m + 1 + (k + 1) <= M
               PROVE  CostTo(values, m) < CostTo(values, m + 1 + (k + 1))
    OBVIOUS
  <2> DEFINE a == m + 1 + k
             b == m + 1 + (k + 1)
  <2>1. a \in 0 .. M /\ b \in 1 .. M /\ b \in 0 .. M /\ b - 1 = a
    OBVIOUS
  <2>2. CostTo(values, m) < CostTo(values, a)
    BY <1>4, <2>1
  <2> HIDE DEF a, b
  <2>3. CostTo(values, a) < CostTo(values, b)
    BY <1>2, <2>1
  <2> QED
    BY <1>1, <2>1, <2>2, <2>3 DEF b
<1> HIDE DEF S
<1>5. n - m - 1 \in S
  BY <1>3, <1>4, Induct
<1>6. m + 1 + (n - m - 1) = n
  OBVIOUS
<1> QED
  BY <1>5, <1>6 DEF S

\* d is the part of the values behind position a.
Behind(values, a, d) == \A i \in 1 .. Len(d) : values[a + i] = d[i]

LEMMA CostOfPart ==
  ASSUME ConstantsAssumption, NEW M \in Nat, NEW values \in [1 .. M -> Bytes],
         NEW d \in Seq(Bytes), NEW a \in Nat, a + Len(d) <= M, Behind(values, a, d),
         NEW n \in 0 .. Len(d)
  PROVE  CostTo(d, n) = CostTo(values, a + n) - CostTo(values, a)
<1> DEFINE l == Len(d)
           Right(k) == CostTo(d, k) = CostTo(values, a + k) - CostTo(values, a)
           S == {k \in Nat : k <= l => Right(k)}
<1>1. d \in [1 .. l -> Bytes] /\ l \in Nat
  OBVIOUS
<1> HIDE DEF l
<1>2. a + l <= M /\ n \in 0 .. l
  BY DEF l
<1>3. \A k \in 0 .. M : CostTo(values, k) \in Nat
  BY CostSteps
<1>4. 0 \in S
  <2>1. CostTo(d, 0) = 0
    BY <1>1, CostSteps
  <2>2. a + 0 = a /\ CostTo(values, a) \in Nat
    BY <1>1, <1>2, <1>3
  <2> QED
    BY <2>1, <2>2
<1>5. ASSUME NEW k \in Nat, k \in S
      PROVE  k + 1 \in S
  <2> SUFFICES ASSUME k + 1 <= l PROVE Right(k + 1)
    OBVIOUS
  <2> DEFINE x == k + 1
             y == a + x
  <2>1. /\ x \in 0 .. l /\ x # 0 /\ x - 1 = k /\ x \in 1 .. l
        /\ y \in 0 .. M /\ y # 0 /\ y - 1 = a + k /\ a + k \in 0 .. M /\ a \in 0 .. M
    BY <1>1, <1>2
  <2> HIDE DEF x, y
  <2>2. CostTo(d, x) = CostTo(d, x - 1) + gas_cost(d[x])
    BY <1>1, <2>1, CostSteps
  <2>3. CostTo(values, y) = CostTo(values, y - 1) + gas_cost(values[y])
    BY <2>1, CostSteps
  <2>4. values[y] = d[x]
    BY <2>1 DEF Behind, y, l
  <2>5. CostTo(d, k) = CostTo(values, a + k) - CostTo(values, a)
    BY <1>1, <1>5, <2>1 DEF x
  <2>6. gas_cost(d[x]) \in Nat /\ CostTo(values, a + k) \in Nat /\ CostTo(values, a) \in Nat
    BY <1>3, <2>1 DEF gas_cost
  <2>7. CostTo(d, x) = CostTo(values, y) - CostTo(values, a)
    BY <2>1, <2>2, <2>3, <2>4, <2>5, <2>6, SMTT(30)
  <2> QED
    BY <2>7 DEF x, y
<1> HIDE DEF S
<1>6. n \in S
  BY <1>2, <1>4, <1>5, Induct
<1> QED
  BY <1>2, <1>6 DEF S

\* The public inputs are those of the transactions' call data.
OfData ==
  /\ public \in PublicSet
  /\ \E data \in [Txs -> Payloads], misstated \in [Txs -> Misstated] :
       public = public_data(data, misstated)

\* Where the call data of each transaction ends among the public bytes.
CalldataEnds(end) ==
  /\ public.values \in [1 .. MaxCalldata -> Bytes]
  /\ public.data \in Seq(Seq(Bytes)) /\ Len(public.data) = MaxTxs
  /\ Ends(end, public.data)
  /\ end[MaxTxs] <= MaxCalldata
  /\ \A t \in Txs : /\ Behind(public.values, end[t - 1], public.data[t])
                    /\ public.CallDataLength[t] = Len(public.data[t])

LEMMA CalldataHasEnds ==
  ASSUME ConstantsAssumption, OfData
  PROVE  \E end : CalldataEnds(end)
<1>1. PICK data \in [Txs -> Payloads], misstated \in [Txs -> Misstated] :
        public = public_data(data, misstated)
  BY DEF OfData
<1>2. data \in Seq(Seq(Bytes)) /\ Len(data) = MaxTxs /\ MaxCalldata \in Nat
  BY DEF Txs, ConstantsAssumption
<1>3. /\ public.values = calldata_values(data) /\ public.data = data
      /\ \A t \in Txs : public.CallDataLength[t] = Len(data[t])
  BY <1>1 DEF public_data
<1>4. public.values \in [1 .. MaxCalldata -> Bytes]
  BY DEF OfData, PublicSet
<1>5. PICK end : Ends(end, data)
  BY <1>2, EndsExist
<1> DEFINE all == FlattenSeq(data)
           pad == [i \in 1 .. MaxCalldata - Len(all) |-> 0]
<1>6. all \in Seq(Bytes) /\ Laying(all, data, end, Len(data))
  BY <1>2, <1>5, Flattened
<1>7. public.values = all \o pad
  BY <1>3 DEF calldata_values
<1> HIDE DEF all
<1>8. pad \in Seq({0}) /\ Len(pad) = IF Len(all) <= MaxCalldata THEN MaxCalldata - Len(all) ELSE 0
  <2>1. MaxCalldata - Len(all) \in Int
    BY <1>2, <1>6
  <2>2. CASE Len(all) <= MaxCalldata
    <3>1. MaxCalldata - Len(all) \in Nat
      BY <1>2, <1>6, <2>2
    <3> QED
      BY <2>2, <3>1
  <2>3. CASE ~(Len(all) <= MaxCalldata)
    <3>1. 1 .. MaxCalldata - Len(all) = {}
      BY <1>2, <1>6, <2>3
    <3>2. pad = <<>>
      BY <3>1
    <3>3. pad \in Seq({0}) /\ Len(pad) = 0
      <4> HIDE DEF pad
      <4> QED
        BY <3>2
    <3> QED
      BY <2>3, <3>3
  <2> QED
    BY <2>2, <2>3
<1> HIDE DEF pad
<1>9. /\ Len(public.values) = Len(all) + Len(pad)
      /\ \A i \in 1 .. Len(all) : public.values[i] = all[i]
  BY <1>6, <1>7, <1>8
<1>10. Len(all) <= MaxCalldata /\ Len(all) = end[MaxTxs]
  <2>1. Len(public.values) = MaxCalldata
    BY <1>2, <1>4
  <2> QED
    BY <1>2, <1>6, <1>8, <1>9, <2>1 DEF Laying
<1>11. ASSUME NEW t \in Txs, NEW i \in 1 .. Len(data[t])
       PROVE  public.values[end[t - 1] + i] = data[t][i]
  <2>1. all[end[t - 1] + i] = data[t][i]
    BY <1>2, <1>6 DEF Laying, Txs
  <2>2. MaxTxs \in 0 .. Len(data) /\ t \in 0 .. MaxTxs /\ t \in 1 .. Len(data)
        /\ t - 1 \in 0 .. Len(data) /\ MaxTxs \in Nat
    BY <1>2 DEF Txs, ConstantsAssumption
  <2>3. end[t] <= end[MaxTxs]
    BY <1>2, <1>5, <2>2, EndsOrdered
  <2>4. end[t - 1] \in Nat /\ end[t] = end[t - 1] + Len(data[t])
    BY <1>5, <2>2 DEF Ends
  <2>5. Len(data[t]) \in Nat
    BY <1>2, <2>2
  <2>6. end[t - 1] + i \in 1 .. Len(all)
    BY <1>10, <2>3, <2>4, <2>5
  <2> QED
    BY <1>9, <2>1, <2>6
<1>12. \A t \in Txs : Behind(public.values, end[t - 1], data[t])
  BY <1>11 DEF Behind
<1> QED
  BY <1>2, <1>3, <1>4, <1>5, <1>10, <1>12 DEF CalldataEnds

\* What each transaction's call data costs, in terms of the public bytes.
LEMMA CostsOfTxs ==
  ASSUME ConstantsAssumption, NEW end, CalldataEnds(end), NEW t \in Txs
  PROVE  /\ end[t - 1] \in Nat /\ end[t] \in Nat
         /\ end[t] = end[t - 1] + Len(public.data[t])
         /\ public.data[t] \in Seq(Bytes) /\ Len(public.data[t]) \in Nat
         /\ end[t] <= end[MaxTxs] /\ end[MaxTxs] \in Nat /\ end[t] <= MaxCalldata
         /\ \A n \in 0 .. Len(public.data[t]) :
              CostTo(public.data[t], n)
                = CostTo(public.values, end[t - 1] + n) - CostTo(public.values, end[t - 1])
         /\ call_data_gas_cost(public.data[t])
              = CostTo(public.values, end[t]) - CostTo(public.values, end[t - 1])
<1> DEFINE data == public.data
           d == data[t]
<1>1. /\ public.values \in [1 .. MaxCalldata -> Bytes] /\ data \in Seq(Seq(Bytes))
      /\ Len(data) = MaxTxs /\ Ends(end, data) /\ end[MaxTxs] <= MaxCalldata
      /\ MaxTxs \in Nat /\ MaxCalldata \in Nat /\ Behind(public.values, end[t - 1], d)
  BY DEF CalldataEnds, ConstantsAssumption
<1> HIDE DEF data
<1>2. t \in 1 .. Len(data) /\ t \in 0 .. Len(data) /\ t - 1 \in 0 .. Len(data)
      /\ MaxTxs \in 0 .. Len(data) /\ t \in 0 .. MaxTxs
  BY <1>1 DEF Txs
<1>3. d \in Seq(Bytes)
  BY <1>1, <1>2
<1> HIDE DEF d
<1>4. end[t - 1] \in Nat /\ end[t] \in Nat /\ end[MaxTxs] \in Nat /\ end[t] = end[t - 1] + Len(d)
  BY <1>1, <1>2 DEF Ends, d
<1>5. end[t] <= end[MaxTxs]
  BY <1>1, <1>2, EndsOrdered
<1>6. end[t - 1] + Len(d) <= MaxCalldata /\ end[t] <= MaxCalldata
  BY <1>1, <1>4, <1>5
<1>7. \A n \in 0 .. Len(d) :
        CostTo(d, n) = CostTo(public.values, end[t - 1] + n) - CostTo(public.values, end[t - 1])
  BY <1>1, <1>3, <1>4, <1>6, CostOfPart, SMTT(30)
<1>8. call_data_gas_cost(d) = CostTo(d, Len(d)) /\ Len(d) \in 0 .. Len(d)
  <2>1. SubSeq(d, 1, Len(d)) = d /\ Len(d) \in Nat
    BY <1>3
  <2>2. call_data_gas_cost(d) = CostTo(d, Len(d))
    BY <2>1 DEF CostTo
  <2> QED
    BY <2>1, <2>2
<1>9. call_data_gas_cost(d) = CostTo(public.values, end[t]) - CostTo(public.values, end[t - 1])
  BY <1>4, <1>7, <1>8
<1> QED
  BY <1>3, <1>4, <1>5, <1>6, <1>7, <1>9 DEF d, data

-----------------------------------------------------------------------------
(* What each row costs, and which bytes it is charged for.                 *)

\* Row i has the public byte of its place, and if it is a transaction's, its index says
\* where the bytes of that transaction begin and its cost what they cost so far.
RowPriced(rs, values, i) ==
  LET first == i - rs[i].index
  IN  /\ rs[i].value = values[i]
      /\ rs[i].tx_id # Padding =>
           /\ first \in 1 .. i
           /\ \A j \in first .. i : rs[j].tx_id = rs[i].tx_id
           /\ first > 1 => rs[first - 1].tx_id # rs[i].tx_id
           /\ rs[i].calldata_gas_cost = CostTo(values, i) - CostTo(values, first - 1)

Priced == \A i \in DOMAIN rows : RowPriced(rows, public.values, i)

\* The fields of the transactions have been checked.
Looking == accepted => \A t \in Txs : check_tx_table(t)

\* Rows that agree up to i are priced alike.
LEMMA PricedAlike ==
  ASSUME NEW rs, NEW more, NEW values, NEW i \in Nat, i > 0, RowPriced(rs, values, i),
         \A j \in 1 .. i : more[j] = rs[j]
  PROVE  RowPriced(more, values, i)
<1>1. more[i] = rs[i]
  OBVIOUS
<1> DEFINE first == i - rs[i].index
<1>2. CASE rs[i].tx_id = Padding
  BY <1>1, <1>2 DEF RowPriced
<1>3. CASE rs[i].tx_id # Padding
  <2>1. /\ first \in 1 .. i /\ \A j \in first .. i : rs[j].tx_id = rs[i].tx_id
        /\ first > 1 => rs[first - 1].tx_id # rs[i].tx_id
        /\ rs[i].calldata_gas_cost = CostTo(values, i) - CostTo(values, first - 1)
        /\ rs[i].value = values[i]
    BY <1>3 DEF RowPriced
  <2> HIDE DEF first
  <2>2. \A j \in first .. i : more[j].tx_id = rs[i].tx_id
    BY <2>1
  <2>3. first > 1 => more[first - 1].tx_id # rs[i].tx_id
    <3>1. first > 1 => first - 1 \in 1 .. i
      BY <2>1
    <3> QED
      BY <2>1, <3>1
  <2> QED
    BY <1>1, <2>1, <2>2, <2>3 DEF RowPriced, first
<1> QED
  BY <1>2, <1>3

LEMMA LaidPriced ==
  ASSUME IInv, public \in PublicSet, Priced, NEW row, Laid(row)
  PROVE  Priced'
<1> USE ConstantsAssumption
<1> DEFINE n == Len(rows) + 1
           values == public.values
<1>1. /\ TypeOK /\ Ordered /\ public' = public /\ row.value = values[n] /\ row \in RowSet
      /\ values \in [1 .. MaxCalldata -> Bytes] /\ MaxCalldata \in Nat
      /\ n \in 1 .. MaxCalldata /\ n \in 0 .. MaxCalldata
  BY DEF IInv, Laid, PublicSet, TypeOK, ConstantsAssumption
<1>2. /\ \A i \in 1 .. Len(rows) : rows'[i] = rows[i]
      /\ rows'[n] = row /\ DOMAIN rows = 1 .. Len(rows) /\ DOMAIN rows' = 1 .. n
      /\ Len(rows) \in Nat
  BY <1>1, RowsLaid DEF TypeOK
<1> HIDE DEF values
<1>3. /\ \A k \in 0 .. MaxCalldata : CostTo(values, k) \in Nat
      /\ CostTo(values, n) = CostTo(values, n - 1) + gas_cost(row.value)
  <2>1. \A k \in 0 .. MaxCalldata : CostTo(values, k) \in Nat
    BY <1>1, CostSteps
  <2>2. n # 0
    BY <1>1
  <2> HIDE DEF n
  <2>3. CostTo(values, n) = CostTo(values, n - 1) + gas_cost(values[n])
    BY <1>1, <2>2, CostSteps
  <2> QED
    BY <1>1, <2>1, <2>3
<1>4. gas_cost(row.value) \in Nat
  BY DEF gas_cost
<1>5. ASSUME NEW i \in 1 .. Len(rows)
      PROVE  RowPriced(rows', values, i)
  <2>1. RowPriced(rows, values, i)
    BY <1>2 DEF Priced, values
  <2>2. \A j \in 1 .. i : rows'[j] = rows[j]
    BY <1>2
  <2> QED
    BY <2>1, <2>2, PricedAlike
<1>6. RowPriced(rows', values, n)
  <2>1. CASE row.tx_id = Padding
    BY <1>1, <1>2, <2>1 DEF RowPriced
  <2>2. CASE row.tx_id # Padding /\ row.index = 0 /\ row.calldata_gas_cost = gas_cost(row.value)
             /\ (rows # <<>> => LastRow.tx_id # row.tx_id)
    <3>1. n - row.index = n
      BY <1>1, <2>2
    <3>2. \A j \in n .. n : rows'[j].tx_id = row.tx_id
      BY <1>1, <1>2
    <3>3. n > 1 => rows'[n - 1].tx_id # row.tx_id
      BY <1>1, <1>2, <2>2 DEF LastRow
    <3>4. row.calldata_gas_cost = CostTo(values, n) - CostTo(values, n - 1)
      <4>1. n - 1 \in 0 .. MaxCalldata
        BY <1>1
      <4> HIDE DEF n
      <4>2. CostTo(values, n - 1) \in Nat
        BY <1>3, <4>1
      <4> QED
        BY <1>3, <1>4, <2>2, <4>2
    <3> HIDE DEF n
    <3> QED
      BY <1>1, <1>2, <2>2, <3>1, <3>2, <3>3, <3>4 DEF RowPriced
  <2>3. CASE row.tx_id # Padding /\ rows # <<>> /\ LastRow.tx_id = row.tx_id
    <3> DEFINE l == Len(rows)
               first == l - rows[l].index
    <3>1. /\ row.index = LastRow.index + 1
          /\ row.calldata_gas_cost = LastRow.calldata_gas_cost + gas_cost(row.value)
      BY <2>3 DEF Laid, check_row, check_same_tx
    <3>2. l \in 1 .. Len(rows) /\ LastRow = rows[l] /\ rows[l] \in RowSet /\ n = l + 1
      BY <1>1, <1>2, <2>3, RowsLaid DEF LastRow
    <3>3. rows[l].index \in Nat
      BY <3>2 DEF RowSet
    <3>4. n - row.index = first
      BY <1>2, <3>1, <3>2, <3>3
    <3>5. /\ first \in 1 .. l
          /\ \A j \in first .. l : rows[j].tx_id = row.tx_id
          /\ first > 1 => rows[first - 1].tx_id # row.tx_id
          /\ rows[l].calldata_gas_cost = CostTo(values, l) - CostTo(values, first - 1)
      <4>1. RowPriced(rows, values, l)
        BY <1>2, <3>2 DEF Priced, values
      <4> QED
        BY <2>3, <3>2, <4>1 DEF RowPriced
    <3> HIDE DEF first
    <3>6. \A j \in first .. n : rows'[j].tx_id = row.tx_id
      <4> SUFFICES ASSUME NEW j \in first .. n PROVE rows'[j].tx_id = row.tx_id
        OBVIOUS
      <4>1. CASE j = n
        BY <1>2, <4>1
      <4>2. CASE j # n
        <5>1. j \in first .. l /\ j \in 1 .. Len(rows)
          BY <1>2, <3>2, <3>5, <4>2
        <5> QED
          BY <1>2, <3>5, <5>1
      <4> QED
        BY <4>1, <4>2
    <3>7. first > 1 => rows'[first - 1].tx_id # row.tx_id
      <4>1. first > 1 => first - 1 \in 1 .. Len(rows)
        BY <1>2, <3>2, <3>5
      <4> QED
        BY <1>2, <3>5, <4>1
    <3>8. row.calldata_gas_cost = CostTo(values, n) - CostTo(values, first - 1)
      <4>1. n - 1 = l /\ l \in 0 .. MaxCalldata /\ first - 1 \in 0 .. MaxCalldata
        BY <1>1, <1>2, <3>2, <3>5
      <4>2. CostTo(values, l) \in Nat /\ CostTo(values, first - 1) \in Nat
        BY <1>3, <4>1
      <4>3. CostTo(values, n) = CostTo(values, l) + gas_cost(row.value)
        BY <1>3, <4>1
      <4> HIDE DEF n, l
      <4> QED
        BY <1>4, <3>1, <3>2, <3>5, <4>2, <4>3
    <3>9. first \in 1 .. n
      BY <1>2, <3>2, <3>5
    <3> HIDE DEF n, l
    <3> QED
      BY <1>1, <1>2, <3>4, <3>6, <3>7, <3>8, <3>9 DEF RowPriced
  <2>4. CASE row.tx_id # Padding /\ rows = <<>>
    <3>1. row.index = 0 /\ row.calldata_gas_cost = gas_cost(row.value)
      BY <2>4 DEF Laid, check_calldata_start
    <3> QED
      BY <2>2, <2>4, <3>1
  <2>5. CASE row.tx_id # Padding /\ rows # <<>> /\ LastRow.tx_id # row.tx_id
    <3>1. LastRow.tx_id # Padding
      <4>1. Len(rows) \in DOMAIN rows
        BY <1>1, <2>5, RowsLaid
      <4> QED
        BY <1>1, <2>5, <4>1, LaidInOrder DEF LastRow
    <3>2. check_next_tx(LastRow, row)
      BY <2>5, <3>1, NextOfOther DEF Laid
    <3>3. row.index = 0 /\ row.calldata_gas_cost = gas_cost(row.value)
      BY <2>5, <3>2 DEF check_next_tx
    <3> QED
      BY <2>2, <2>5, <3>3
  <2> QED
    BY <2>1, <2>3, <2>4, <2>5
<1>7. \A i \in 1 .. n : i \in 1 .. Len(rows) \/ i = n
  BY <1>2
<1>8. \A i \in DOMAIN rows' : RowPriced(rows', values, i)
  BY <1>2, <1>5, <1>6, <1>7
<1> QED
  BY <1>1, <1>8 DEF Priced, values

PricedInv == IInv /\ OfData /\ Priced /\ Looking

LEMMA InitPriced == Init => PricedInv
<1> SUFFICES ASSUME Init PROVE PricedInv
  OBVIOUS
<1>1. IInv
  BY InitIInv
<1>2. rows = <<>> /\ accepted = FALSE
  BY DEF Init
<1> QED
  BY <1>1, <1>2 DEF PricedInv, OfData, Priced, Looking, Init

LEMMA NextPriced ==
  ASSUME PricedInv, [Next]_vars
  PROVE  PricedInv'
<1> USE ConstantsAssumption
<1>1. IInv /\ OfData /\ Priced /\ Looking /\ IInv'
  BY NextIInv DEF PricedInv
<1>2. CASE FirstRow \/ AppendRow
  <2>1. PICK row : Laid(row)
    BY <1>1, <1>2, LaidDown DEF IInv
  <2>2. public' = public /\ accepted' = accepted /\ ~accepted
    BY <1>1, <2>1 DEF Laid, IInv, TypeOK, Complete, ConstantsAssumption
  <2>3. Priced'
    BY <1>1, <2>1, LaidPriced DEF OfData
  <2>4. OfData' /\ Looking'
    BY <1>1, <2>2 DEF OfData, Looking, IInv, TypeOK
  <2> QED
    BY <1>1, <2>3, <2>4 DEF PricedInv
<1>3. CASE Accept
  <2>1. rows' = rows /\ public' = public /\ \A t \in Txs : check_tx_table(t)
    BY <1>3 DEF Accept
  <2>2. \A t \in Txs : check_tx_table(t)'
    BY <2>1 DEF check_tx_table
  <2> QED
    BY <1>1, <2>1, <2>2 DEF PricedInv, OfData, Priced, Looking
<1>4. CASE UNCHANGED vars
  BY <1>1, <1>4 DEF vars, PricedInv, OfData, Priced, Looking, check_tx_table
<1> QED
  BY <1>2, <1>3, <1>4 DEF Next

\* Every row has its public byte and its cost, and an accepted block its costs.
THEOREM RowsArePriced == Spec => []PricedInv
BY InitPriced, NextPriced, PTL DEF Spec

-----------------------------------------------------------------------------
(* The call data of the first transactions.                                *)

\* The rows of a transaction are those of its call data.
Own(end, t) == RowsOf(t) = (end[t - 1] + 1) .. end[t]

LEMMA RowsTyped ==
  ASSUME TypeOK, NEW p \in DOMAIN rows
  PROVE  /\ rows[p] \in RowSet /\ rows[p].tx_id \in Ids \cup {Padding}
         /\ rows[p].index \in Nat
<1>1. rows[p] \in RowSet
  BY DEF TypeOK
<1> QED
  BY <1>1 DEF RowSet

\* If the rows of all transactions before t are their own, those of t begin where theirs end.
LEMMA RowsBefore ==
  ASSUME PricedInv, accepted, NEW end, CalldataEnds(end), NEW t \in Txs,
         \A u \in 1 .. t - 1 : Own(end, u)
  PROVE  /\ \A p \in 1 .. end[t - 1] : rows[p].tx_id \in 1 .. t - 1
         /\ \A p \in DOMAIN rows : p > end[t - 1] => rows[p].tx_id \notin 1 .. t - 1
<1> DEFINE data == public.data
<1>1. /\ data \in Seq(Seq(Bytes)) /\ Ends(end, data) /\ Len(data) = MaxTxs /\ MaxTxs \in Nat
      /\ t \in 1 .. MaxTxs
  BY ConstantsAssumption DEF CalldataEnds, ConstantsAssumption, Txs
<1> HIDE DEF data
<1>2. /\ \A u \in 0 .. MaxTxs : \A v \in 0 .. u : end[v] <= end[u]
      /\ \A p \in 1 .. end[MaxTxs] : \E u \in 1 .. MaxTxs : end[u - 1] < p /\ p <= end[u]
  BY <1>1, EndsOrdered
<1>3. \A u \in 0 .. MaxTxs : end[u] \in Nat
  BY <1>1 DEF Ends
<1>4. ASSUME NEW p \in 1 .. end[t - 1]
      PROVE  rows[p].tx_id \in 1 .. t - 1
  <2>1. t - 1 \in 0 .. MaxTxs /\ MaxTxs \in 0 .. MaxTxs /\ t - 1 \in 0 .. MaxTxs
    BY <1>1
  <2>2. end[t - 1] <= end[MaxTxs] /\ end[t - 1] \in Nat /\ end[MaxTxs] \in Nat
    BY <1>2, <1>3, <2>1
  <2>3. p \in 1 .. end[MaxTxs]
    BY <2>2
  <2>4. PICK u \in 1 .. MaxTxs : end[u - 1] < p /\ p <= end[u]
    BY <1>2, <2>3
  <2>5. u < t
    <3> SUFFICES ASSUME t <= u PROVE FALSE
      BY <1>1
    <3>1. u - 1 \in 0 .. MaxTxs /\ t - 1 \in 0 .. u - 1
      BY <1>1
    <3>2. end[t - 1] <= end[u - 1] /\ end[u - 1] \in Nat
      BY <1>2, <1>3, <3>1
    <3> QED
      BY <2>2, <2>4, <3>2
  <2>6. u \in 1 .. t - 1 /\ u - 1 \in 0 .. MaxTxs /\ u \in 0 .. MaxTxs
    BY <1>1, <2>5
  <2>7. end[u - 1] \in Nat /\ end[u] \in Nat
    BY <1>3, <2>6
  <2>8. p \in (end[u - 1] + 1) .. end[u]
    BY <2>4, <2>7
  <2>9. p \in RowsOf(u)
    BY <2>6, <2>8 DEF Own
  <2> QED
    BY <2>6, <2>9 DEF RowsOf
<1>5. ASSUME NEW p \in DOMAIN rows, p > end[t - 1], rows[p].tx_id \in 1 .. t - 1
      PROVE  FALSE
  <2> DEFINE u == rows[p].tx_id
  <2>1. p \in RowsOf(u) /\ u \in 1 .. t - 1
    BY <1>5 DEF RowsOf
  <2> HIDE DEF u
  <2>2. u \in 0 .. t - 1 /\ u \in 0 .. MaxTxs /\ t - 1 \in 0 .. MaxTxs /\ u - 1 \in 0 .. MaxTxs
    BY <1>1, <2>1
  <2>3. end[u] <= end[t - 1] /\ end[u] \in Nat /\ end[t - 1] \in Nat /\ end[u - 1] \in Nat
    BY <1>2, <1>3, <2>2
  <2>4. p \in (end[u - 1] + 1) .. end[u]
    BY <2>1 DEF Own
  <2> QED
    BY <1>5, <2>3, <2>4
<1> QED
  BY <1>4, <1>5

\* A transaction whose stated cost is right has exactly its own rows, as no other number of
\* bytes costs the same.
LEMMA OwnNext ==
  ASSUME PricedInv, accepted, NEW end, CalldataEnds(end), NEW t \in Txs,
         \A i \in DOMAIN rows : rows[i].tx_id >= 0,
         \A u \in 1 .. t - 1 : Own(end, u), public.data[t] # <<>>,
         public.CallDataGasCost[t] = call_data_gas_cost(public.data[t])
  PROVE  Own(end, t)
<1> USE ConstantsAssumption
<1> DEFINE values == public.values
           begin == end[t - 1]
           stop == end[t]
<1>1. /\ TypeOK /\ Ordered /\ FinalsAreLast /\ Priced /\ check_tx_table(t)
      /\ Len(rows) = MaxCalldata
  BY DEF PricedInv, IInv, Looking, Complete
<1>2. /\ \A p \in 1 .. begin : rows[p].tx_id \in 1 .. t - 1
      /\ \A p \in DOMAIN rows : p > begin => rows[p].tx_id \notin 1 .. t - 1
  BY RowsBefore
<1>3. /\ values \in [1 .. MaxCalldata -> Bytes] /\ MaxCalldata \in Nat
      /\ public.CallDataLength[t] = Len(public.data[t]) /\ public.data[t] \in Seq(Bytes)
      /\ begin \in Nat /\ stop \in Nat /\ stop = begin + Len(public.data[t])
      /\ stop <= MaxCalldata
      /\ public.CallDataGasCost[t] = CostTo(values, stop) - CostTo(values, begin)
  BY CostsOfTxs DEF CalldataEnds, ConstantsAssumption
<1>4. \A k \in 0 .. MaxCalldata : CostTo(values, k) \in Nat
  BY <1>3, CostSteps
<1> HIDE DEF values, begin, stop
<1>5. public.CallDataLength[t] # 0
  BY <1>3
<1>6. PICK i \in DOMAIN rows : /\ rows[i].tx_id = t /\ rows[i].is_final = 1
                               /\ rows[i].calldata_gas_cost = public.CallDataGasCost[t]
  BY <1>1, <1>5 DEF check_tx_table
<1>7. /\ DOMAIN rows = 1 .. Len(rows) /\ Len(rows) \in Nat /\ i \in 1 .. MaxCalldata
      /\ t \in Nat /\ t # Padding /\ t >= 1
      /\ \A p \in DOMAIN rows : rows[p].tx_id \in Int
  <2>1. \A p \in DOMAIN rows : rows[p].tx_id \in Int
    BY <1>1, RowsTyped, IdsAreIntegers
  <2> QED
    BY <1>1, <1>3, <2>1 DEF TypeOK, Txs, Padding, ConstantsAssumption
<1> DEFINE first == i - rows[i].index
<1>8. /\ first \in 1 .. i
      /\ \A j \in first .. i : rows[j].tx_id = t
      /\ first > 1 => rows[first - 1].tx_id # t
      /\ rows[i].calldata_gas_cost = CostTo(values, i) - CostTo(values, first - 1)
  BY <1>1, <1>6, <1>7 DEF Priced, RowPriced, values
<1> HIDE DEF first
<1>9. first = begin + 1
  <2>1. first > begin
    <3> SUFFICES ASSUME first <= begin PROVE FALSE
      BY <1>3, <1>8
    <3>1. first \in 1 .. begin /\ first \in first .. i
      BY <1>3, <1>7, <1>8
    <3> QED
      BY <1>2, <1>7, <1>8, <3>1
  <2>2. ~(first > begin + 1)
    <3> SUFFICES ASSUME first > begin + 1 PROVE FALSE
      OBVIOUS
    <3> DEFINE p == first - 1
    <3>1. p \in DOMAIN rows /\ p > begin /\ p < i /\ rows[p].tx_id # t
      BY <1>1, <1>3, <1>7, <1>8
    <3>2. rows[p].tx_id # Padding /\ rows[p].tx_id <= t
      BY <1>1, <1>6, <1>7, <3>1 DEF Ordered
    <3>3. rows[p].tx_id >= 0
      BY <3>1
    <3>4. rows[p].tx_id \in 1 .. t - 1
      BY <1>7, <3>1, <3>2, <3>3 DEF Padding
    <3> QED
      BY <1>2, <3>1, <3>4
  <2> QED
    BY <1>3, <1>7, <1>8, <2>1, <2>2
<1>10. i = stop
  <2>1. /\ i \in 0 .. MaxCalldata /\ stop \in 0 .. MaxCalldata /\ begin \in 0 .. MaxCalldata
        /\ first - 1 = begin
    BY <1>3, <1>7, <1>9
  <2>2. CostTo(values, i) = CostTo(values, stop)
    BY <1>3, <1>4, <1>6, <1>8, <2>1, SMTT(30)
  <2>3. ~(i < stop)
    <3> SUFFICES ASSUME i < stop PROVE FALSE
      OBVIOUS
    <3>1. CostTo(values, i) < CostTo(values, stop)
      BY <1>3, <2>1, CostIncreases
    <3> QED
      BY <1>4, <2>1, <2>2, <3>1
  <2>4. ~(stop < i)
    <3> SUFFICES ASSUME stop < i PROVE FALSE
      OBVIOUS
    <3>1. CostTo(values, stop) < CostTo(values, i)
      BY <1>3, <2>1, CostIncreases
    <3> QED
      BY <1>4, <2>1, <2>2, <3>1
  <2> QED
    BY <2>1, <2>3, <2>4
<1>11. ASSUME NEW j \in DOMAIN rows
       PROVE  rows[j].tx_id = t <=> j \in (begin + 1) .. stop
  <2>1. j \in (begin + 1) .. stop => rows[j].tx_id = t
    BY <1>8, <1>9, <1>10
  <2>2. j <= begin => rows[j].tx_id # t
    BY <1>2, <1>3, <1>7
  <2>3. j > stop => rows[j].tx_id # t
    BY <1>1, <1>6, <1>7, <1>10 DEF FinalsAreLast
  <2> QED
    BY <1>3, <1>7, <2>1, <2>2, <2>3
<1>12. (begin + 1) .. stop \subseteq DOMAIN rows
  BY <1>1, <1>3, <1>7
<1>13. RowsOf(t) = (begin + 1) .. stop
  BY <1>11, <1>12 DEF RowsOf
<1> QED
  BY <1>13 DEF Own, begin, stop

\* The rows of a transaction that are its own have its bytes, each at its index.
LEMMA OwnBytes ==
  ASSUME PricedInv, accepted, NEW end, CalldataEnds(end), NEW t \in Txs,
         \A u \in 1 .. t : Own(end, u), NEW i \in RowsOf(t)
  PROVE  /\ i - end[t - 1] \in 1 .. Len(public.data[t])
         /\ rows[i].index = (i - end[t - 1]) - 1
         /\ rows[i].value = public.data[t][i - end[t - 1]]
<1> USE ConstantsAssumption
<1> DEFINE begin == end[t - 1]
           stop == end[t]
           d == public.data[t]
<1>1. /\ begin \in Nat /\ stop \in Nat /\ stop = begin + Len(d) /\ d \in Seq(Bytes)
      /\ Len(d) \in Nat /\ Behind(public.values, begin, d)
  BY CostsOfTxs DEF CalldataEnds
<1>2. t \in 1 .. t /\ t \in Nat /\ \A u \in 1 .. t - 1 : Own(end, u)
  BY DEF Txs, ConstantsAssumption
<1>3. RowsOf(t) = (begin + 1) .. stop
  BY <1>2 DEF Own
<1>4. \A p \in 1 .. begin : rows[p].tx_id \in 1 .. t - 1
  BY <1>2, RowsBefore
<1> HIDE DEF begin, stop, d
<1>5. i \in (begin + 1) .. stop /\ i \in DOMAIN rows /\ rows[i].tx_id = t /\ t # Padding
  BY <1>2, <1>3 DEF RowsOf, Txs, Padding
<1>6. i - begin \in 1 .. Len(d) /\ begin + (i - begin) = i
  BY <1>1, <1>5
<1> DEFINE first == i - rows[i].index
<1>7. /\ first \in 1 .. i /\ \A j \in first .. i : rows[j].tx_id = t
      /\ first > 1 => rows[first - 1].tx_id # t
      /\ rows[i].value = public.values[i]
  BY <1>5 DEF PricedInv, Priced, RowPriced
<1>8. rows[i].index \in Nat
  BY <1>5, RowsTyped DEF PricedInv, IInv
<1>9. first = begin + 1
  <2> HIDE DEF first
  <2>1. ~(first <= begin)
    <3> SUFFICES ASSUME first <= begin PROVE FALSE
      OBVIOUS
    <3>1. first \in 1 .. begin /\ first \in first .. i
      BY <1>1, <1>5, <1>7
    <3> QED
      BY <1>2, <1>4, <1>7, <3>1
  <2>2. ~(first > begin + 1)
    <3> SUFFICES ASSUME first > begin + 1 PROVE FALSE
      OBVIOUS
    <3>1. first - 1 \in (begin + 1) .. stop /\ first > 1
      BY <1>1, <1>5, <1>7
    <3>2. rows[first - 1].tx_id = t
      BY <1>3, <3>1 DEF RowsOf
    <3> QED
      BY <1>7, <3>1, <3>2
  <2> QED
    BY <1>1, <1>7, <2>1, <2>2
<1>10. rows[i].index = (i - begin) - 1
  BY <1>1, <1>5, <1>8, <1>9
<1>11. rows[i].value = d[i - begin]
  BY <1>1, <1>6, <1>7 DEF Behind
<1> QED
  BY <1>6, <1>10, <1>11 DEF begin, d

LEMMA PricedLeads ==
  ASSUME PricedInv, accepted, \A i \in DOMAIN rows : rows[i].tx_id >= 0, NEW t \in Txs,
         \A u \in 1 .. t : /\ public.data[u] # <<>>
                           /\ public.CallDataGasCost[u] = call_data_gas_cost(public.data[u])
  PROVE  {r \in Looked : r[1] = t} = {<<t, i - 1, public.data[t][i]>> : i \in DOMAIN public.data[t]}
<1> USE ConstantsAssumption
<1>1. PICK end : CalldataEnds(end)
  BY CalldataHasEnds DEF PricedInv
<1>2. t \in Nat /\ MaxTxs \in Nat /\ t <= MaxTxs
  BY DEF Txs, ConstantsAssumption
<1> DEFINE S == {k \in Nat : k <= t => \A u \in 1 .. k : Own(end, u)}
<1>3. 0 \in S
  OBVIOUS
<1>4. ASSUME NEW k \in Nat, k \in S
      PROVE  k + 1 \in S
  <2> SUFFICES ASSUME k + 1 <= t, NEW u \in 1 .. k + 1 PROVE Own(end, u)
    OBVIOUS
  <2>1. k + 1 \in Txs /\ k + 1 \in 1 .. t /\ \A v \in 1 .. (k + 1) - 1 : Own(end, v)
    BY <1>2, <1>4 DEF Txs
  <2>2. Own(end, k + 1)
    BY <1>1, <2>1, OwnNext
  <2> QED
    BY <2>1, <2>2
<1>5. \A u \in 1 .. t : Own(end, u)
  <2> HIDE DEF S
  <2>1. t \in S
    BY <1>2, <1>3, <1>4, Induct
  <2> QED
    BY <1>2, <2>1 DEF S
<1> DEFINE begin == end[t - 1]
           d == public.data[t]
<1>6. /\ begin \in Nat /\ end[t] = begin + Len(d) /\ Len(d) \in Nat /\ DOMAIN d = 1 .. Len(d)
  BY <1>1, CostsOfTxs
<1>7. RowsOf(t) = (begin + 1) .. end[t]
  <2>1. t \in 1 .. t
    BY <1>2 DEF Txs
  <2> QED
    BY <1>5, <2>1 DEF Own
<1>8. \A i \in RowsOf(t) : /\ i - begin \in 1 .. Len(d)
                           /\ rows[i].index = (i - begin) - 1
                           /\ rows[i].value = d[i - begin]
                           /\ i \in DOMAIN rows /\ rows[i].tx_id = t
  BY <1>1, <1>5, OwnBytes DEF RowsOf
<1>9. t \in Ids
  BY <1>2 DEF Ids, Txs
<1> HIDE DEF begin, d
<1>10. ASSUME NEW r \in Looked, r[1] = t
       PROVE  \E i \in 1 .. Len(d) : r = <<t, i - 1, d[i]>>
  <2>1. PICK i \in DOMAIN rows : r = <<rows[i].tx_id, rows[i].index, rows[i].value>>
    BY DEF Looked
  <2>2. i \in RowsOf(t)
    BY <1>10, <2>1 DEF RowsOf
  <2> QED
    BY <1>8, <2>1, <2>2
<1>11. ASSUME NEW i \in 1 .. Len(d)
       PROVE  <<t, i - 1, d[i]>> \in Looked
  <2>1. begin + i \in RowsOf(t) /\ (begin + i) - begin = i
    BY <1>6, <1>7
  <2>2. begin + i \in DOMAIN rows /\ rows[begin + i].tx_id = t
        /\ rows[begin + i].index = i - 1 /\ rows[begin + i].value = d[i]
    BY <1>8, <2>1
  <2> QED
    BY <1>9, <2>2 DEF Looked
<1>12. \A i \in 1 .. Len(d) : <<t, i - 1, d[i]>>[1] = t
  OBVIOUS
<1> QED
  BY <1>6, <1>10, <1>11, <1>12, SMTT(30) DEF d

\* The call data a transaction looks up is its own and nothing else, for all transactions up
\* to the first one without call data, if the costs are right and the section does not begin
\* with bytes of an id below 1 (check_row, check_tx_table).
THEOREM FirstCalldataIsOwn == Spec => []LeadingCalldata
<1>1. PricedInv => LeadingCalldata
  BY PricedLeads DEF LeadingCalldata
<1> QED
  BY <1>1, RowsArePriced, PTL

-----------------------------------------------------------------------------
(* The table of the witness builder.                                       *)

\* The rows of transaction t in it.
BuiltFor(data, t) ==
  [i \in DOMAIN data[t] |->
     [tx_id |-> t, index |-> i - 1, value |-> data[t][i],
      calldata_gas_cost |-> CostTo(data[t], i),
      is_final |-> IF i = Len(data[t]) THEN 1 ELSE 0]]

\* Row i of transaction t.
BuiltRow(end, t, i) ==
  [tx_id |-> t, index |-> i - 1, value |-> public.values[end[t - 1] + i],
   calldata_gas_cost |-> CostTo(public.values, end[t - 1] + i) - CostTo(public.values, end[t - 1]),
   is_final |-> IF i = Len(public.data[t]) THEN 1 ELSE 0]

\* The rows of the transactions lie one after the other, and padding after them.
LEMMA BuiltRows ==
  ASSUME ConstantsAssumption, NEW end, CalldataEnds(end)
  PROVE  LET built == tx_table_tx_calldata_cols(public.data)
         IN  /\ \A t \in Txs : \A i \in 1 .. Len(public.data[t]) :
                  built[end[t - 1] + i] = BuiltRow(end, t, i)
             /\ \A p \in (end[MaxTxs] + 1) .. MaxCalldata : built[p] = NoRow
             /\ Len(built) = MaxCalldata /\ \E S : built \in Seq(S)
<1> DEFINE data == public.data
           seqs == [t \in Txs |-> BuiltFor(data, t)]
           R == UNION {{BuiltFor(data, t)[i] : i \in DOMAIN data[t]} : t \in Txs}
           all == FlattenSeq(seqs)
           pad == [i \in 1 .. MaxCalldata - Len(all) |-> NoRow]
           built == tx_table_tx_calldata_cols(data)
<1>1. /\ data \in Seq(Seq(Bytes)) /\ Ends(end, data) /\ Len(data) = MaxTxs /\ MaxTxs \in Nat
      /\ MaxCalldata \in Nat /\ end[MaxTxs] \in Nat /\ end[MaxTxs] <= MaxCalldata
  <2>1. /\ data \in Seq(Seq(Bytes)) /\ Ends(end, data) /\ Len(data) = MaxTxs /\ MaxTxs \in Nat
        /\ MaxCalldata \in Nat /\ end[MaxTxs] <= MaxCalldata
    BY DEF CalldataEnds, ConstantsAssumption
  <2> HIDE DEF data
  <2>2. end[MaxTxs] \in Nat
    BY <2>1 DEF Ends
  <2> QED
    BY <2>1, <2>2
<1>2. built = all \o pad
  BY DEF tx_table_tx_calldata_cols, BuiltFor, CostTo
<1>3. ASSUME NEW t \in Txs
      PROVE  /\ data[t] \in Seq(Bytes) /\ DOMAIN data[t] = 1 .. Len(data[t])
             /\ BuiltFor(data, t) \in Seq(R) /\ Len(BuiltFor(data, t)) = Len(data[t])
             /\ Len(data[t]) \in Nat
  <2>1. data[t] \in Seq(Bytes) /\ Len(data[t]) \in Nat /\ DOMAIN data[t] = 1 .. Len(data[t])
    BY <1>1 DEF Txs
  <2>2. \A i \in DOMAIN data[t] : BuiltFor(data, t)[i] \in R
    OBVIOUS
  <2> HIDE DEF R, data
  <2>3. BuiltFor(data, t) \in [1 .. Len(data[t]) -> R]
    BY <2>1, <2>2 DEF BuiltFor
  <2>4. BuiltFor(data, t) \in Seq(R) /\ Len(BuiltFor(data, t)) = Len(data[t])
    BY <2>1, <2>3
  <2> QED
    BY <2>1, <2>4
<1> HIDE DEF R, data
<1>4. seqs \in Seq(Seq(R)) /\ Len(seqs) = MaxTxs /\ \A t \in Txs : seqs[t] = BuiltFor(data, t)
  <2>1. seqs \in [1 .. MaxTxs -> Seq(R)]
    BY <1>3 DEF Txs
  <2> QED
    BY <1>1, <2>1
<1> HIDE DEF seqs
<1>5. Ends(end, seqs)
  <2>1. \A t \in 1 .. MaxTxs : Len(seqs[t]) = Len(data[t])
    BY <1>3, <1>4 DEF Txs
  <2> QED
    BY <1>1, <1>4, <2>1 DEF Ends
<1>6. all \in Seq(R) /\ Laying(all, seqs, end, Len(seqs))
  BY <1>4, <1>5, Flattened
<1> HIDE DEF all
<1>7. Len(all) = end[MaxTxs]
  BY <1>4, <1>6 DEF Laying
<1>8. pad \in Seq({NoRow}) /\ Len(pad) = MaxCalldata - Len(all)
      /\ \A i \in 1 .. MaxCalldata - Len(all) : pad[i] = NoRow
  <2>1. MaxCalldata - Len(all) \in Nat
    BY <1>1, <1>7
  <2> QED
    BY <2>1
<1> HIDE DEF pad
<1>9. /\ \A p \in 1 .. Len(all) : built[p] = all[p]
      /\ \A i \in 1 .. Len(pad) : built[Len(all) + i] = pad[i]
  BY <1>2, <1>6, <1>8
<1>12. Len(built) = MaxCalldata /\ \E S : built \in Seq(S)
  <2> DEFINE S == R \cup {NoRow}
  <2>1. R \subseteq S /\ {NoRow} \subseteq S
    OBVIOUS
  <2> HIDE DEF S
  <2>2. all \in Seq(S) /\ pad \in Seq(S)
    BY <1>6, <1>8, <2>1
  <2>3. all \o pad \in Seq(S) /\ Len(all \o pad) = Len(all) + Len(pad)
    BY <2>2
  <2>4. Len(all) + Len(pad) = MaxCalldata
    BY <1>1, <1>7, <1>8
  <2> QED
    BY <1>2, <2>3, <2>4
<1> HIDE DEF built
<1>10. ASSUME NEW p \in (end[MaxTxs] + 1) .. MaxCalldata
       PROVE  built[p] = NoRow
  <2>1. p - Len(all) \in 1 .. MaxCalldata - Len(all) /\ Len(all) + (p - Len(all)) = p
    BY <1>1, <1>7
  <2> QED
    BY <1>8, <1>9, <2>1
<1>11. ASSUME NEW t \in Txs, NEW i \in 1 .. Len(data[t])
       PROVE  built[end[t - 1] + i] = BuiltRow(end, t, i)
  <2>1. /\ end[t - 1] \in Nat /\ end[t] \in Nat /\ end[t] = end[t - 1] + Len(data[t])
        /\ end[t] <= end[MaxTxs] /\ Len(data[t]) \in Nat
        /\ CostTo(data[t], i)
             = CostTo(public.values, end[t - 1] + i) - CostTo(public.values, end[t - 1])
    <3>1. i \in 0 .. Len(data[t])
      BY <1>3
    <3> QED
      BY <3>1, CostsOfTxs DEF data
  <2>2. end[t - 1] + i \in 1 .. Len(all)
    BY <1>1, <1>7, <2>1, SMTT(90)
  <2>3. all[end[t - 1] + i] = seqs[t][i]
    BY <1>3, <1>4, <1>6 DEF Laying, Txs
  <2>4. public.values[end[t - 1] + i] = data[t][i]
    BY DEF CalldataEnds, Behind, data
  <2>5. seqs[t][i] = [tx_id |-> t, index |-> i - 1, value |-> data[t][i],
                      calldata_gas_cost |-> CostTo(data[t], i),
                      is_final |-> IF i = Len(data[t]) THEN 1 ELSE 0]
    <3>1. seqs[t] = BuiltFor(data, t) /\ i \in DOMAIN data[t]
      BY <1>3, <1>4
    <3> QED
      BY <3>1 DEF BuiltFor
  <2>6. seqs[t][i] = BuiltRow(end, t, i)
    <3>1. Len(data[t]) = Len(public.data[t])
      BY DEF data
    <3> QED
      BY <2>1, <2>4, <2>5, <3>1 DEF BuiltRow
  <2> QED
    BY <1>9, <2>2, <2>3, <2>6
<1> QED
  BY <1>10, <1>11, <1>12 DEF built, data

\* Each place in the section is padding or a byte of one transaction.
LEMMA BuiltPlaces ==
  ASSUME ConstantsAssumption, NEW end, CalldataEnds(end), NEW p \in 1 .. MaxCalldata
  PROVE  \/ p > end[MaxTxs]
         \/ \E t \in Txs : p - end[t - 1] \in 1 .. Len(public.data[t])
<1> DEFINE data == public.data
<1>1. /\ data \in Seq(Seq(Bytes)) /\ Ends(end, data) /\ Len(data) = MaxTxs
  BY DEF CalldataEnds
<1>2. MaxTxs \in Nat /\ end[MaxTxs] \in Nat /\ MaxCalldata \in Nat
  <2> HIDE DEF data
  <2>1. MaxTxs \in Nat /\ MaxCalldata \in Nat
    BY DEF ConstantsAssumption
  <2> QED
    BY <1>1, <2>1 DEF Ends
<1> HIDE DEF data
<1>3. CASE p <= end[MaxTxs]
  <2>1. PICK t \in 1 .. MaxTxs : end[t - 1] < p /\ p <= end[t]
    BY <1>1, <1>2, <1>3, EndsOrdered
  <2>2. end[t - 1] \in Nat /\ end[t] = end[t - 1] + Len(public.data[t])
        /\ Len(public.data[t]) \in Nat
    BY <2>1, CostsOfTxs DEF Txs
  <2>3. p - end[t - 1] \in 1 .. Len(public.data[t])
    BY <2>1, <2>2
  <2> QED
    BY <2>3 DEF Txs
<1> QED
  BY <1>2, <1>3

\* The row of a byte of a transaction, and the next row, pass.
LEMMA BuiltPass ==
  ASSUME ConstantsAssumption, MaxTxs <= U16Max + 2, NEW end, CalldataEnds(end),
         NEW p \in 1 .. MaxCalldata - 1
  PROVE  LET built == tx_table_tx_calldata_cols(public.data)
         IN  check_row(built[p], built[p + 1])
<1> DEFINE built == tx_table_tx_calldata_cols(public.data)
           values == public.values
<1>1. /\ values \in [1 .. MaxCalldata -> Bytes] /\ MaxCalldata \in Nat /\ MaxTxs \in Nat
      /\ p \in 1 .. MaxCalldata /\ p + 1 \in 1 .. MaxCalldata /\ U16Max = 65535
      /\ end[MaxTxs] <= MaxCalldata
  BY DEF CalldataEnds, ConstantsAssumption, U16Max
<1>2. /\ \A t \in Txs : \A i \in 1 .. Len(public.data[t]) :
           built[end[t - 1] + i] = BuiltRow(end, t, i)
      /\ \A q \in (end[MaxTxs] + 1) .. MaxCalldata : built[q] = NoRow
  BY BuiltRows
<1> HIDE DEF built, values
<1>3. \A k \in 0 .. MaxCalldata : CostTo(values, k) \in Nat
  BY <1>1, CostSteps
<1>4. end[MaxTxs] \in Nat
  <2>1. MaxTxs \in 0 .. Len(public.data) /\ Ends(end, public.data)
    BY <1>1 DEF CalldataEnds
  <2> QED
    BY <2>1 DEF Ends
<1>5. CostTo(values, p + 1) = CostTo(values, p) + gas_cost(values[p + 1])
      /\ gas_cost(values[p + 1]) \in Nat
  <2> DEFINE q == p + 1
  <2>1. q \in 0 .. MaxCalldata /\ q # 0 /\ q - 1 = p
    BY <1>1
  <2>0. values \in [1 .. MaxCalldata -> Bytes] /\ MaxCalldata \in Nat
    BY <1>1
  <2> HIDE DEF q
  <2>2. CostTo(values, q) = CostTo(values, q - 1) + gas_cost(values[q])
    BY <2>0, <2>1, CostSteps
  <2>3. CostTo(values, q) = CostTo(values, p) + gas_cost(values[q])
    BY <2>1, <2>2
  <2> QED
    BY <2>3 DEF q, gas_cost
<1>6. CASE p > end[MaxTxs]
  <2>1. built[p] = NoRow /\ built[p + 1] = NoRow
    BY <1>1, <1>2, <1>4, <1>6
  <2> QED
    BY <2>1 DEF check_row, check_padding, NoRow, built
<1>7. ASSUME NEW t \in Txs, p - end[t - 1] \in 1 .. Len(public.data[t])
      PROVE  check_row(built[p], built[p + 1])
  <2> DEFINE begin == end[t - 1]
             l == Len(public.data[t])
             i == p - begin
  <2>1. /\ begin \in Nat /\ l \in Nat /\ end[t] = begin + l /\ end[t] <= end[MaxTxs]
        /\ begin + i = p /\ i \in 1 .. l /\ t \in 1 .. MaxTxs
    BY <1>7, CostsOfTxs DEF Txs
  <2>2. built[p] = BuiltRow(end, t, i)
    BY <1>2, <2>1
  <2> HIDE DEF begin, l, i
  <2>3. /\ built[p].tx_id = t /\ built[p].index = i - 1
        /\ built[p].calldata_gas_cost = CostTo(values, p) - CostTo(values, begin)
        /\ built[p].is_final = IF i = l THEN 1 ELSE 0
        /\ t # Padding
    BY <2>1, <2>2 DEF BuiltRow, values, begin, l, Padding
  <2>4. CostTo(values, p) \in Nat /\ CostTo(values, begin) \in Nat
    <3>1. p \in 0 .. MaxCalldata /\ begin \in 0 .. MaxCalldata
      BY <1>1, <2>1
    <3> QED
      BY <1>3, <3>1
  <2>5. CASE i < l
    <3>1. i + 1 \in 1 .. l /\ begin + (i + 1) = p + 1
      BY <2>1, <2>5
    <3>2. built[p + 1] = BuiltRow(end, t, i + 1)
      BY <1>2, <3>1 DEF begin, l
    <3>3. /\ built[p + 1].tx_id = t /\ built[p + 1].index = (i + 1) - 1
          /\ built[p + 1].calldata_gas_cost = CostTo(values, p + 1) - CostTo(values, begin)
          /\ built[p + 1].value = values[p + 1]
      BY <3>1, <3>2 DEF BuiltRow, values, begin
    <3>4. check_same_tx(built[p], built[p + 1])
      BY <1>5, <2>1, <2>3, <2>4, <2>5, <3>3 DEF check_same_tx
    <3> QED
      BY <2>3, <3>3, <3>4 DEF check_row
  <2>6. CASE i = l /\ p + 1 > end[MaxTxs]
    <3>1. built[p + 1] = NoRow
      BY <1>1, <1>2, <1>4, <2>6
    <3>2. check_next_tx(built[p], built[p + 1])
      BY <2>3, <2>6, <3>1 DEF check_next_tx, NoRow
    <3> QED
      BY <2>3, <3>1, <3>2 DEF check_row, NoRow
  <2>7. CASE i = l /\ p + 1 <= end[MaxTxs]
    <3>1. PICK u \in Txs : (p + 1) - end[u - 1] \in 1 .. Len(public.data[u])
      BY <1>1, <1>4, <2>7, BuiltPlaces, SMTT(30)
    <3>2. /\ end[u - 1] \in Nat /\ end[u] = end[u - 1] + Len(public.data[u])
          /\ Len(public.data[u]) \in Nat /\ u \in 1 .. MaxTxs
      BY CostsOfTxs DEF Txs
    <3>3. p = end[t] /\ end[t] \in Nat
      BY <2>1, <2>7
    <3>4. \A v \in 0 .. MaxTxs : \A w \in 0 .. v : end[w] <= end[v]
      BY EndsOrdered DEF CalldataEnds
    <3>5. t < u
      <4> SUFFICES ASSUME u <= t PROVE FALSE
        BY <2>1, <3>2
      <4>1. u \in 0 .. t /\ t \in 0 .. MaxTxs
        BY <2>1, <3>2
      <4>2. end[u] <= end[t]
        BY <3>4, <4>1
      <4> QED
        BY <3>1, <3>2, <3>3, <4>2, SMTT(30)
    <3>6. end[u - 1] = p
      <4>1. t \in 0 .. u - 1 /\ u - 1 \in 0 .. MaxTxs
        BY <1>1, <2>1, <3>2, <3>5
      <4>2. end[t] <= end[u - 1]
        BY <3>4, <4>1
      <4> QED
        BY <1>1, <3>1, <3>2, <3>3, <4>2, SMTT(30)
    <3>7. 1 \in 1 .. Len(public.data[u]) /\ end[u - 1] + 1 = p + 1
      BY <1>1, <3>1, <3>2, <3>6
    <3>8. built[p + 1] = BuiltRow(end, u, 1)
      BY <1>2, <3>7
    <3>9. /\ built[p + 1].tx_id = u /\ built[p + 1].index = 0
          /\ built[p + 1].calldata_gas_cost = CostTo(values, p + 1) - CostTo(values, p)
          /\ built[p + 1].value = values[p + 1] /\ u # Padding /\ u # t
      BY <2>1, <3>2, <3>5, <3>6, <3>7, <3>8 DEF BuiltRow, values, Padding
    <3>10. u - t - 1 \in fixed_u16_table
      <4>1. u \in Nat /\ t \in Nat /\ u <= U16Max + 2 /\ t >= 1 /\ t < u /\ U16Max \in Nat
        BY <1>1, <2>1, <3>2, <3>5
      <4> QED
        BY <4>1 DEF fixed_u16_table
    <3>11. check_next_tx(built[p], built[p + 1])
      BY <1>5, <2>3, <2>4, <2>7, <3>9, <3>10 DEF check_next_tx
    <3> QED
      BY <2>3, <3>9, <3>11 DEF check_row
  <2> QED
    BY <1>1, <1>4, <2>1, <2>5, <2>6, <2>7
<1>8. check_row(built[p], built[p + 1])
  BY <1>1, <1>6, <1>7, BuiltPlaces DEF built
<1> QED
  BY <1>8 DEF built

\* Whatever row came before, a row of padding may come next.
LEMMA PaddingAfter ==
  ASSUME NEW cur, NEW value
  PROVE  [tx_id |-> Padding, index |-> 0, value |-> value, calldata_gas_cost |-> 0, is_final |-> 0]
           \in RowsAfter(cur, value)
<1> DEFINE A == Ids \cup {Padding}
           B == {0, cur.index + 1}
           C == {0, gas_cost(value), cur.calldata_gas_cost + gas_cost(value)}
           D == {0, 1}
<1>1. 0 \in B /\ 0 \in C /\ 0 \in D /\ Padding \in A
  OBVIOUS
<1>2. RowsAfter(cur, value) =
        {[tx_id |-> t, index |-> i, value |-> value, calldata_gas_cost |-> g, is_final |-> f] :
           t \in A, i \in B, g \in C, f \in D}
  BY DEF RowsAfter
<1> HIDE DEF A, B, C, D
<1>3. \E t \in A, i \in B, g \in C, f \in D :
        [tx_id |-> Padding, index |-> 0, value |-> value, calldata_gas_cost |-> 0, is_final |-> 0]
          = [tx_id |-> t, index |-> i, value |-> value, calldata_gas_cost |-> g, is_final |-> f]
  BY <1>1, Zenon
<1>4. [tx_id |-> Padding, index |-> 0, value |-> value, calldata_gas_cost |-> 0, is_final |-> 0]
        \in {[tx_id |-> t, index |-> i, value |-> value, calldata_gas_cost |-> g, is_final |-> f] :
           t \in A, i \in B, g \in C, f \in D}
  BY <1>3
<1> QED
  BY <1>2, <1>4

\* What is looked up in the complete table.
LEMMA BuiltCosts ==
  ASSUME ConstantsAssumption, OfData, NEW end, CalldataEnds(end), NEW t \in Txs,
         Len(rows) = MaxCalldata,
         rows = SubSeq(tx_table_tx_calldata_cols(public.data), 1, Len(rows)),
         public.CallDataGasCost[t] = call_data_gas_cost(public.data[t])
  PROVE  check_tx_table(t)
<1> DEFINE built == tx_table_tx_calldata_cols(public.data)
           l == Len(public.data[t])
<1>1. /\ end[t - 1] \in Nat /\ end[t] = end[t - 1] + l /\ l \in Nat /\ end[t] \in Nat
      /\ end[t] <= MaxCalldata /\ MaxCalldata \in Nat
      /\ call_data_gas_cost(public.data[t])
           = CostTo(public.values, end[t]) - CostTo(public.values, end[t - 1])
      /\ public.CallDataLength[t] = l
      /\ \A k \in 0 .. MaxCalldata : CostTo(public.values, k) \in Nat
  <2>1. public.values \in [1 .. MaxCalldata -> Bytes] /\ MaxCalldata \in Nat
    BY DEF CalldataEnds, ConstantsAssumption
  <2>2. \A k \in 0 .. MaxCalldata : CostTo(public.values, k) \in Nat
    BY <2>1, CostSteps
  <2> QED
    BY <2>1, <2>2, CostsOfTxs DEF CalldataEnds
<1>2. /\ \A i \in 1 .. l : built[end[t - 1] + i] = BuiltRow(end, t, i)
      /\ Len(built) = MaxCalldata /\ \E S : built \in Seq(S)
  BY BuiltRows
<1>3. rows = SubSeq(built, 1, Len(rows))
  OBVIOUS
<1> HIDE DEF built, l
<1>4. CASE l = 0
  <2>1. end[t - 1] = end[t] /\ CostTo(public.values, end[t]) \in Nat
    BY <1>1, <1>4
  <2>2. public.CallDataGasCost[t] = 0
    BY <1>1, <2>1
  <2> QED
    BY <1>1, <1>4, <2>2 DEF check_tx_table
<1>5. CASE l # 0
  <2>1. l \in 1 .. l /\ end[t] \in 1 .. MaxCalldata /\ end[t - 1] + l = end[t]
    BY <1>1, <1>5
  <2>2. DOMAIN rows = 1 .. MaxCalldata /\ \A p \in 1 .. MaxCalldata : rows[p] = built[p]
    BY <1>1, <1>2, <1>3
  <2>3. rows[end[t]] = BuiltRow(end, t, l)
    BY <1>2, <2>1, <2>2
  <2>4. /\ rows[end[t]].tx_id = t /\ rows[end[t]].is_final = 1
        /\ rows[end[t]].calldata_gas_cost
             = CostTo(public.values, end[t]) - CostTo(public.values, end[t - 1])
    BY <2>1, <2>3 DEF BuiltRow, l
  <2> QED
    BY <1>1, <1>5, <2>1, <2>2, <2>4 DEF check_tx_table
<1> QED
  BY <1>4, <1>5

\* Behind the last row of a table that is full there may be padding.
LEMMA BuiltEnd ==
  ASSUME ConstantsAssumption, OfData, NEW end, CalldataEnds(end),
         Len(rows) = MaxCalldata,
         rows = SubSeq(tx_table_tx_calldata_cols(public.data), 1, Len(rows))
  PROVE  check_calldata_end
<1> DEFINE built == tx_table_tx_calldata_cols(public.data)
           byte == public.values[1]
           row == [tx_id |-> Padding, index |-> 0, value |-> byte, calldata_gas_cost |-> 0,
                   is_final |-> 0]
           m == MaxCalldata
<1>1. m \in Nat /\ m \in 1 .. m /\ byte \in Bytes
  BY DEF CalldataEnds, ConstantsAssumption
<1>2. /\ \A t \in Txs : \A i \in 1 .. Len(public.data[t]) :
           built[end[t - 1] + i] = BuiltRow(end, t, i)
      /\ \A p \in (end[MaxTxs] + 1) .. m : built[p] = NoRow
      /\ Len(built) = m /\ \E S : built \in Seq(S)
  BY BuiltRows
<1>3. rows = SubSeq(built, 1, Len(rows))
  OBVIOUS
<1> HIDE DEF built
<1>4. LastRow = built[m]
  BY <1>1, <1>2, <1>3 DEF LastRow
<1>5. row \in RowsAfter(LastRow, byte)
  BY PaddingAfter
<1>6. CASE m > end[MaxTxs]
  <2>1. end[MaxTxs] \in Nat
    <3>1. MaxTxs \in 0 .. Len(public.data) /\ Ends(end, public.data)
      BY DEF CalldataEnds, ConstantsAssumption
    <3> QED
      BY <3>1 DEF Ends
  <2>2. LastRow = NoRow
    BY <1>1, <1>2, <1>4, <1>6, <2>1
  <2>3. check_row(LastRow, row)
    BY <2>2 DEF check_row, check_padding, NoRow
  <2> QED
    BY <1>1, <1>5, <2>3 DEF check_calldata_end
<1>7. ASSUME NEW t \in Txs, m - end[t - 1] \in 1 .. Len(public.data[t])
      PROVE  check_calldata_end
  <2>1. /\ end[t - 1] \in Nat /\ Len(public.data[t]) \in Nat
        /\ end[t] = end[t - 1] + Len(public.data[t]) /\ end[t] <= m /\ t # Padding
    BY CostsOfTxs DEF Txs, Padding
  <2>2. m - end[t - 1] = Len(public.data[t]) /\ end[t - 1] + (m - end[t - 1]) = m
    BY <1>1, <1>7, <2>1
  <2>3. LastRow = BuiltRow(end, t, m - end[t - 1])
    BY <1>2, <1>4, <1>7, <2>2
  <2>4. LastRow.tx_id = t /\ LastRow.is_final = 1
    BY <2>2, <2>3 DEF BuiltRow
  <2>5. check_row(LastRow, row)
    BY <2>1, <2>4 DEF check_row, check_next_tx
  <2> QED
    BY <1>1, <1>5, <2>5 DEF check_calldata_end
<1> QED
  BY <1>1, <1>6, <1>7, BuiltPlaces

\* The first row of the table passes.
LEMMA BuiltStart ==
  ASSUME ConstantsAssumption, NEW end, CalldataEnds(end)
  PROVE  check_calldata_start(tx_table_tx_calldata_cols(public.data)[1])
<1> DEFINE built == tx_table_tx_calldata_cols(public.data)
           values == public.values
<1>1. MaxCalldata \in Nat /\ 1 \in 1 .. MaxCalldata /\ values \in [1 .. MaxCalldata -> Bytes]
  BY DEF CalldataEnds, ConstantsAssumption
<1>2. /\ \A t \in Txs : \A i \in 1 .. Len(public.data[t]) :
           built[end[t - 1] + i] = BuiltRow(end, t, i)
      /\ \A p \in (end[MaxTxs] + 1) .. MaxCalldata : built[p] = NoRow
  BY BuiltRows
<1> HIDE DEF built, values
<1>3. CASE 1 > end[MaxTxs]
  <2>1. end[MaxTxs] \in Nat
    <3>1. MaxTxs \in 0 .. Len(public.data) /\ Ends(end, public.data)
      BY DEF CalldataEnds, ConstantsAssumption
    <3> QED
      BY <3>1 DEF Ends
  <2>2. built[1] = NoRow
    BY <1>1, <1>2, <1>3, <2>1
  <2> QED
    BY <2>2 DEF check_calldata_start, NoRow, built
<1>4. ASSUME NEW t \in Txs, 1 - end[t - 1] \in 1 .. Len(public.data[t])
      PROVE  check_calldata_start(built[1])
  <2>1. end[t - 1] \in Nat
    BY CostsOfTxs
  <2>2. end[t - 1] = 0 /\ 1 \in 1 .. Len(public.data[t]) /\ 0 + 1 = 1
    BY <1>4, <2>1
  <2>3. built[1] = BuiltRow(end, t, 1)
    BY <1>2, <2>2
  <2>4. /\ built[1].index = 0 /\ built[1].value = values[1]
        /\ built[1].calldata_gas_cost = CostTo(values, 1) - CostTo(values, 0)
    BY <2>2, <2>3 DEF BuiltRow, values
  <2>5. /\ CostTo(values, 1) = CostTo(values, 0) + gas_cost(values[1])
        /\ CostTo(values, 0) = 0 /\ gas_cost(values[1]) \in Nat
    <3> DEFINE q == 1
               z == 0
    <3>1. q \in 0 .. MaxCalldata /\ q # 0 /\ q - 1 = z /\ z \in 0 .. MaxCalldata /\ z = 0
      BY <1>1
    <3> HIDE DEF q, z
    <3>2. CostTo(values, q) = CostTo(values, q - 1) + gas_cost(values[q]) /\ CostTo(values, z) = 0
      BY <1>1, <3>1, CostSteps
    <3>3. CostTo(values, q) = CostTo(values, z) + gas_cost(values[q]) /\ CostTo(values, z) = 0
      BY <3>1, <3>2
    <3> QED
      BY <3>3 DEF q, z, gas_cost
  <2>6. built[1].calldata_gas_cost = gas_cost(built[1].value)
    BY <2>4, <2>5
  <2> QED
    BY <2>4, <2>6 DEF check_calldata_start
<1> QED
  BY <1>1, <1>3, <1>4, BuiltPlaces DEF built

LEMMA BuiltPasses ==
  ASSUME MaxTxs <= U16Max + 2, PricedInv
  PROVE  BuilderPasses
<1> USE ConstantsAssumption
<1> DEFINE built == tx_table_tx_calldata_cols(public.data)
           p == Len(rows)
<1>1. PICK end : CalldataEnds(end)
  BY CalldataHasEnds DEF PricedInv
<1>2. p \in Nat /\ p <= MaxCalldata /\ MaxCalldata \in Nat /\ (p = 0 <=> rows = <<>>)
  BY DEF PricedInv, IInv, TypeOK, ConstantsAssumption
<1>3. SUFFICES ASSUME rows = SubSeq(built, 1, Len(rows))
               PROVE  IF rows = <<>> THEN check_calldata_start(built[1])
                      ELSE IF Len(rows) < MaxCalldata THEN check_row(LastRow, built[Len(rows) + 1])
                      ELSE /\ check_calldata_end
                           /\ \A t \in Txs :
                                public.CallDataGasCost[t] = call_data_gas_cost(public.data[t])
                                  => check_tx_table(t)
  BY DEF BuilderPasses
<1>4. CASE rows = <<>>
  BY <1>1, <1>4, BuiltStart
<1>5. CASE rows # <<>> /\ p < MaxCalldata
  <2>1. Len(built) = MaxCalldata /\ \E S : built \in Seq(S)
    BY <1>1, BuiltRows
  <2>2. p \in 1 .. MaxCalldata - 1
    BY <1>2, <1>5
  <2>3. check_row(built[p], built[p + 1])
    BY <1>1, <2>2, BuiltPass
  <2> HIDE DEF built
  <2>4. LastRow = built[p]
    BY <1>2, <1>3, <2>1, <2>2 DEF LastRow
  <2> QED
    BY <1>5, <2>3, <2>4
<1>6. CASE rows # <<>> /\ ~(p < MaxCalldata)
  <2>1. Len(rows) = MaxCalldata
    BY <1>2, <1>6
  <2>2. check_calldata_end
    BY <1>1, <1>3, <2>1, BuiltEnd DEF PricedInv
  <2>3. ASSUME NEW t \in Txs, public.CallDataGasCost[t] = call_data_gas_cost(public.data[t])
        PROVE  check_tx_table(t)
    BY <1>1, <1>3, <2>1, <2>3, BuiltCosts DEF PricedInv
  <2> QED
    BY <1>6, <2>2, <2>3
<1> QED
  BY <1>4, <1>5, <1>6

\* The rows that the witness builder lays down for public inputs with the right costs
\* pass, each with the next one, and so does the table they make up: the differences
\* of transactions have to fit the table of 16 bits.
THEOREM BuiltTablesPass ==
  ASSUME MaxTxs <= U16Max + 2
  PROVE  Spec => []BuilderPasses
<1>1. PricedInv => BuilderPasses
  BY BuiltPasses
<1> QED
  BY <1>1, RowsArePriced, PTL

-----------------------------------------------------------------------------
(* The withdrawals of the block (Withdrawals), which the circuit lays out  *)
(* beside the call data.                                                   *)

RawRows == {withdrawal_raw_bytes(i) : i \in 1 .. MaxWithdrawals}

Entries == {Entry(row, Hash(row)) : row \in RawRows}

\* The trie of the first k rows of the public bytes.
TrieOfFirst(k) == {Entry(withdrawal_raw_bytes(i), Hash(withdrawal_raw_bytes(i))) : i \in 1 .. k}

\* The rows are those of the public bytes, each of an amount, and every root is the
\* trie of the rows so far.
WithdrawalsIInv ==
  /\ table \in Seq(RawRows) /\ Len(table) <= MaxWithdrawals
  /\ roots \in Seq(SUBSET Entries) /\ Len(roots) <= Len(table)
  /\ \A i \in DOMAIN table : table[i] = withdrawal_raw_bytes(i) /\ table[i].amount # 0
  /\ \A k \in DOMAIN roots : roots[k] = TrieOfFirst(k)
  /\ verified => Len(roots) = MaxWithdrawals /\ roots[MaxWithdrawals] = block.root

\* One more row is one more entry.
LEMMA TrieGrows ==
  ASSUME NEW k \in Nat
  PROVE  TrieOfFirst(k + 1) =
           TrieOfFirst(k) \cup {Entry(withdrawal_raw_bytes(k + 1), Hash(withdrawal_raw_bytes(k + 1)))}
<1> DEFINE E(i) == Entry(withdrawal_raw_bytes(i), Hash(withdrawal_raw_bytes(i)))
<1>1. 1 .. k + 1 = (1 .. k) \cup {k + 1}
  OBVIOUS
<1>2. TrieOfFirst(k) = {E(i) : i \in 1 .. k} /\ TrieOfFirst(k + 1) = {E(i) : i \in 1 .. k + 1}
  BY DEF TrieOfFirst
<1> HIDE DEF E
<1>3. TrieOfFirst(k + 1) = TrieOfFirst(k) \cup {E(k + 1)}
  BY <1>1, <1>2
<1> QED
  BY <1>3 DEF E

\* The public bytes stay.
LEMMA PublicStays ==
  ASSUME block' = block
  PROVE  /\ \A i : withdrawal_raw_bytes(i)' = withdrawal_raw_bytes(i)
         /\ RawRows' = RawRows /\ Entries' = Entries
         /\ \A k : TrieOfFirst(k)' = TrieOfFirst(k)
BY DEF withdrawal_raw_bytes, RawRows, Entries, TrieOfFirst

LEMMA LayRowKeeps ==
  ASSUME WithdrawalsAssumption, WithdrawalsIInv, LayRow
  PROVE  WithdrawalsIInv'
<1>1. /\ Len(table) < MaxWithdrawals /\ Len(table) \in Nat
      /\ table' = Append(table, withdrawal_raw_bytes(Len(table) + 1))
      /\ withdrawal_raw_bytes(Len(table) + 1).amount # 0
      /\ block' = block /\ roots' = roots /\ verified' = verified
  BY DEF LayRow, q_withdrawal_table, WithdrawalsIInv
<1>2. withdrawal_raw_bytes(Len(table) + 1) \in RawRows
  BY <1>1 DEF RawRows, WithdrawalsAssumption
<1>3. table' \in Seq(RawRows') /\ Len(table') = Len(table) + 1
  BY <1>1, <1>2, PublicStays DEF WithdrawalsIInv
<1>4. ASSUME NEW i \in DOMAIN table'
      PROVE  table'[i] = withdrawal_raw_bytes(i)' /\ table'[i].amount # 0
  <2>1. CASE i \in DOMAIN table
    BY <1>1, <2>1, PublicStays DEF WithdrawalsIInv
  <2>2. CASE i = Len(table) + 1
    BY <1>1, <2>2, PublicStays DEF WithdrawalsIInv
  <2> QED
    BY <1>1, <1>3, <2>1, <2>2 DEF WithdrawalsIInv
<1>5. roots' \in Seq(SUBSET Entries') /\ Len(roots') <= Len(table')
  <2>1. Len(roots) \in Nat
    BY DEF WithdrawalsIInv
  <2> QED
    BY <1>1, <1>3, <2>1, PublicStays DEF WithdrawalsIInv
<1>6. \A k \in DOMAIN roots' : roots'[k] = TrieOfFirst(k)'
  BY <1>1, PublicStays DEF WithdrawalsIInv
<1>7. Len(table') <= MaxWithdrawals
  BY <1>1, <1>3 DEF WithdrawalsAssumption
<1> QED
  BY <1>1, <1>3, <1>4, <1>5, <1>6, <1>7 DEF WithdrawalsIInv

\* The next root has the next row, and no other, in addition.
LEMMA RootGrows ==
  ASSUME WithdrawalsAssumption, WithdrawalsIInv, VerifyRow
  PROVE  /\ Len(roots) + 1 \in DOMAIN table
         /\ roots' = Append(roots, TrieOfFirst(Len(roots) + 1))
         /\ TrieOfFirst(Len(roots) + 1) \in SUBSET Entries
<1> DEFINE k == Len(roots) + 1
<1>1. k \in DOMAIN table /\ k \in 1 .. MaxWithdrawals /\ Len(roots) \in Nat
  <2>1. k \in DOMAIN table
    BY DEF VerifyRow
  <2>2. /\ DOMAIN table = 1 .. Len(table) /\ Len(table) \in Nat /\ Len(roots) \in Nat
        /\ Len(table) <= MaxWithdrawals /\ MaxWithdrawals \in Nat
    BY DEF WithdrawalsIInv, WithdrawalsAssumption
  <2> QED
    BY <2>1, <2>2
<1>2. table[k] = withdrawal_raw_bytes(k) /\ table[k].amount # 0
  BY <1>1 DEF WithdrawalsIInv
<1>3. PICK hash, root : /\ keccak_lookup(table[k], hash) /\ mpt_lookup(table[k], hash, root)
                        /\ roots' = Append(roots, root)
  BY DEF VerifyRow
<1>4. root = root_prev \cup {Entry(table[k], Hash(table[k]))}
  BY <1>2, <1>3 DEF keccak_lookup, mpt_lookup
<1>5. root_prev = TrieOfFirst(Len(roots))
  <2>1. CASE roots = <<>>
    <3>1. Len(roots) = 0 /\ 1 .. 0 = {}
      BY <2>1
    <3> QED
      BY <2>1, <3>1 DEF root_prev, EmptyTrie, TrieOfFirst
  <2>2. CASE roots # <<>>
    <3>1. Len(roots) \in DOMAIN roots
      BY <2>2 DEF WithdrawalsIInv
    <3> QED
      BY <2>2, <3>1 DEF root_prev, WithdrawalsIInv
  <2> QED
    BY <2>1, <2>2
<1>6. root = TrieOfFirst(k)
  BY <1>1, <1>2, <1>4, <1>5, TrieGrows
<1>7. TrieOfFirst(k) \in SUBSET Entries
  <2>1. ASSUME NEW i \in 1 .. k
        PROVE  Entry(withdrawal_raw_bytes(i), Hash(withdrawal_raw_bytes(i))) \in Entries
    <3>1. i \in 1 .. MaxWithdrawals
      BY <1>1 DEF WithdrawalsAssumption
    <3> QED
      BY <3>1 DEF Entries, RawRows
  <2> QED
    BY <2>1 DEF TrieOfFirst
<1> QED
  BY <1>1, <1>3, <1>6, <1>7

LEMMA VerifyRowKeeps ==
  ASSUME WithdrawalsAssumption, WithdrawalsIInv, VerifyRow
  PROVE  WithdrawalsIInv'
<1>1. block' = block /\ table' = table /\ verified' = verified
  BY DEF VerifyRow
<1>2. /\ Len(roots) + 1 \in DOMAIN table
      /\ roots' = Append(roots, TrieOfFirst(Len(roots) + 1))
      /\ TrieOfFirst(Len(roots) + 1) \in SUBSET Entries
  BY RootGrows
<1>3. roots' \in Seq(SUBSET Entries) /\ Len(roots') = Len(roots) + 1 /\ Len(roots) \in Nat
  BY <1>2 DEF WithdrawalsIInv
<1>4. Len(roots') <= Len(table') /\ ~verified
  BY <1>1, <1>2, <1>3 DEF WithdrawalsIInv, WithdrawalsAssumption
<1>5. ASSUME NEW k \in DOMAIN roots'
      PROVE  roots'[k] = TrieOfFirst(k)'
  <2>1. CASE k \in DOMAIN roots
    BY <1>1, <1>2, <2>1, PublicStays DEF WithdrawalsIInv
  <2>2. CASE k = Len(roots) + 1
    <3>1. roots'[k] = TrieOfFirst(k)
      BY <1>2, <1>3, <2>2 DEF WithdrawalsIInv
    <3> QED
      BY <1>1, <3>1, PublicStays
  <2> QED
    BY <1>3, <2>1, <2>2 DEF WithdrawalsIInv
<1>6. /\ table' \in Seq(RawRows') /\ roots' \in Seq(SUBSET Entries')
      /\ \A i \in DOMAIN table' : table'[i] = withdrawal_raw_bytes(i)' /\ table'[i].amount # 0
  BY <1>1, <1>3, PublicStays DEF WithdrawalsIInv
<1> QED
  BY <1>1, <1>4, <1>5, <1>6 DEF WithdrawalsIInv

\* WithdrawalsIInv holds of every block, whatever the public bytes and the header.
THEOREM WithdrawalsInductive == WithdrawalsSpec => []WithdrawalsIInv
<1> USE WithdrawalsAssumption
<1>1. WithdrawalsInit => WithdrawalsIInv
  BY DEF WithdrawalsInit, WithdrawalsIInv, WithdrawalsAssumption
<1>2. WithdrawalsIInv /\ [WithdrawalsNext]_withdrawals_vars => WithdrawalsIInv'
  <2> SUFFICES ASSUME WithdrawalsIInv, [WithdrawalsNext]_withdrawals_vars PROVE WithdrawalsIInv'
    OBVIOUS
  <2>1. CASE LayRow
    BY <2>1, LayRowKeeps
  <2>2. CASE VerifyRow
    BY <2>2, VerifyRowKeeps
  <2>3. CASE AcceptBlock
    BY <2>3, PublicStays DEF AcceptBlock, WithdrawalsIInv
  <2>4. CASE UNCHANGED withdrawals_vars
    BY <2>4, PublicStays DEF withdrawals_vars, WithdrawalsIInv
  <2> QED
    BY <2>1, <2>2, <2>3, <2>4 DEF WithdrawalsNext
<1> QED
  BY <1>1, <1>2, PTL DEF WithdrawalsSpec

\* The block's header names the trie of exactly the withdrawals in the public
\* bytes, for any number of withdrawals, recipients and amounts.
THEOREM RootIsOfWithdrawals == WithdrawalsSpec => []RootOfWithdrawals
<1> USE WithdrawalsAssumption
<1>1. WithdrawalsIInv => RootOfWithdrawals
  <2> SUFFICES ASSUME WithdrawalsIInv, verified
               PROVE  block.root = TrieOf([i \in 1 .. MaxWithdrawals |-> withdrawal_raw_bytes(i)])
    BY DEF RootOfWithdrawals
  <2>1. MaxWithdrawals \in DOMAIN roots
    BY DEF WithdrawalsIInv, WithdrawalsAssumption
  <2>2. block.root = TrieOfFirst(MaxWithdrawals)
    BY <2>1 DEF WithdrawalsIInv
  <2> QED
    BY <2>2 DEF TrieOfFirst, TrieOf, Entry
<1> QED
  BY <1>1, WithdrawalsInductive, PTL
=============================================================================
