------------------------- MODULE StateCircuitProofs -------------------------
(***************************************************************************)
(* Theorems about StateCircuit for every set of keys, values and counters  *)
(* and every shift of the packing: what a table that passes the checks row *)
(* by row says of the accesses in time, of the stacks, of the trie and of  *)
(* the receipts.  The last one is the refinement of StateReplay: replayed  *)
(* in the order of its counters, the table is a run of RwMemory.           *)
(***************************************************************************)
EXTENDS StateReplay, WellFoundedInduction, TLAPS

-----------------------------------------------------------------------------
(* The packed number.                                                      *)

\* The more significant part of a packed number decides the order: with d below
\* the base, a * n + b <= c * n + d only if a <= c, however large b is.
LEMMA HighPartOrders ==
  ASSUME NEW a \in Nat, NEW b \in Nat, NEW c \in Nat, NEW d \in Nat, NEW n \in Nat \ {0},
         d < n, a * n + b <= c * n + d
  PROVE  a <= c
<1> SUFFICES ASSUME c + 1 <= a PROVE FALSE
  OBVIOUS
<1> DEFINE e == a - (c + 1)
<1>1. e \in Nat /\ a = (c + 1) + e
  OBVIOUS
<1>2. a * n = c * n + n + e * n
  BY <1>1
<1>3. e * n >= 0
  BY <1>1
<1>4. a * n \in Nat /\ c * n \in Nat /\ e * n \in Int
  BY <1>1
<1> HIDE DEF e
<1> QED
  BY <1>2, <1>3, <1>4

\* Packing two digits is injective.
LEMMA DigitsUnique ==
  ASSUME NEW a \in Nat, NEW b \in Nat, NEW c \in Nat, NEW d \in Nat, NEW n \in Nat \ {0},
         b < n, d < n, a * n + b = c * n + d
  PROVE  a = c /\ b = d
<1>1. a * n + b \in Nat /\ c * n + d \in Nat /\ a * n \in Nat /\ c * n \in Nat
  OBVIOUS
<1>2. a <= c
  BY <1>1, HighPartOrders
<1>3. c <= a
  BY <1>1, HighPartOrders
<1> QED
  BY <1>1, <1>2, <1>3

-----------------------------------------------------------------------------
(* The packing of check 0.4 tells the keys apart when the shift of the     *)
(* storage key covers the storage keys in use.                             *)

KeysInRange ==
  \A k \in Keys : k.id < IdBase /\ k.addr < AddrBase /\ k.ft < FieldBase /\ k.sk < SkeyShift

\* With a shift as wide as the storage key (the code's own, of 32 bits, serves
\* storage keys below 2^32), no two keys collide.
THEOREM WideShiftIsInjective ==
  ASSUME KeysInRange
  PROVE  NoCollision
<1>0. /\ Keys \subseteq [tag : Nat, id : Nat, addr : Nat, ft : Nat, sk : Nat]
      /\ IdBase \in Nat \ {0} /\ AddrBase \in Nat \ {0} /\ FieldBase \in Nat \ {0}
      /\ SkeyShift \in Nat \ {0}
  BY ConstantsAssumption DEF ConstantsAssumption
<1> SUFFICES ASSUME NEW k1 \in Keys, NEW k2 \in Keys, KeyCode(k1) = KeyCode(k2)
             PROVE  k1 = k2
  BY DEF NoCollision
<1> DEFINE T1 == k1.tag * IdBase + k1.id       T2 == k2.tag * IdBase + k2.id
           A1 == T1 * AddrBase + k1.addr       A2 == T2 * AddrBase + k2.addr
           F1 == A1 * FieldBase + k1.ft        F2 == A2 * FieldBase + k2.ft
<1>1. \A k \in {k1, k2} :
        /\ k.tag \in Nat /\ k.id \in Nat /\ k.addr \in Nat /\ k.ft \in Nat /\ k.sk \in Nat
        /\ k.id < IdBase /\ k.addr < AddrBase /\ k.ft < FieldBase /\ k.sk < SkeyShift
  BY <1>0 DEF KeysInRange
<1>2. T1 \in Nat /\ T2 \in Nat
  BY <1>0, <1>1
<1>3. A1 \in Nat /\ A2 \in Nat
  <2> HIDE DEF T1, T2
  <2> QED
    BY <1>0, <1>1, <1>2
<1>4. F1 \in Nat /\ F2 \in Nat
  <2> HIDE DEF A1, A2
  <2> QED
    BY <1>0, <1>1, <1>3
<1>5. F1 * SkeyShift + k1.sk = F2 * SkeyShift + k2.sk
  BY DEF KeyCode
<1>6. F1 = F2 /\ k1.sk = k2.sk
  <2> HIDE DEF F1, F2
  <2> QED
    BY <1>0, <1>1, <1>4, <1>5, DigitsUnique
<1>7. A1 = A2 /\ k1.ft = k2.ft
  <2> HIDE DEF A1, A2
  <2> QED
    BY <1>0, <1>1, <1>3, <1>6, DigitsUnique
<1>8. T1 = T2 /\ k1.addr = k2.addr
  <2>1. T1 * AddrBase + k1.addr = T2 * AddrBase + k2.addr
    BY <1>7
  <2>2. /\ k1.addr \in Nat /\ k2.addr \in Nat /\ AddrBase \in Nat \ {0}
        /\ k1.addr < AddrBase /\ k2.addr < AddrBase
    BY <1>0, <1>1
  <2> HIDE DEF T1, T2
  <2> QED
    BY <1>2, <2>1, <2>2, DigitsUnique
<1>9. k1.tag = k2.tag /\ k1.id = k2.id
  BY <1>0, <1>1, <1>8, DigitsUnique, SMTT(30)
<1> QED
  BY <1>0, <1>6, <1>7, <1>8, <1>9

-----------------------------------------------------------------------------
(* Every step lays down a first row, lays down a checked row, or closes    *)
(* the table.                                                              *)

IsFirstRow(row) ==
  /\ rows = <<>> /\ rows' = <<row>> /\ closed' = closed
  /\ row.key.tag = Start => start_is_empty(row)
  /\ ~StartInside => row.key.tag = Start

IsNextRow(row) ==
  /\ rows # <<>> /\ closed = FALSE /\ AppendRow(row)
  /\ row.key.tag = Start /\ ~StartInside => LastRow.key.tag = Start

LEMMA LastRowTyped ==
  ASSUME TypeOK, rows # <<>>
  PROVE  Len(rows) \in DOMAIN rows /\ Len(rows) \in Nat \ {0} /\ LastRow \in RowSet
BY DEF TypeOK, LastRow

\* The rows offered to the Append actions are rows of the table's type.
LEMMA RowsWithTyped ==
  ASSUME TypeOK, rows # <<>>, NEW tag, NEW shape, NEW row \in RowsWith(tag, shape)
  PROVE  row \in RowSet /\ row.key.tag = tag /\ \A r \in WithNewRoot(row) : r \in RowSet /\ r.key = row.key
<1>1. LastRow.root \in Tries
  BY LastRowTyped DEF RowSet
<1>2. PICK k \in {q \in Keys \cap shape.keys : q.tag = tag},
           c \in RwCounters \cap shape.counters, w \in {0, 1}, v \in Values, i \in Values :
        row = [key |-> k, rwc |-> c, wr |-> w, val |-> v, init |-> i, root |-> LastRow.root]
  BY DEF RowsWith
<1>3. row \in RowSet /\ row.key.tag = tag
  BY <1>1, <1>2 DEF RowSet
<1>4. ASSUME NEW r \in WithNewRoot(row)
      PROVE  r \in RowSet /\ r.key = row.key
  <2>1. [row.root EXCEPT ![MptSlot(row.key)] = row.val] \in Tries
    BY <1>3 DEF RowSet, Tries
  <2> QED
    BY <1>2, <1>3, <1>4, <2>1 DEF WithNewRoot, RowSet
<1> QED
  BY <1>3, <1>4

LEMMA StepCases ==
  ASSUME TypeOK, Next
  PROVE  \/ \E row \in RowSet : IsFirstRow(row) \/ IsNextRow(row)
         \/ CloseTable
<1>1. ASSUME NEW tag, tag # Start, AppendPlain(tag)
      PROVE  \E row \in RowSet : IsNextRow(row)
  BY <1>1, RowsWithTyped DEF AppendPlain, IsNextRow, Open
<1>2. ASSUME NEW tag, tag # Start, AppendInTrie(tag)
      PROVE  \E row \in RowSet : IsNextRow(row)
  BY <1>2, RowsWithTyped DEF AppendInTrie, IsNextRow, Open
<1>3. CASE FirstRow
  BY <1>3 DEF FirstRow, IsFirstRow
<1>4. CASE AppendStart
  BY <1>4, RowsWithTyped DEF AppendStart, AppendPlain, IsNextRow, Open
<1>5. CASE AppendMemory
  BY <1>1, <1>5 DEF AppendMemory, Memory, Start
<1>6. CASE AppendStack
  BY <1>1, <1>6 DEF AppendStack, Stack, Start
<1>7. CASE AppendStorage
  BY <1>2, <1>7 DEF AppendStorage, Storage, Start
<1>8. CASE AppendCallContext
  BY <1>1, <1>8 DEF AppendCallContext, CallContext, Start
<1>9. CASE AppendAccount
  BY <1>2, <1>9 DEF AppendAccount, Account, Start
<1>10. CASE AppendTxRefund
  BY <1>1, <1>10 DEF AppendTxRefund, TxRefund, Start
<1>11. CASE AppendTxAccessListAccount
  BY <1>1, <1>11 DEF AppendTxAccessListAccount, TxAccessListAccount, Start
<1>12. CASE AppendTxAccessListAccountStorage
  BY <1>1, <1>12 DEF AppendTxAccessListAccountStorage, TxAccessListAccountStorage, Start
<1>13. CASE AppendTxLog
  BY <1>1, <1>13 DEF AppendTxLog, TxLog, Start
<1>14. CASE AppendTxReceipt
  BY <1>1, <1>14 DEF AppendTxReceipt, TxReceipt, Start
<1> QED
  BY <1>3, <1>4, <1>5, <1>6, <1>7, <1>8, <1>9, <1>10, <1>11, <1>12, <1>13, <1>14 DEF Next

-----------------------------------------------------------------------------
(* The type invariant.                                                     *)

LEMMA TypeStep ==
  ASSUME TypeOK, [Next]_vars
  PROVE  TypeOK'
<1>1. ASSUME NEW row \in RowSet, IsFirstRow(row) PROVE TypeOK'
  BY <1>1 DEF TypeOK, IsFirstRow
<1>2. ASSUME NEW row \in RowSet, IsNextRow(row) PROVE TypeOK'
  BY <1>2 DEF TypeOK, IsNextRow, AppendRow
<1>3. CASE CloseTable
  BY <1>3 DEF TypeOK, CloseTable
<1>4. CASE UNCHANGED vars
  BY <1>4 DEF TypeOK, vars
<1> QED
  BY <1>1, <1>2, <1>3, <1>4, StepCases

\* Every reachable table is a sequence of well-formed rows.
THEOREM TypeCorrect == Spec => []TypeOK
<1>1. Init => TypeOK
  <2>1. <<>> \in Seq(RowSet)
    OBVIOUS
  <2> QED
    BY <2>1 DEF Init, TypeOK
<1> QED
  BY <1>1, TypeStep, PTL DEF Spec

-----------------------------------------------------------------------------
(* The inductive invariant.  The checks compare neighbours only; SortedRuns*)
(* extends the order to any two rows without a Start row between them.     *)

\* Every row but the first passed its checks against the row before it.
Checked ==
  \A j \in DOMAIN rows : j > 1 => check_state_row(rows[j], rows[j - 1], 1)

SortedRuns ==
  \A i, j \in DOMAIN rows :
    i < j /\ (\A m \in i + 1 .. j : rows[m].key.tag # Start) =>
      keys_rwc_to_limbs(rows[i]) < keys_rwc_to_limbs(rows[j])

\* Without Start rows inside, the padding is a prefix and is not empty.
StartsFirst ==
  ~StartInside =>
    /\ rows # <<>> => rows[1].key.tag = Start
    /\ \A i, j \in DOMAIN rows : i < j /\ rows[j].key.tag = Start => rows[i].key.tag = Start

Wrapped == closed => rows # <<>> /\ check_state_row(rows[1], rows[Len(rows)], 0)

IInv == TypeOK /\ Checked /\ SortedRuns /\ StartsFirst /\ Wrapped

LEMMA PackedIsNatural ==
  ASSUME NEW row \in RowSet
  PROVE  /\ KeyCode(row.key) \in Nat /\ keys_rwc_to_limbs(row) \in Nat
         /\ row.rwc \in Nat /\ row.rwc < RwcBase /\ RwcBase \in Nat \ {0}
<1>1. /\ row.key \in [tag : Nat, id : Nat, addr : Nat, ft : Nat, sk : Nat]
      /\ row.rwc \in Nat /\ row.rwc < RwcBase /\ RwcBase \in Nat \ {0}
      /\ IdBase \in Nat /\ AddrBase \in Nat /\ FieldBase \in Nat /\ SkeyShift \in Nat
  <2>1. row.key \in Keys /\ row.rwc \in RwCounters
    BY DEF RowSet
  <2>2. /\ IdBase \in Nat /\ AddrBase \in Nat /\ FieldBase \in Nat /\ SkeyShift \in Nat
        /\ RwcBase \in Nat \ {0} /\ RwCounters \subseteq 0 .. RwcBase - 1
    BY ConstantsAssumption DEF ConstantsAssumption
  <2>3. row.key \in [tag : Nat, id : Nat, addr : Nat, ft : Nat, sk : Nat]
    BY <2>1, ConstantsAssumption DEF ConstantsAssumption
  <2>4. row.rwc \in 0 .. RwcBase - 1
    BY <2>1, <2>2
  <2> QED
    BY <2>2, <2>3, <2>4
<1> DEFINE T == row.key.tag * IdBase + row.key.id
           A == T * AddrBase + row.key.addr
           F == A * FieldBase + row.key.ft
<1>2. T \in Nat
  BY <1>1
<1>3. A \in Nat
  <2> HIDE DEF T
  <2> QED
    BY <1>1, <1>2
<1>4. F \in Nat
  <2> HIDE DEF A
  <2> QED
    BY <1>1, <1>3
<1>5. KeyCode(row.key) = F * SkeyShift + row.key.sk
  BY DEF KeyCode
<1>6. KeyCode(row.key) \in Nat
  <2> HIDE DEF F
  <2> QED
    BY <1>1, <1>4, <1>5
<1>7. keys_rwc_to_limbs(row) \in Nat
  BY <1>1, <1>6 DEF keys_rwc_to_limbs
<1> QED
  BY <1>1, <1>6, <1>7

LEMMA FirstRowStep ==
  ASSUME IInv, NEW row \in RowSet, IsFirstRow(row), TypeOK'
  PROVE  IInv'
<1>1. rows' = <<row>> /\ DOMAIN rows' = {1} /\ rows'[1] = row /\ closed' = closed
  BY DEF IsFirstRow
<1>2. ~closed
  BY DEF IInv, Wrapped, IsFirstRow, TypeOK
<1>3. Checked' /\ SortedRuns'
  BY <1>1 DEF Checked, SortedRuns
<1>4. StartsFirst'
  BY <1>1 DEF StartsFirst, IsFirstRow
<1>5. Wrapped'
  BY <1>1, <1>2 DEF Wrapped
<1> QED
  BY <1>3, <1>4, <1>5 DEF IInv

LEMMA NextRowStep ==
  ASSUME IInv, NEW row \in RowSet, IsNextRow(row), TypeOK'
  PROVE  IInv'
<1> DEFINE n == Len(rows)
<1>1. /\ n \in Nat \ {0} /\ DOMAIN rows = 1 .. n /\ DOMAIN rows' = 1 .. n + 1
      /\ \A i \in 1 .. n : rows'[i] = rows[i] /\ rows[i] \in RowSet
      /\ rows'[n + 1] = row /\ rows # <<>>
  BY DEF IInv, TypeOK, IsNextRow, AppendRow
<1>2. check_state_row(row, rows[n], 1)
  BY DEF IsNextRow, AppendRow, LastRow
<1> HIDE DEF n
<1>3. Checked'
  <2> SUFFICES ASSUME NEW j \in 1 .. n + 1, j > 1
               PROVE  check_state_row(rows'[j], rows'[j - 1], 1)
    BY <1>1 DEF Checked
  <2>1. CASE j = n + 1
    BY <1>1, <1>2, <2>1
  <2>2. CASE j < n + 1
    <3>1. j \in 1 .. n /\ j - 1 \in 1 .. n
      BY <1>1, <2>2
    <3> QED
      BY <1>1, <3>1 DEF IInv, Checked
  <2> QED
    BY <1>1, <2>1, <2>2
<1>4. SortedRuns'
  <2> SUFFICES ASSUME NEW i \in 1 .. n + 1, NEW j \in 1 .. n + 1, i < j,
                      \A m \in i + 1 .. j : rows'[m].key.tag # Start
               PROVE  keys_rwc_to_limbs(rows'[i]) < keys_rwc_to_limbs(rows'[j])
    BY <1>1 DEF SortedRuns
  <2>1. CASE j < n + 1
    <3>1. i \in 1 .. n /\ j \in 1 .. n /\ \A m \in i + 1 .. j : rows[m].key.tag # Start
      BY <1>1, <2>1
    <3> QED
      BY <1>1, <3>1 DEF IInv, SortedRuns
  <2>2. CASE j = n + 1
    <3>1. i \in 1 .. n /\ n \in 1 .. n /\ rows'[i] = rows[i] /\ rows'[j] = row
      BY <1>1, <2>2
    <3>2. row.key.tag # Start
      BY <1>1, <2>2
    <3>3. keys_rwc_to_limbs(rows[n]) < keys_rwc_to_limbs(row)
      BY <1>2, <3>2 DEF check_state_row, check_order
    <3>4. CASE i = n
      BY <3>1, <3>3, <3>4
    <3>5. CASE i < n
      <4>1. \A m \in i + 1 .. n : rows[m].key.tag # Start
        BY <1>1, <2>2, <3>1
      <4>2. keys_rwc_to_limbs(rows[i]) < keys_rwc_to_limbs(rows[n])
        BY <1>1, <3>1, <3>5, <4>1 DEF IInv, SortedRuns
      <4>3. /\ keys_rwc_to_limbs(rows[i]) \in Nat /\ keys_rwc_to_limbs(rows[n]) \in Nat
            /\ keys_rwc_to_limbs(row) \in Nat
        BY <1>1, <3>1, PackedIsNatural
      <4> QED
        BY <3>1, <3>3, <4>2, <4>3
    <3> QED
      BY <1>1, <3>1, <3>4, <3>5
  <2> QED
    BY <1>1, <2>1, <2>2
<1>5. StartsFirst'
  <2> SUFFICES ASSUME ~StartInside
               PROVE  /\ rows'[1].key.tag = Start
                      /\ \A i, j \in 1 .. n + 1 :
                           i < j /\ rows'[j].key.tag = Start => rows'[i].key.tag = Start
    BY <1>1 DEF StartsFirst
  <2>1. rows'[1].key.tag = Start
    BY <1>1 DEF IInv, StartsFirst
  <2>2. ASSUME NEW i \in 1 .. n + 1, NEW j \in 1 .. n + 1, i < j, rows'[j].key.tag = Start
        PROVE  rows'[i].key.tag = Start
    <3>1. i \in 1 .. n
      BY <1>1, <2>2
    <3>2. CASE j < n + 1
      BY <1>1, <2>2, <3>1, <3>2 DEF IInv, StartsFirst
    <3>3. CASE j = n + 1
      <4>1. rows[n].key.tag = Start
        BY <1>1, <2>2, <3>3 DEF IsNextRow, LastRow, n
      <4> QED
        BY <1>1, <3>1, <4>1 DEF IInv, StartsFirst
    <3> QED
      BY <1>1, <3>2, <3>3
  <2> QED
    BY <2>1, <2>2
<1>6. Wrapped'
  BY DEF Wrapped, IsNextRow, AppendRow
<1> QED
  BY <1>3, <1>4, <1>5, <1>6 DEF IInv

LEMMA Invariance == Spec => []IInv
<1>1. Init => IInv
  <2>1. <<>> \in Seq(RowSet) /\ DOMAIN <<>> = {}
    OBVIOUS
  <2> QED
    BY <2>1 DEF Init, IInv, TypeOK, Checked, SortedRuns, StartsFirst, Wrapped
<1>2. IInv /\ [Next]_vars => IInv'
  <2> SUFFICES ASSUME IInv, [Next]_vars
               PROVE  IInv'
    OBVIOUS
  <2>1. TypeOK /\ TypeOK'
    BY TypeStep DEF IInv
  <2>2. CASE CloseTable
    <3>1. rows' = rows /\ rows # <<>> /\ check_state_row(rows[1], rows[Len(rows)], 0)
      BY <2>1, <2>2 DEF CloseTable
    <3> QED
      BY <2>1, <3>1 DEF IInv, Checked, SortedRuns, StartsFirst, Wrapped
  <2>3. CASE UNCHANGED vars
    BY <2>1, <2>3 DEF IInv, Checked, SortedRuns, StartsFirst, Wrapped, vars
  <2> QED
    BY <2>1, <2>2, <2>3, StepCases, FirstRowStep, NextRowStep
<1> QED
  BY <1>1, <1>2, PTL DEF Spec

-----------------------------------------------------------------------------
(* Rows of one key are adjacent and sorted by counter.                     *)

\* In a table with Start rows only as padding, and when no two keys collide in
\* the packing, the rows of a key are adjacent and sorted by counter.
LEMMA GroupedFromOrder ==
  ASSUME IInv, NoCollision, ~StartInside
  PROVE  GroupedByKey
<1> SUFFICES ASSUME NEW i \in DOMAIN rows, NEW m \in DOMAIN rows, i < m,
                    rows[i].key = rows[m].key, rows[i].key.tag # Start
             PROVE  /\ rows[i].rwc < rows[m].rwc
                    /\ \A j \in i .. m : rows[j].key = rows[i].key
  BY DEF GroupedByKey
<1>1. DOMAIN rows = 1 .. Len(rows) /\ Len(rows) \in Nat /\ \A j \in DOMAIN rows : rows[j] \in RowSet
  BY DEF IInv, TypeOK
<1>2. \A j \in i .. m : j \in DOMAIN rows /\ rows[j].key.tag # Start
  BY <1>1 DEF IInv, StartsFirst
<1>3. ASSUME NEW a \in i .. m, NEW b \in i .. m, a < b
      PROVE  keys_rwc_to_limbs(rows[a]) < keys_rwc_to_limbs(rows[b])
  <2>1. \A q \in a + 1 .. b : q \in i .. m
    BY <1>1
  <2> QED
    BY <1>2, <1>3, <2>1 DEF IInv, SortedRuns
<1>4. ASSUME NEW a \in i .. m, NEW b \in i .. m, a < b
      PROVE  KeyCode(rows[a].key) <= KeyCode(rows[b].key)
  <2> DEFINE ka == KeyCode(rows[a].key)
             kb == KeyCode(rows[b].key)
  <2>1. /\ ka \in Nat /\ kb \in Nat /\ RwcBase \in Nat \ {0}
        /\ rows[a].rwc \in Nat /\ rows[b].rwc \in Nat
        /\ rows[a].rwc < RwcBase /\ rows[b].rwc < RwcBase
    BY <1>1, <1>2, PackedIsNatural
  <2>2. ka * RwcBase + rows[a].rwc < kb * RwcBase + rows[b].rwc
    BY <1>3, <1>4 DEF keys_rwc_to_limbs
  <2>3. ka * RwcBase \in Nat /\ kb * RwcBase \in Nat
    BY <2>1
  <2> HIDE DEF ka, kb
  <2>4. ka * RwcBase + rows[a].rwc <= kb * RwcBase + rows[b].rwc
    BY <2>1, <2>2, <2>3
  <2>5. ka <= kb
    BY <2>1, <2>4, HighPartOrders
  <2> QED
    BY <2>5 DEF ka, kb
<1>5. rows[i].rwc < rows[m].rwc
  <2>1. i \in i .. m /\ m \in i .. m
    BY <1>1
  <2>2. KeyCode(rows[i].key) * RwcBase + rows[i].rwc < KeyCode(rows[i].key) * RwcBase + rows[m].rwc
    BY <1>3, <2>1 DEF keys_rwc_to_limbs
  <2>3. /\ KeyCode(rows[i].key) * RwcBase \in Nat
        /\ rows[i].rwc \in Nat /\ rows[m].rwc \in Nat
    <3>1. KeyCode(rows[i].key) \in Nat /\ RwcBase \in Nat
      BY <1>1, PackedIsNatural
    <3> QED
      BY <1>1, <3>1, PackedIsNatural
  <2> QED
    BY <2>2, <2>3
<1>6. ASSUME NEW j \in i .. m
      PROVE  rows[j].key = rows[i].key
  <2>1. i \in i .. m /\ m \in i .. m /\ j \in DOMAIN rows
    BY <1>1, <1>2
  <2>2. /\ KeyCode(rows[i].key) \in Nat /\ KeyCode(rows[j].key) \in Nat
    BY <1>1, <2>1, PackedIsNatural
  <2>3. KeyCode(rows[i].key) <= KeyCode(rows[j].key) /\ KeyCode(rows[j].key) <= KeyCode(rows[i].key)
    <3>1. CASE j = i
      BY <2>2, <3>1
    <3>2. CASE j = m
      BY <2>2, <3>2
    <3>3. CASE i < j /\ j < m
      BY <1>4, <2>1, <3>3
    <3> QED
      BY <1>1, <3>1, <3>2, <3>3
  <2>4. KeyCode(rows[i].key) = KeyCode(rows[j].key)
    BY <2>2, <2>3
  <2>5. rows[i].key \in Keys /\ rows[j].key \in Keys
    BY <1>1, <2>1 DEF RowSet
  <2> QED
    BY <2>4, <2>5 DEF NoCollision
<1> QED
  BY <1>5, <1>6

\* "the records are constraint to be in group by their unique index first and to
\* be sorted by their ReadWriteCounter" (state-proof.md), under its conditions.
THEOREM Grouped ==
  ASSUME NoCollision, ~StartInside
  PROVE  Spec => []GroupedByKey
<1>1. IInv => GroupedByKey
  BY GroupedFromOrder
<1> QED
  BY <1>1, Invariance, PTL

-----------------------------------------------------------------------------
(* Read consistency.                                                       *)

\* What the checks of a read row say, in terms of the row before it.
LEMMA ReadRowChecks ==
  ASSUME NEW row, NEW row_prev, check_state_row(row, row_prev, 1),
         row.wr = 0, row.key.tag \in ZeroInitialised \cup {Stack}
  PROVE  IF row.key = row_prev.key THEN row.val = row_prev.val ELSE row.val = 0
<1>1. CASE row.key = row_prev.key
  BY <1>1 DEF check_state_row, check_consistency
<1>2. CASE row.key # row_prev.key
  <2>1. row.key.tag = Stack => FALSE
    BY <1>2 DEF check_state_row, check_tag, check_stack, FirstAccess, Start, Memory, Stack,
         Storage, CallContext, Account, TxRefund, TxAccessListAccount,
         TxAccessListAccountStorage, TxLog, TxReceipt
  <2>2. row.key.tag \in ZeroInitialised => row.val = 0
    BY <1>2 DEF check_state_row, check_tag, check_memory, check_call_context, check_tx_refund,
         check_tx_access_list_account, check_tx_access_list_account_storage,
         FirstReadIsZero, FirstAccess, ZeroInitialised, Start, Memory, Stack, Storage,
         CallContext, Account, TxRefund, TxAccessListAccount, TxAccessListAccountStorage,
         TxLog, TxReceipt
  <2> QED
    BY <1>2, <2>1, <2>2
<1> QED
  BY <1>1, <1>2

LEMMA ReadsLatestFromGroups ==
  ASSUME IInv, NoCollision, ~StartInside
  PROVE  ReadsLatest
<1> SUFFICES ASSUME NEW i \in DOMAIN rows, rows[i].wr = 0,
                    rows[i].key.tag \in ZeroInitialised \cup {Stack}
             PROVE  SeesLatest(i)
  BY DEF ReadsLatest
<1> DEFINE Earlier == {j \in DOMAIN rows : rows[j].key = rows[i].key /\ rows[j].rwc < rows[i].rwc}
<1>1. /\ DOMAIN rows = 1 .. Len(rows) /\ Len(rows) \in Nat
      /\ \A j \in DOMAIN rows : rows[j] \in RowSet /\ rows[j].rwc \in Nat
  BY PackedIsNatural DEF IInv, TypeOK
<1>2. GroupedByKey
  BY GroupedFromOrder
<1>3. rows[i].key.tag # Start
  BY DEF ZeroInitialised, Start, Memory, Stack, CallContext, TxRefund, TxAccessListAccount,
         TxAccessListAccountStorage
<1>4. i > 1 /\ i - 1 \in DOMAIN rows
  BY <1>1, <1>3 DEF IInv, StartsFirst
<1>5. IF rows[i].key = rows[i - 1].key THEN rows[i].val = rows[i - 1].val ELSE rows[i].val = 0
  BY <1>4, ReadRowChecks DEF IInv, Checked
<1>6. ASSUME NEW j \in Earlier
      PROVE  j <= i - 1
  <2>1. j \in DOMAIN rows /\ rows[j].key = rows[i].key /\ rows[j].rwc < rows[i].rwc
    BY <1>6
  <2>2. ~(i < j)
    BY <1>1, <1>2, <1>3, <2>1 DEF GroupedByKey
  <2> QED
    BY <1>1, <2>1, <2>2
<1>7. CASE rows[i].key # rows[i - 1].key
  <2>1. Earlier = {}
    <3> SUFFICES ASSUME NEW j \in Earlier
                 PROVE  FALSE
      OBVIOUS
    <3>1. j \in DOMAIN rows /\ rows[j].key = rows[i].key /\ j < i /\ i - 1 \in j .. i
      BY <1>1, <1>6
    <3> QED
      BY <1>2, <1>3, <1>7, <3>1 DEF GroupedByKey
  <2> QED
    BY <1>5, <1>7, <2>1 DEF SeesLatest
<1>8. CASE rows[i].key = rows[i - 1].key
  <2>1. i - 1 \in Earlier
    BY <1>1, <1>2, <1>3, <1>4, <1>8 DEF GroupedByKey
  <2>2. \A m \in Earlier : rows[m].rwc <= rows[i - 1].rwc
    <3> SUFFICES ASSUME NEW m \in Earlier, m # i - 1
                 PROVE  rows[m].rwc <= rows[i - 1].rwc
      BY <1>1, <1>4
    <3>1. m \in DOMAIN rows /\ rows[m].key = rows[i - 1].key /\ m < i - 1
      BY <1>1, <1>6, <1>8
    <3> QED
      BY <1>1, <1>2, <1>3, <1>4, <1>8, <3>1 DEF GroupedByKey
  <2> QED
    BY <1>5, <1>8, <2>1, <2>2 DEF SeesLatest
<1> QED
  BY <1>7, <1>8

\* Every read of an accepted table returns what the latest earlier access of the
\* cell, in counter order, left there, or 0 before the first.
THEOREM ReadConsistency ==
  ASSUME NoCollision, ~StartInside
  PROVE  Spec => []ReadsLatest
<1>1. IInv => ReadsLatest
  BY ReadsLatestFromGroups
<1> QED
  BY <1>1, Invariance, PTL

-----------------------------------------------------------------------------
(* The cycle.                                                              *)

\* An accepted table has a Start row, wherever the prover may put Start rows.
THEOREM StartNeeded == Spec => []ClosedHasStart
<1>1. ASSUME IInv
      PROVE  ClosedHasStart
  <2> SUFFICES ASSUME closed, \A i \in DOMAIN rows : rows[i].key.tag # Start
               PROVE  FALSE
    BY DEF ClosedHasStart
  <2> DEFINE n == Len(rows)
  <2>1. /\ n \in Nat \ {0} /\ DOMAIN rows = 1 .. n /\ 1 \in DOMAIN rows /\ n \in DOMAIN rows
        /\ rows[1] \in RowSet /\ rows[n] \in RowSet
    BY <1>1 DEF IInv, TypeOK, Wrapped
  <2>2. keys_rwc_to_limbs(rows[n]) < keys_rwc_to_limbs(rows[1])
    BY <1>1, <2>1 DEF IInv, Wrapped, check_state_row, check_order
  <2>3. keys_rwc_to_limbs(rows[n]) \in Nat /\ keys_rwc_to_limbs(rows[1]) \in Nat
    BY <2>1, PackedIsNatural
  <2>4. n > 1
    BY <2>1, <2>2, <2>3
  <2>5. \A m \in 2 .. n : rows[m].key.tag # Start
    BY <2>1
  <2>6. keys_rwc_to_limbs(rows[1]) < keys_rwc_to_limbs(rows[n])
    BY <1>1, <2>1, <2>4, <2>5 DEF IInv, SortedRuns
  <2> QED
    BY <2>2, <2>3, <2>6
<1> QED
  BY <1>1, Invariance, PTL

-----------------------------------------------------------------------------
(* Receipts.                                                               *)

\* A receipt row is that of transaction 1, of the transaction of the receipt row
\* before it, or of the next one.
LEMMA ReceiptRowChecks ==
  ASSUME NEW row, NEW row_prev, check_state_row(row, row_prev, 1), row.key.tag = TxReceipt
  PROVE  \/ row.key.id = 1
         \/ row_prev.key.tag = TxReceipt /\ row.key.id \in {row_prev.key.id, row_prev.key.id + 1}
<1>1. check_tx_receipt(row, row_prev)
  BY DEF check_state_row, check_tag, Start, Memory, Stack, Storage, CallContext, Account,
         TxRefund, TxAccessListAccount, TxAccessListAccountStorage, TxLog, TxReceipt
<1> QED
  BY <1>1 DEF check_tx_receipt, tx_id_step

LEMMA ReceiptsNextRow ==
  ASSUME IInv, ReceiptsNumbered, NEW row \in RowSet, IsNextRow(row)
  PROVE  ReceiptsNumbered'
<1> DEFINE n == Len(rows)
<1>1. /\ n \in Nat \ {0} /\ DOMAIN rows = 1 .. n /\ DOMAIN rows' = 1 .. n + 1
      /\ \A i \in 1 .. n : rows'[i] = rows[i] /\ rows[i] \in RowSet
      /\ rows'[n + 1] = row
  BY DEF IInv, TypeOK, IsNextRow, AppendRow
<1>2. check_state_row(row, rows[n], 1)
  BY DEF IsNextRow, AppendRow, LastRow
<1>3. row.key.id \in Nat /\ rows[n].key.id \in Nat
  <2>1. \A r \in RowSet : r.key \in [tag : Nat, id : Nat, addr : Nat, ft : Nat, sk : Nat]
    BY ConstantsAssumption DEF ConstantsAssumption, RowSet
  <2>2. \A r \in RowSet : r.key.id \in Nat
    BY <2>1
  <2> QED
    BY <1>1, <2>2
<1> HIDE DEF n
<1> SUFFICES ASSUME NEW i \in 1 .. n + 1, rows'[i].key.tag = TxReceipt,
                    NEW t \in 1 .. rows'[i].key.id
             PROVE  \E j \in 1 .. i : rows'[j].key.tag = TxReceipt /\ rows'[j].key.id = t
  BY <1>1 DEF ReceiptsNumbered
<1>4. CASE i < n + 1
  <2>1. i \in 1 .. n /\ rows[i].key.tag = TxReceipt /\ t \in 1 .. rows[i].key.id
    BY <1>1, <1>4
  <2>2. PICK j \in 1 .. i : rows[j].key.tag = TxReceipt /\ rows[j].key.id = t
    BY <1>1, <2>1 DEF ReceiptsNumbered
  <2>3. j \in 1 .. n
    BY <1>1, <2>1
  <2> QED
    BY <1>1, <2>2, <2>3
<1>5. CASE i = n + 1
  <2>1. CASE t = row.key.id
    BY <1>1, <1>5, <2>1
  <2>2. CASE t # row.key.id
    <3>1. t \in 1 .. row.key.id /\ row.key.tag = TxReceipt
      BY <1>1, <1>5
    <3>2. rows[n].key.tag = TxReceipt /\ t \in 1 .. rows[n].key.id
      BY <1>2, <1>3, <2>2, <3>1, ReceiptRowChecks
    <3>3. PICK j \in 1 .. n : rows[j].key.tag = TxReceipt /\ rows[j].key.id = t
      BY <1>1, <3>2 DEF ReceiptsNumbered
    <3> QED
      BY <1>1, <1>5, <3>3
  <2> QED
    BY <2>1, <2>2
<1> QED
  BY <1>1, <1>4, <1>5

\* The transactions that have a receipt are 1, 2, ... without a gap.
THEOREM ReceiptNumbers ==
  ASSUME ~StartInside
  PROVE  Spec => []ReceiptsNumbered
<1>1. Init => ReceiptsNumbered
  <2>1. DOMAIN <<>> = {}
    OBVIOUS
  <2> QED
    BY <2>1 DEF Init, ReceiptsNumbered
<1>2. IInv /\ ReceiptsNumbered /\ [Next]_vars => ReceiptsNumbered'
  <2> SUFFICES ASSUME IInv, ReceiptsNumbered, [Next]_vars
               PROVE  ReceiptsNumbered'
    OBVIOUS
  <2>1. ASSUME NEW row \in RowSet, IsFirstRow(row) PROVE ReceiptsNumbered'
    <3>1. rows' = <<row>> /\ DOMAIN rows' = {1} /\ rows'[1] = row /\ row.key.tag = Start
      BY <2>1 DEF IsFirstRow
    <3> QED
      BY <3>1 DEF ReceiptsNumbered, Start, TxReceipt
  <2>2. CASE CloseTable
    BY <2>2 DEF CloseTable, ReceiptsNumbered
  <2>3. CASE UNCHANGED vars
    BY <2>3 DEF vars, ReceiptsNumbered
  <2>4. TypeOK
    BY DEF IInv
  <2> QED
    BY <2>1, <2>2, <2>3, <2>4, StepCases, ReceiptsNextRow
<1> QED
  BY <1>1, <1>2, Invariance, PTL DEF Spec

-----------------------------------------------------------------------------
(* The stack.  Only the position of the row of the larger key has to fit   *)
(* its limbs: a row with a storage key too wide for the packing may collide*)
(* with others, but never comes between the rows of a stack.               *)

Fits(k) ==
  /\ k.id < IdBase /\ k.addr < AddrBase /\ k.ft < FieldBase /\ k.sk < SkeyShift

TagId(k) == k.tag * IdBase + k.id
Cell(k) == TagId(k) * AddrBase + k.addr

LEMMA KeysTyped ==
  ASSUME NEW k \in Keys
  PROVE  /\ k = [tag |-> k.tag, id |-> k.id, addr |-> k.addr, ft |-> k.ft, sk |-> k.sk]
         /\ k.tag \in Nat /\ k.id \in Nat /\ k.addr \in Nat /\ k.ft \in Nat /\ k.sk \in Nat
         /\ TagId(k) \in Nat /\ Cell(k) \in Nat
<1>0. /\ Keys \subseteq [tag : Nat, id : Nat, addr : Nat, ft : Nat, sk : Nat]
      /\ IdBase \in Nat \ {0} /\ AddrBase \in Nat \ {0}
  BY ConstantsAssumption DEF ConstantsAssumption
<1>1. /\ k = [tag |-> k.tag, id |-> k.id, addr |-> k.addr, ft |-> k.ft, sk |-> k.sk]
      /\ k.tag \in Nat /\ k.id \in Nat /\ k.addr \in Nat /\ k.ft \in Nat /\ k.sk \in Nat
  BY <1>0
<1>2. TagId(k) \in Nat
  BY <1>0, <1>1 DEF TagId
<1>3. Cell(k) \in Nat
  BY <1>0, <1>1, <1>2 DEF Cell
<1> QED
  BY <1>1, <1>2, <1>3

\* A key that is not above a fitting one is not above it in its leading parts.
LEMMA LeadingPartsOrdered ==
  ASSUME NEW r1 \in RowSet, NEW r2 \in RowSet, Fits(r2.key),
         keys_rwc_to_limbs(r1) <= keys_rwc_to_limbs(r2)
  PROVE  /\ r1.key.tag <= r2.key.tag
         /\ TagId(r1.key) <= TagId(r2.key)
         /\ Cell(r1.key) <= Cell(r2.key)
<1> DEFINE k1 == r1.key   k2 == r2.key
           F1 == Cell(k1) * FieldBase + k1.ft
           F2 == Cell(k2) * FieldBase + k2.ft
<1>0. /\ IdBase \in Nat \ {0} /\ AddrBase \in Nat \ {0} /\ FieldBase \in Nat \ {0}
      /\ SkeyShift \in Nat \ {0}
  BY ConstantsAssumption DEF ConstantsAssumption
<1>1. /\ k1 \in Keys /\ k2 \in Keys
      /\ k2.id < IdBase /\ k2.addr < AddrBase /\ k2.ft < FieldBase /\ k2.sk < SkeyShift
  BY DEF RowSet, Fits
<1>2. \A k \in {k1, k2} :
        /\ k.tag \in Nat /\ k.id \in Nat /\ k.addr \in Nat /\ k.ft \in Nat /\ k.sk \in Nat
        /\ TagId(k) \in Nat /\ Cell(k) \in Nat
  BY <1>1, KeysTyped
<1>3. F1 \in Nat /\ F2 \in Nat
  BY <1>0, <1>2
<1>4. /\ KeyCode(k1) \in Nat /\ KeyCode(k2) \in Nat
      /\ KeyCode(k1) * RwcBase + r1.rwc <= KeyCode(k2) * RwcBase + r2.rwc
      /\ r1.rwc \in Nat /\ r2.rwc \in Nat /\ r2.rwc < RwcBase /\ RwcBase \in Nat \ {0}
  BY PackedIsNatural DEF keys_rwc_to_limbs
<1>5. KeyCode(k1) <= KeyCode(k2)
  <2> HIDE DEF k1, k2
  <2> QED
    BY <1>4, HighPartOrders
<1>6. F1 * SkeyShift + k1.sk <= F2 * SkeyShift + k2.sk
  BY <1>5 DEF KeyCode, Cell, TagId
<1> HIDE DEF k1, k2
<1>7. F1 <= F2
  <2> HIDE DEF F1, F2
  <2> QED
    BY <1>0, <1>1, <1>2, <1>3, <1>6, HighPartOrders
<1>8. Cell(k1) <= Cell(k2)
  BY <1>0, <1>1, <1>2, <1>7, HighPartOrders
<1>9. TagId(k1) <= TagId(k2)
  BY <1>0, <1>1, <1>2, <1>8, HighPartOrders DEF Cell
<1>10. k1.tag <= k2.tag
  BY <1>0, <1>1, <1>2, <1>9, HighPartOrders DEF TagId
<1> QED
  BY <1>8, <1>9, <1>10 DEF k1, k2

\* The key of position p of the stack of call id.
StackKey(id, p) == [tag |-> Stack, id |-> id, addr |-> p, ft |-> 0, sk |-> 0]

\* What the checks of a stack row say, in terms of the row before it.
LEMMA StackRowChecks ==
  ASSUME NEW row \in RowSet, NEW row_prev, check_state_row(row, row_prev, 1),
         row.key.tag = Stack
  PROVE  /\ row.key = StackKey(row.key.id, row.key.addr) /\ Fits(row.key)
         /\ row.key # row_prev.key => row.wr = 1
         /\ row_prev.key.tag = Stack /\ row_prev.key.id = row.key.id =>
              row.key.addr - row_prev.key.addr \in 0 .. 1
<1>0. /\ IdBase \in Nat \ {0} /\ AddrBase \in Nat \ {0} /\ FieldBase \in Nat \ {0}
      /\ SkeyShift \in Nat \ {0}
  BY ConstantsAssumption DEF ConstantsAssumption
<1>1. check_stack(row, row_prev) /\ check_ranges(row)
  BY DEF check_state_row, check_tag, Start, Memory, Stack, Storage, CallContext, Account,
         TxRefund, TxAccessListAccount, TxAccessListAccountStorage, TxLog, TxReceipt
<1>2. row.key = StackKey(row.key.id, row.key.addr)
  BY <1>1, KeysTyped DEF check_stack, StackKey, RowSet
<1>3. Fits(row.key)
  BY <1>0, <1>1 DEF check_stack, check_ranges, Fits
<1> QED
  BY <1>1, <1>2, <1>3 DEF check_stack, FirstAccess, stack_ptr_diff

\* A row below the stacks in the order fits too.
LEMMA MemoryRowFits ==
  ASSUME NEW row, NEW row_prev, check_state_row(row, row_prev, 1), row.key.tag = Memory
  PROVE  Fits(row.key)
<1>0. /\ IdBase \in Nat \ {0} /\ AddrBase \in Nat \ {0} /\ FieldBase \in Nat \ {0}
      /\ SkeyShift \in Nat \ {0}
  BY ConstantsAssumption DEF ConstantsAssumption
<1>1. check_memory(row, row_prev) /\ check_ranges(row)
  BY DEF check_state_row, check_tag, Start, Memory, Stack, Storage, CallContext, Account,
         TxRefund, TxAccessListAccount, TxAccessListAccountStorage, TxLog, TxReceipt
<1> QED
  BY <1>0, <1>1 DEF check_memory, check_ranges, Fits

\* The stack rows of a table are adjacent, and sorted by call, position and counter.
StacksSorted ==
  \A i, m \in DOMAIN rows :
    i < m /\ rows[i].key.tag = Stack /\ rows[m].key.tag = Stack =>
      /\ \A j \in i .. m : rows[j].key.tag = Stack
      /\ rows[i].key.id <= rows[m].key.id
      /\ rows[i].key.id = rows[m].key.id => rows[i].key.addr <= rows[m].key.addr
      /\ rows[i].key = rows[m].key => rows[i].rwc < rows[m].rwc

LEMMA StacksAreSorted ==
  ASSUME IInv, ~StartInside
  PROVE  StacksSorted
<1> SUFFICES ASSUME NEW i \in DOMAIN rows, NEW m \in DOMAIN rows, i < m,
                    rows[i].key.tag = Stack, rows[m].key.tag = Stack
             PROVE  /\ \A j \in i .. m : rows[j].key.tag = Stack
                    /\ rows[i].key.id <= rows[m].key.id
                    /\ rows[i].key.id = rows[m].key.id => rows[i].key.addr <= rows[m].key.addr
                    /\ rows[i].key = rows[m].key => rows[i].rwc < rows[m].rwc
  BY DEF StacksSorted
<1>1. /\ DOMAIN rows = 1 .. Len(rows) /\ Len(rows) \in Nat
      /\ \A j \in DOMAIN rows : rows[j] \in RowSet /\ rows[j].key \in Keys
  <2>1. \A r \in RowSet : r.key \in Keys
    BY DEF RowSet
  <2> QED
    BY <2>1 DEF IInv, TypeOK
<1>2. \A j \in i .. m : j \in DOMAIN rows /\ rows[j].key.tag # Start
  BY <1>1 DEF IInv, StartsFirst, Start, Stack
<1>3. \A j \in i .. m : j > 1
  BY <1>1, <1>2 DEF IInv, StartsFirst
<1>4. \A j \in i .. m : check_state_row(rows[j], rows[j - 1], 1)
  BY <1>2, <1>3 DEF IInv, Checked
<1>5. ASSUME NEW a \in i .. m, NEW b \in i .. m, a < b
      PROVE  /\ keys_rwc_to_limbs(rows[a]) <= keys_rwc_to_limbs(rows[b])
             /\ keys_rwc_to_limbs(rows[a]) < keys_rwc_to_limbs(rows[b])
  <2>1. \A q \in a + 1 .. b : q \in i .. m
    BY <1>1
  <2>2. keys_rwc_to_limbs(rows[a]) < keys_rwc_to_limbs(rows[b])
    BY <1>2, <1>5, <2>1 DEF IInv, SortedRuns
  <2>3. keys_rwc_to_limbs(rows[a]) \in Nat /\ keys_rwc_to_limbs(rows[b]) \in Nat
    BY <1>1, <1>2, PackedIsNatural
  <2> QED
    BY <2>2, <2>3
<1>6. i \in i .. m /\ m \in i .. m
  BY <1>1
<1>7. ASSUME NEW j \in i .. m
      PROVE  rows[j].key.tag = Stack
  <2>1. j \in DOMAIN rows /\ rows[j] \in RowSet /\ rows[i] \in RowSet /\ rows[m] \in RowSet
    BY <1>1, <1>2
  <2>2. CASE j = i \/ j = m
    BY <2>2
  <2>3. CASE i < j /\ j < m
    <3>1. rows[j].key.tag <= Stack
      BY <1>4, <1>5, <1>6, <2>1, <2>3, LeadingPartsOrdered, StackRowChecks
    <3>2. rows[j].key.tag # Memory
      <4> SUFFICES ASSUME rows[j].key.tag = Memory PROVE FALSE
        OBVIOUS
      <4>1. Fits(rows[j].key)
        BY <1>4, MemoryRowFits
      <4>2. Stack <= Memory
        BY <1>5, <1>6, <2>1, <2>3, <4>1, LeadingPartsOrdered
      <4> QED
        BY <4>2 DEF Stack, Memory
    <3>3. rows[j].key.tag # Start /\ rows[j].key.tag \in 1 .. MAX_TAG
      BY <1>2, <1>4 DEF check_state_row, check_ranges
    <3> QED
      BY <3>1, <3>2, <3>3 DEF Start, Memory, Stack, MAX_TAG
  <2> QED
    BY <1>1, <2>2, <2>3
<1>8. /\ rows[i] \in RowSet /\ rows[m] \in RowSet
      /\ rows[i].key \in Keys /\ rows[m].key \in Keys
  BY <1>1
<1>9. TagId(rows[i].key) <= TagId(rows[m].key) /\ Cell(rows[i].key) <= Cell(rows[m].key)
  BY <1>4, <1>5, <1>6, <1>8, LeadingPartsOrdered, StackRowChecks
<1>10. /\ \A k \in {rows[i].key, rows[m].key} :
             k.tag \in Nat /\ k.id \in Nat /\ k.addr \in Nat /\ TagId(k) \in Nat
       /\ IdBase \in Nat \ {0} /\ AddrBase \in Nat \ {0}
  BY <1>8, KeysTyped, ConstantsAssumption DEF ConstantsAssumption
<1>11. rows[i].key.id <= rows[m].key.id
  <2>1. Stack * IdBase \in Nat
    BY <1>10 DEF Stack
  <2>2. Stack * IdBase + rows[i].key.id <= Stack * IdBase + rows[m].key.id
    BY <1>9 DEF TagId
  <2> QED
    BY <1>10, <2>1, <2>2
<1>12. ASSUME rows[i].key.id = rows[m].key.id
       PROVE  rows[i].key.addr <= rows[m].key.addr
  <2> DEFINE t == TagId(rows[m].key)
  <2>1. TagId(rows[i].key) = t
    BY <1>12 DEF TagId
  <2>2. t \in Nat /\ t * AddrBase \in Nat
    BY <1>10
  <2>3. t * AddrBase + rows[i].key.addr <= t * AddrBase + rows[m].key.addr
    BY <1>9, <2>1 DEF Cell
  <2> HIDE DEF t
  <2> QED
    BY <1>10, <2>2, <2>3
<1>13. ASSUME rows[i].key = rows[m].key
       PROVE  rows[i].rwc < rows[m].rwc
  <2> DEFINE c == KeyCode(rows[m].key) * RwcBase
  <2>1. c + rows[i].rwc < c + rows[m].rwc
    BY <1>5, <1>6, <1>13 DEF keys_rwc_to_limbs
  <2>2. KeyCode(rows[m].key) \in Nat /\ RwcBase \in Nat
    BY <1>8, PackedIsNatural
  <2>3. c \in Nat /\ rows[i].rwc \in Nat /\ rows[m].rwc \in Nat
    <3> HIDE DEF c
    <3>1. rows[i].rwc \in Nat /\ rows[m].rwc \in Nat
      BY <1>8, PackedIsNatural
    <3> QED
      BY <2>2, <3>1 DEF c
  <2> HIDE DEF c
  <2> QED
    BY <2>1, <2>3
<1> QED
  BY <1>7, <1>11, <1>12, <1>13

\* Some row of t is a write of k, and the first access of k in counter order.
Opened(t, k) ==
  \E w \in DOMAIN t :
    /\ t[w].key = k
    /\ t[w].wr = 1
    /\ \A r \in DOMAIN t : t[r].key = t[w].key => t[w].rwc <= t[r].rwc

StackFilled ==
  \A i, m \in DOMAIN rows :
    rows[i].key.tag = Stack /\ rows[m].key.tag = Stack /\ rows[i].key.id = rows[m].key.id =>
      \A p \in rows[i].key.addr .. rows[m].key.addr : Opened(rows, StackKey(rows[i].key.id, p))

\* A row laid down leaves the positions opened before it opened.
LEMMA StaysOpened ==
  ASSUME IInv, StacksSorted', NEW row \in RowSet, IsNextRow(row),
         NEW id, NEW p, Opened(rows, StackKey(id, p))
  PROVE  Opened(rows', StackKey(id, p))
<1> DEFINE n == Len(rows)
<1>1. /\ n \in Nat \ {0} /\ DOMAIN rows = 1 .. n /\ DOMAIN rows' = 1 .. n + 1
      /\ \A i \in 1 .. n : rows'[i] = rows[i] /\ rows[i] \in RowSet
      /\ rows'[n + 1] = row
  BY DEF IInv, TypeOK, IsNextRow, AppendRow
<1> HIDE DEF n
<1>2. PICK w \in 1 .. n :
        /\ rows[w].key = StackKey(id, p) /\ rows[w].wr = 1
        /\ \A r \in 1 .. n : rows[r].key = rows[w].key => rows[w].rwc <= rows[r].rwc
  BY <1>1 DEF Opened
<1>3. w \in 1 .. n + 1 /\ rows'[w] = rows[w] /\ rows[w].key.tag = Stack
  BY <1>1, <1>2 DEF StackKey
<1>4. ASSUME row.key = rows[w].key
      PROVE  rows[w].rwc <= row.rwc
  <2>1. rows'[w].rwc < rows'[n + 1].rwc
    <3>1. /\ w \in DOMAIN rows' /\ n + 1 \in DOMAIN rows' /\ w < n + 1
          /\ rows'[w].key.tag = Stack /\ rows'[n + 1].key.tag = Stack
          /\ rows'[w].key = rows'[n + 1].key
      BY <1>1, <1>2, <1>3, <1>4
    <3> QED
      BY <3>1 DEF StacksSorted
  <2>2. rows[w] \in RowSet
    BY <1>1, <1>2
  <2>3. rows[w].rwc \in Nat /\ row.rwc \in Nat
    BY <2>2, PackedIsNatural
  <2> QED
    BY <1>1, <1>3, <2>1, <2>3
<1>5. ASSUME NEW r \in 1 .. n + 1, rows'[r].key = rows'[w].key
      PROVE  rows'[w].rwc <= rows'[r].rwc
  <2>1. CASE r = n + 1
    BY <1>1, <1>3, <1>4, <1>5, <2>1
  <2>2. CASE r # n + 1
    <3>1. r \in 1 .. n
      BY <1>1, <2>2
    <3> QED
      BY <1>1, <1>2, <1>3, <1>5, <3>1
  <2> QED
    BY <2>1, <2>2
<1> QED
  BY <1>1, <1>2, <1>3, <1>5 DEF Opened

LEMMA StackNextRow ==
  ASSUME IInv, StacksSorted, StacksSorted', ~StartInside, StackFilled, NEW row \in RowSet, IsNextRow(row)
  PROVE  StackFilled'
<1> DEFINE n == Len(rows)
<1>1. /\ n \in Nat \ {0} /\ DOMAIN rows = 1 .. n /\ DOMAIN rows' = 1 .. n + 1
      /\ \A i \in 1 .. n : rows'[i] = rows[i] /\ rows[i] \in RowSet
      /\ rows'[n + 1] = row
  BY DEF IInv, TypeOK, IsNextRow, AppendRow
<1>2. check_state_row(row, rows[n], 1)
  BY DEF IsNextRow, AppendRow, LastRow
<1> HIDE DEF n
<1> SUFFICES ASSUME NEW i \in 1 .. n + 1, NEW m \in 1 .. n + 1,
                    rows'[i].key.tag = Stack, rows'[m].key.tag = Stack,
                    rows'[i].key.id = rows'[m].key.id,
                    NEW p \in rows'[i].key.addr .. rows'[m].key.addr
             PROVE  Opened(rows', StackKey(rows'[i].key.id, p))
  BY <1>1 DEF StackFilled
<1> DEFINE id == rows'[i].key.id
<1>3. \A j \in 1 .. n + 1 : rows'[j].key.id \in Nat /\ rows'[j].key.addr \in Nat
  <2>1. \A r \in RowSet : r.key \in Keys
    BY DEF RowSet
  <2>2. \A j \in 1 .. n + 1 : rows'[j] \in RowSet
    BY <1>1
  <2> QED
    BY <2>1, <2>2, KeysTyped
<1>4. ASSUME NEW a \in 1 .. n, NEW b \in 1 .. n,
             rows[a].key.tag = Stack, rows[b].key.tag = Stack,
             rows[a].key.id = id, rows[b].key.id = id,
             p \in rows[a].key.addr .. rows[b].key.addr
      PROVE  Opened(rows', StackKey(id, p))
  <2>1. Opened(rows, StackKey(id, p))
    BY <1>1, <1>4 DEF StackFilled
  <2> HIDE DEF id
  <2> QED
    BY <2>1, StaysOpened
<1>5. CASE i \in 1 .. n /\ m \in 1 .. n
  BY <1>1, <1>4, <1>5
<1>6. ASSUME row.key.tag = Stack, row.key.id = id, NEW a \in 1 .. n,
             rows[a].key.tag = Stack, rows[a].key.id = id
      PROVE  /\ rows[n].key.tag = Stack /\ rows[n].key.id = id
             /\ rows[a].key.addr <= rows[n].key.addr
             /\ row.key.addr - rows[n].key.addr \in 0 .. 1
  <2>1. /\ a \in DOMAIN rows' /\ n + 1 \in DOMAIN rows' /\ a < n + 1 /\ n \in a .. n + 1
        /\ rows'[a].key.tag = Stack /\ rows'[n + 1].key.tag = Stack
        /\ n \in DOMAIN rows /\ n \in DOMAIN rows' /\ n < n + 1 /\ rows'[n] = rows[n]
    BY <1>1, <1>6
  <2>2. rows[n].key.tag = Stack
    BY <2>1 DEF StacksSorted
  <2>3. rows[n].key.id <= row.key.id
    BY <1>1, <2>1, <2>2 DEF StacksSorted
  <2>4. CASE a = n
    BY <1>2, <1>3, <1>6, <2>1, <2>4, StackRowChecks
  <2>5. CASE a < n
    <3>1. a \in DOMAIN rows
      BY <1>1
    <3>2. /\ rows[a].key.id <= rows[n].key.id
          /\ rows[a].key.id = rows[n].key.id => rows[a].key.addr <= rows[n].key.addr
      BY <1>6, <2>1, <2>2, <2>5, <3>1 DEF StacksSorted
    <3>3. rows[n].key.id = id
      BY <1>1, <1>3, <1>6, <2>1, <2>3, <3>2
    <3> QED
      BY <1>2, <1>6, <2>2, <3>2, <3>3, StackRowChecks
  <2> QED
    BY <1>1, <2>4, <2>5
<1>7. ASSUME row.key.tag = Stack, row.key.id = id, p = row.key.addr
      PROVE  Opened(rows', StackKey(id, p))
  <2>0. row.key = StackKey(id, p)
    BY <1>2, <1>7, StackRowChecks
  <2>1. CASE row.key = rows[n].key
    <3>1. rows[n].key.tag = Stack /\ rows[n].key.id = id /\ p = rows[n].key.addr /\ n \in 1 .. n
      BY <1>1, <1>7, <2>1
    <3>2. p \in rows[n].key.addr .. rows[n].key.addr
      BY <1>1, <1>3, <3>1
    <3> QED
      BY <1>4, <3>1, <3>2
  <2>2. CASE row.key # rows[n].key
    <3>1. row.wr = 1
      BY <1>2, <1>7, <2>2, StackRowChecks
    <3>2. ASSUME NEW r \in 1 .. n, rows[r].key = row.key
          PROVE  FALSE
      <4>1. rows[r].key.tag = Stack /\ rows[r].key.id = id
        BY <1>7, <3>2
      <4>2. rows[n].key.tag = Stack /\ rows[n].key.id = id /\ row.key.addr = rows[n].key.addr
        <5>1. /\ rows[n].key.tag = Stack /\ rows[n].key.id = id
              /\ row.key.addr <= rows[n].key.addr
              /\ row.key.addr - rows[n].key.addr \in 0 .. 1
          BY <1>6, <1>7, <3>2, <4>1
        <5>2. rows[n].key.addr \in Nat /\ row.key.addr \in Nat
          BY <1>1, <1>3
        <5> QED
          BY <5>1, <5>2
      <4>3. rows[n].key = StackKey(id, rows[n].key.addr)
        <5>1. n > 1 /\ n \in DOMAIN rows
          BY <1>1, <4>2 DEF IInv, StartsFirst, Stack, Start
        <5>2. check_state_row(rows[n], rows[n - 1], 1) /\ rows[n] \in RowSet
          BY <1>1, <5>1 DEF IInv, Checked
        <5> QED
          BY <4>2, <5>2, StackRowChecks
      <4> QED
        BY <1>7, <2>0, <2>2, <4>2, <4>3
    <3>3. \A r \in 1 .. n + 1 : rows'[r].key = rows'[n + 1].key => rows'[n + 1].rwc <= rows'[r].rwc
      <4>1. row.rwc \in Nat
        BY PackedIsNatural
      <4>2. \A r \in 1 .. n + 1 : rows'[r].key = rows'[n + 1].key => r = n + 1
        BY <1>1, <3>2
      <4> QED
        BY <1>1, <4>1, <4>2
    <3>4. n + 1 \in 1 .. n + 1
      BY <1>1
    <3> QED
      BY <1>1, <2>0, <3>1, <3>3, <3>4 DEF Opened
  <2> QED
    BY <2>1, <2>2
<1>8. CASE i = n + 1 /\ m = n + 1
  <2>1. p = row.key.addr /\ row.key.tag = Stack /\ row.key.id = id
    BY <1>1, <1>3, <1>8
  <2> QED
    BY <1>7, <2>1
<1>9. CASE i = n + 1 /\ m \in 1 .. n
  <2>1. row.key.tag = Stack /\ row.key.id = id /\ rows[m].key.tag = Stack /\ rows[m].key.id = id
    BY <1>1, <1>9
  <2>2. rows[m].key.addr <= rows[n].key.addr /\ row.key.addr - rows[n].key.addr \in 0 .. 1
    BY <1>6, <1>9, <2>1
  <2>3. p = row.key.addr
    <3>1. /\ row.key.addr \in Nat /\ rows[m].key.addr \in Nat /\ rows[n].key.addr \in Nat
          /\ p \in row.key.addr .. rows[m].key.addr
      BY <1>1, <1>3, <1>9
    <3> QED
      BY <2>2, <3>1
  <2> QED
    BY <1>7, <2>1, <2>3
<1>10. CASE i \in 1 .. n /\ m = n + 1
  <2>1. row.key.tag = Stack /\ row.key.id = id /\ rows[i].key.tag = Stack /\ rows[i].key.id = id
    BY <1>1, <1>10
  <2>2. /\ rows[n].key.tag = Stack /\ rows[n].key.id = id
        /\ rows[i].key.addr <= rows[n].key.addr
        /\ row.key.addr - rows[n].key.addr \in 0 .. 1
    BY <1>6, <1>10, <2>1
  <2>3. /\ row.key.addr \in Nat /\ rows[i].key.addr \in Nat /\ rows[n].key.addr \in Nat
        /\ p \in rows[i].key.addr .. row.key.addr
    BY <1>1, <1>3, <1>10
  <2>4. p = row.key.addr \/ p \in rows[i].key.addr .. rows[n].key.addr
    BY <2>2, <2>3
  <2> QED
    BY <1>1, <1>4, <1>7, <1>10, <2>1, <2>2, <2>4
<1> QED
  BY <1>1, <1>5, <1>8, <1>9, <1>10
\* The positions a call's stack touches have no gap, and each is written before
\* it is read, whatever the order of the pushes and pops in time.
THEOREM StackWritten ==
  ASSUME ~StartInside
  PROVE  Spec => []StackDiscipline
<1>1. Init => StackFilled
  <2>1. DOMAIN <<>> = {}
    OBVIOUS
  <2> QED
    BY <2>1 DEF Init, StackFilled
<1>2. IInv /\ StacksSorted /\ StacksSorted' /\ StackFilled /\ [Next]_vars => StackFilled'
  <2> SUFFICES ASSUME IInv, StacksSorted, StacksSorted', StackFilled, [Next]_vars
               PROVE  StackFilled'
    OBVIOUS
  <2>1. ASSUME NEW row \in RowSet, IsFirstRow(row) PROVE StackFilled'
    <3>1. rows' = <<row>> /\ DOMAIN rows' = {1} /\ rows'[1] = row /\ row.key.tag = Start
      BY <2>1 DEF IsFirstRow
    <3> QED
      BY <3>1 DEF StackFilled, Start, Stack
  <2>2. CASE CloseTable
    BY <2>2 DEF CloseTable, StackFilled, Opened
  <2>3. CASE UNCHANGED vars
    BY <2>3 DEF vars, StackFilled, Opened
  <2>4. TypeOK
    BY DEF IInv
  <2> QED
    BY <2>1, <2>2, <2>3, <2>4, StepCases, StackNextRow
<1>3. IInv /\ StackFilled => StackDiscipline
  <2> SUFFICES ASSUME IInv, StackFilled, NEW i \in DOMAIN rows, NEW m \in DOMAIN rows,
                      rows[i].key.tag = Stack, rows[m].key.tag = Stack,
                      rows[i].key.id = rows[m].key.id,
                      NEW p \in rows[i].key.addr .. rows[m].key.addr
               PROVE  Opened(rows, [rows[i].key EXCEPT !.addr = p])
    BY DEF StackDiscipline, Opened
  <2>1. DOMAIN rows = 1 .. Len(rows) /\ Len(rows) \in Nat /\ rows[i] \in RowSet
    BY DEF IInv, TypeOK
  <2>2. i > 1
    BY <2>1 DEF IInv, StartsFirst, Start, Stack
  <2>3. check_state_row(rows[i], rows[i - 1], 1)
    BY <2>2 DEF IInv, Checked
  <2>4. rows[i].key = StackKey(rows[i].key.id, rows[i].key.addr)
    BY <2>1, <2>3, StackRowChecks
  <2>5. [rows[i].key EXCEPT !.addr = p] = StackKey(rows[i].key.id, p)
    BY <2>4 DEF StackKey
  <2> QED
    BY <2>5 DEF StackFilled
<1>4. IInv => StacksSorted
  BY StacksAreSorted
<1> QED
  BY <1>1, <1>2, <1>3, <1>4, Invariance, PTL DEF Spec

-----------------------------------------------------------------------------
(* Greatest elements and induction along the table.                        *)

Less == {p \in Nat \X Nat : p[1] < p[2]}

LEMMA Least ==
  ASSUME NEW T \in SUBSET Nat, T # {}
  PROVE  \E m \in T : \A n \in T : m <= n
<1>1. IsWellFoundedOn(Less, Nat)
  BY NatLessThanWellFounded DEF OpToRel, Less
<1>2. PICK m \in T : \A n \in T : <<n, m>> \notin Less
  BY <1>1, WFMin
<1>3. \A n \in T : ~(n < m)
  BY <1>2 DEF Less
<1> QED
  BY <1>3

LastOf(S) == CHOOSE i \in S : \A j \in S : j <= i

LEMMA LastOfIs ==
  ASSUME NEW S \in SUBSET Nat, NEW e \in S, \A j \in S : j <= e
  PROVE  LastOf(S) = e
<1> DEFINE l == LastOf(S)
<1>1. l \in S /\ \A j \in S : j <= l
  BY DEF LastOf
<1> HIDE DEF l
<1>2. l \in Nat /\ e \in Nat /\ l <= e /\ e <= l
  BY <1>1
<1> QED
  BY <1>2 DEF l

LEMMA LastExists ==
  ASSUME NEW n \in Nat, NEW S \in SUBSET (1 .. n), S # {}
  PROVE  LastOf(S) \in S /\ \A j \in S : j <= LastOf(S)
<1> DEFINE T == {m \in Nat : \A j \in S : j <= m}
<1>1. n \in T
  OBVIOUS
<1>2. PICK e \in T : \A m \in T : e <= m
  <2> HIDE DEF T
  <2>1. T \in SUBSET Nat
    BY DEF T
  <2> QED
    BY <1>1, <2>1, Least
<1>3. e \in S
  <2> SUFFICES ASSUME e \notin S PROVE FALSE
    OBVIOUS
  <2>1. \A j \in S : j <= e /\ j # e /\ j \in Nat
    BY <1>2
  <2>2. PICK j \in S : TRUE
    OBVIOUS
  <2>3. e - 1 \in Nat
    BY <1>2, <2>1, <2>2
  <2>4. e - 1 \in T
    BY <1>2, <2>1, <2>3
  <2> QED
    BY <1>2, <2>3, <2>4
<1>4. \A j \in S : j <= e
  BY <1>2
<1> QED
  BY <1>3, <1>4 DEF LastOf

LEMMA AlongTheTable ==
  ASSUME NEW n \in Nat, NEW S, 1 \in S, \A j \in 2 .. n : j - 1 \in S => j \in S
  PROVE  1 .. n \subseteq S
<1> SUFFICES ASSUME (1 .. n) \ S # {} PROVE FALSE
  OBVIOUS
<1>1. (1 .. n) \ S \in SUBSET Nat
  OBVIOUS
<1>2. PICK m \in (1 .. n) \ S : \A j \in (1 .. n) \ S : m <= j
  BY <1>1, Least
<1>3. m \in 2 .. n /\ m - 1 \in 1 .. n
  BY <1>2
<1>4. m - 1 \in S
  BY <1>2, <1>3
<1> QED
  BY <1>2, <1>3, <1>4

-----------------------------------------------------------------------------
(* The state trie.                                                         *)

\* Every row but the first and the last passed its lookup, those in the end.
LookupsMade ==
  /\ \A j \in DOMAIN rows :
       j > 1 /\ j < Len(rows) => check_mpt(rows[j], rows[j - 1], rows[j + 1])
  /\ closed /\ Len(rows) > 1 =>
       check_mpt(rows[Len(rows)], rows[Len(rows) - 1], rows[1])

LEMMA LookupsStep ==
  ASSUME TypeOK, LookupsMade, [Next]_vars
  PROVE  LookupsMade'
<1>1. ASSUME NEW row \in RowSet, IsFirstRow(row) PROVE LookupsMade'
  BY <1>1 DEF IsFirstRow, LookupsMade
<1>2. ASSUME NEW row \in RowSet, IsNextRow(row) PROVE LookupsMade'
  <2> DEFINE n == Len(rows)
  <2>1. /\ n \in Nat \ {0} /\ DOMAIN rows = 1 .. n /\ DOMAIN rows' = 1 .. n + 1
        /\ \A i \in 1 .. n : rows'[i] = rows[i]
        /\ rows'[n + 1] = row /\ Len(rows') = n + 1 /\ ~closed'
        /\ n > 1 => check_mpt(rows[n], rows[n - 1], row)
    BY <1>2 DEF TypeOK, IsNextRow, AppendRow, LastRow
  <2> HIDE DEF n
  <2> SUFFICES ASSUME NEW j \in 1 .. n + 1, j > 1, j < n + 1
               PROVE  check_mpt(rows'[j], rows'[j - 1], rows'[j + 1])
    BY <2>1 DEF LookupsMade
  <2>2. j \in 1 .. n /\ j - 1 \in 1 .. n
    BY <2>1
  <2>3. CASE j = n
    BY <2>1, <2>2, <2>3
  <2>4. CASE j < n
    <3>1. j + 1 \in 1 .. n
      BY <2>1, <2>4
    <3>2. check_mpt(rows[j], rows[j - 1], rows[j + 1])
      BY <2>1, <2>2, <2>4 DEF LookupsMade, n
    <3> QED
      BY <2>1, <2>2, <3>1, <3>2
  <2> QED
    BY <2>1, <2>2, <2>3, <2>4
<1>3. CASE CloseTable
  <2>1. rows' = rows /\ check_mpt(rows[Len(rows)], rows[PrevIndex(Len(rows), Len(rows))],
                                  rows[NextIndex(Len(rows), Len(rows))])
    BY <1>3 DEF CloseTable
  <2>2. Len(rows) > 1 => check_mpt(rows[Len(rows)], rows[Len(rows) - 1], rows[1])
    BY <2>1 DEF PrevIndex, NextIndex, TypeOK
  <2> QED
    BY <2>1, <2>2 DEF LookupsMade
<1>4. CASE UNCHANGED vars
  BY <1>4 DEF LookupsMade, vars
<1> QED
  BY <1>1, <1>2, <1>3, <1>4, StepCases

LEMMA LookupsInvariance == Spec => []LookupsMade
<1>1. Init => LookupsMade
  <2>1. DOMAIN <<>> = {}
    OBVIOUS
  <2> QED
    BY <2>1 DEF Init, LookupsMade
<1>2. IInv /\ LookupsMade /\ [Next]_vars => LookupsMade'
  BY LookupsStep DEF IInv
<1> QED
  BY <1>1, <1>2, Invariance, PTL DEF Spec

\* The last row of its key: the one check_mpt looks up.
Final(i) == i = Len(rows) \/ rows[i + 1].key # rows[i].key

\* A row without a trie slot keeps the root.
LEMMA PlainRowKeepsRoot ==
  ASSUME NEW row, NEW row_prev, check_state_row(row, row_prev, 1), row.key.tag \notin InTrie
  PROVE  row.root = row_prev.root
BY DEF check_state_row, check_tag, check_start, check_memory, check_stack, check_call_context,
       check_tx_refund, check_tx_access_list_account, check_tx_access_list_account_storage,
       check_tx_log, check_tx_receipt, InTrie, Start, Memory, Stack, Storage, CallContext,
       Account, TxRefund, TxAccessListAccount, TxAccessListAccountStorage, TxLog, TxReceipt

\* A lookup, whichever proof it asks for, ties the old root to the initial value
\* of its row, the new one to its value, and leaves the other slots alone.
LEMMA LookupSays ==
  ASSUME NEW row \in RowSet, NEW prev \in Tries, mpt_lookup(row, prev), row.key.tag \in InTrie
  PROVE  /\ MptSlot(row.key) \in MptSlots
         /\ prev[MptSlot(row.key)] = row.init
         /\ row.root[MptSlot(row.key)] = row.val
         /\ \A s \in MptSlots \ {MptSlot(row.key)} : row.root[s] = prev[s]
<1>1. row.key \in {q \in Keys : q.tag \in InTrie}
  BY DEF RowSet
<1>2. MptSlot(row.key) \in MptSlots
  BY <1>1 DEF MptSlots
<1>3. CASE NonExistingAccountProof(row, prev)
  BY <1>2, <1>3 DEF NonExistingAccountProof
<1>4. CASE SlotMod(row, prev)
  BY <1>2, <1>4 DEF SlotMod, Tries
<1> QED
  BY <1>3, <1>4 DEF mpt_lookup

\* The final rows up to j that access slot s.
Finals(s, j) == {i \in AccessesOf(s) : i <= j /\ Final(i)}

Held(s, j) ==
  IF Finals(s, j) = {} THEN rows[1].root[s] ELSE rows[LastOf(Finals(s, j))].val

ClosedTable == IInv /\ LookupsMade /\ closed

LEMMA ClosedTyped ==
  ASSUME ClosedTable, ~StartInside
  PROVE  /\ Len(rows) \in Nat \ {0} /\ DOMAIN rows = 1 .. Len(rows)
         /\ \A j \in DOMAIN rows : rows[j] \in RowSet /\ rows[j].root \in Tries
         /\ rows[1].key.tag = Start
<1>1. \A r \in RowSet : r.root \in Tries
  BY DEF RowSet
<1> QED
  BY <1>1 DEF ClosedTable, IInv, TypeOK, Wrapped, StartsFirst

\* From one row to the next the root changes at final rows of the trie only.
LEMMA RootsChange ==
  ASSUME ClosedTable, ~StartInside, NEW j \in 2 .. Len(rows)
  PROVE  IF rows[j].key.tag \in InTrie /\ Final(j)
         THEN mpt_lookup(rows[j], rows[j - 1].root)
         ELSE rows[j].root = rows[j - 1].root
<1>1. /\ Len(rows) \in Nat /\ j \in DOMAIN rows /\ j > 1 /\ Len(rows) > 1
      /\ rows[1].key.tag \notin InTrie
  BY ClosedTyped DEF InTrie, Start, Storage, Account
<1>2. check_state_row(rows[j], rows[j - 1], 1)
  BY <1>1 DEF ClosedTable, IInv, Checked
<1>3. CASE rows[j].key.tag \notin InTrie
  BY <1>2, <1>3, PlainRowKeepsRoot
<1>4. CASE rows[j].key.tag \in InTrie /\ j = Len(rows)
  BY <1>1, <1>4 DEF ClosedTable, LookupsMade, check_mpt, Final
<1>5. CASE rows[j].key.tag \in InTrie /\ j < Len(rows)
  <2>1. check_mpt(rows[j], rows[j - 1], rows[j + 1])
    BY <1>1, <1>5 DEF ClosedTable, LookupsMade
  <2> QED
    BY <1>1, <1>5, <2>1 DEF check_mpt, Final
<1> QED
  BY <1>1, <1>3, <1>4, <1>5

\* The root of a row holds, in each slot, the value of the last final row.
LEMMA RootsFollow ==
  ASSUME ClosedTable, ~StartInside
  PROVE  \A j \in 1 .. Len(rows) : \A s \in MptSlots : rows[j].root[s] = Held(s, j)
<1> DEFINE n == Len(rows)
           G == {j \in 1 .. n : \A s \in MptSlots : rows[j].root[s] = Held(s, j)}
<1>1. /\ n \in Nat \ {0} /\ DOMAIN rows = 1 .. n /\ rows[1].key.tag \notin InTrie
      /\ \A j \in DOMAIN rows : rows[j] \in RowSet /\ rows[j].root \in Tries
  BY ClosedTyped DEF InTrie, Start, Storage, Account
<1>2. 1 \in G
  <2> SUFFICES ASSUME NEW s \in MptSlots
               PROVE  Finals(s, 1) = {}
    BY <1>1 DEF Held
  <2> QED
    BY <1>1 DEF Finals, AccessesOf
<1>3. ASSUME NEW j \in 2 .. n, j - 1 \in G
      PROVE  j \in G
  <2>1. j \in 1 .. n /\ j \in DOMAIN rows /\ j - 1 \in DOMAIN rows /\ j \in Nat
    BY <1>1
  <2> SUFFICES ASSUME NEW s \in MptSlots
               PROVE  rows[j].root[s] = Held(s, j)
    BY <2>1
  <2>2. rows[j - 1].root[s] = Held(s, j - 1)
    BY <1>3
  <2>3. ASSUME j \notin Finals(s, j)
        PROVE  Held(s, j) = Held(s, j - 1)
    <3>1. Finals(s, j) = Finals(s, j - 1)
      BY <1>1, <2>1, <2>3 DEF Finals, AccessesOf
    <3> QED
      BY <3>1 DEF Held
  <2>4. CASE rows[j].key.tag \in InTrie /\ Final(j)
    <3>1. mpt_lookup(rows[j], rows[j - 1].root)
      BY <2>4, RootsChange
    <3>2. CASE s = MptSlot(rows[j].key)
      <4>1. j \in Finals(s, j)
        BY <2>1, <2>4, <3>2 DEF Finals, AccessesOf
      <4>2. LastOf(Finals(s, j)) = j
        <5>1. Finals(s, j) \in SUBSET Nat /\ \A i \in Finals(s, j) : i <= j
          BY <1>1 DEF Finals, AccessesOf
        <5> QED
          BY <4>1, <5>1, LastOfIs
      <4> QED
        BY <1>1, <2>1, <2>4, <3>1, <3>2, <4>1, <4>2, LookupSays DEF Held
    <3>3. CASE s # MptSlot(rows[j].key)
      <4>1. j \notin Finals(s, j)
        BY <3>3 DEF Finals, AccessesOf
      <4> QED
        BY <1>1, <2>1, <2>2, <2>3, <2>4, <3>1, <3>3, <4>1, LookupSays
    <3> QED
      BY <3>2, <3>3
  <2>5. CASE ~(rows[j].key.tag \in InTrie /\ Final(j))
    <3>1. j \notin Finals(s, j)
      BY <2>5 DEF Finals, AccessesOf
    <3>2. rows[j].root = rows[j - 1].root
      BY <2>5, RootsChange
    <3> QED
      BY <2>2, <2>3, <3>1, <3>2
  <2> QED
    BY <2>4, <2>5
<1>4. 1 .. n \subseteq G
  <2> HIDE DEF G, n
  <2> QED
    BY <1>1, <1>2, <1>3, AlongTheTable
<1> QED
  BY <1>4

\* The last access of a slot is the last row of its key.
LEMMA FinalTrieFromRoots ==
  ASSUME ClosedTable, ~StartInside
  PROVE  FinalTrie
<1> DEFINE n == Len(rows)
<1>1. n \in Nat \ {0} /\ DOMAIN rows = 1 .. n
  BY ClosedTyped
<1> SUFFICES ASSUME NEW s \in MptSlots
             PROVE  rows[n].root[s] = IF AccessesOf(s) = {} THEN rows[1].root[s]
                                      ELSE rows[LastOf(AccessesOf(s))].val
  BY DEF FinalTrie, LastRow, LastOf
<1>2. rows[n].root[s] = Held(s, n)
  BY <1>1, RootsFollow
<1>3. AccessesOf(s) \in SUBSET (1 .. n) /\ Finals(s, n) \in SUBSET AccessesOf(s)
  BY <1>1 DEF AccessesOf, Finals
<1>4. CASE AccessesOf(s) = {}
  BY <1>2, <1>3, <1>4 DEF Held
<1>5. CASE AccessesOf(s) # {}
  <2> DEFINE e == LastOf(AccessesOf(s))
  <2>1. e \in AccessesOf(s) /\ \A j \in AccessesOf(s) : j <= e
    BY <1>1, <1>3, <1>5, LastExists
  <2> HIDE DEF e
  <2>2. e \in 1 .. n
    BY <1>3, <2>1
  <2>3. Final(e)
    <3> SUFFICES ASSUME e # n, rows[e + 1].key = rows[e].key PROVE FALSE
      BY DEF Final
    <3>1. e + 1 \in 1 .. n
      <4> HIDE DEF n
      <4> QED
        BY <1>1, <2>2
    <3>2. e + 1 \in AccessesOf(s)
      BY <1>1, <2>1, <3>1 DEF AccessesOf
    <3> QED
      BY <2>1, <2>2, <3>2
  <2>4. e \in Finals(s, n) /\ \A j \in Finals(s, n) : j <= e
    BY <1>3, <2>1, <2>2, <2>3 DEF Finals
  <2>5. LastOf(Finals(s, n)) = e
    <3>1. Finals(s, n) \in SUBSET Nat
      BY <1>3
    <3> QED
      BY <2>4, <3>1, LastOfIs
  <2> QED
    BY <1>2, <1>5, <2>4, <2>5 DEF Held, e
<1> QED
  BY <1>4, <1>5

\* The trie an accepted table ends with holds, in each slot, the value of the
\* last row of that slot, and what it held before in the slots without rows.
THEOREM TrieUpdated ==
  ASSUME ~StartInside
  PROVE  Spec => []FinalTrie
<1>1. IInv /\ LookupsMade => FinalTrie
  BY FinalTrieFromRoots DEF ClosedTable, FinalTrie
<1> QED
  BY <1>1, Invariance, LookupsInvariance, PTL

\* The initial value is carried along a run of rows of one key.
LEMMA SameInitial ==
  ASSUME IInv, NEW i \in DOMAIN rows, NEW e \in DOMAIN rows, i <= e,
         \A j \in i .. e : rows[j].key = rows[i].key
  PROVE  rows[i].init = rows[e].init
<1>1. DOMAIN rows = 1 .. Len(rows) /\ Len(rows) \in Nat
  BY DEF IInv, TypeOK
<1> DEFINE G == {j \in 1 .. e : j >= i => rows[j].init = rows[i].init}
<1>2. 1 \in G
  BY <1>1
<1>3. ASSUME NEW j \in 2 .. e, j - 1 \in G
      PROVE  j \in G
  <2> SUFFICES ASSUME j > i PROVE rows[j].init = rows[i].init
    BY <1>1
  <2>1. j - 1 \in i .. e /\ j \in i .. e /\ j \in DOMAIN rows /\ j > 1
    BY <1>1
  <2>2. rows[j - 1].init = rows[i].init
    BY <1>3, <2>1
  <2>3. check_consistency(rows[j], rows[j - 1])
    BY <2>1 DEF IInv, Checked, check_state_row
  <2>4. rows[j].key = rows[j - 1].key
    BY <2>1
  <2> QED
    BY <2>2, <2>3, <2>4 DEF check_consistency
<1>4. 1 .. e \subseteq G
  <2>1. e \in Nat
    BY <1>1
  <2> HIDE DEF G
  <2> QED
    BY <1>2, <1>3, <2>1, AlongTheTable
<1>5. e \in 1 .. e
  BY <1>1
<1> QED
  BY <1>4, <1>5

\* A row's initial value is the one its slot has before the group of its key, and
\* that is the value of the last access of the slot by another key.
LEMMA CommittedFromRoots ==
  ASSUME ClosedTable, NoCollision, ~StartInside
  PROVE  CommittedValue
<1> DEFINE n == Len(rows)
<1>1. /\ n \in Nat \ {0} /\ DOMAIN rows = 1 .. n /\ rows[1].key.tag = Start
      /\ \A j \in DOMAIN rows : rows[j] \in RowSet /\ rows[j].root \in Tries
  BY ClosedTyped
<1> HIDE DEF n
<1>2. GroupedByKey
  BY GroupedFromOrder DEF ClosedTable
<1> SUFFICES ASSUME NEW i \in 1 .. n, rows[i].key.tag \in InTrie
             PROVE  LET Before == {j \in AccessesOf(MptSlot(rows[i].key)) :
                                     j < i /\ rows[j].key # rows[i].key}
                    IN rows[i].init =
                         IF Before = {} THEN rows[1].root[MptSlot(rows[i].key)]
                         ELSE rows[LastOf(Before)].val
  BY <1>1 DEF CommittedValue, LastOf
<1> DEFINE k == rows[i].key
           s == MptSlot(k)
           Before == {j \in AccessesOf(s) : j < i /\ rows[j].key # k}
           Group == {j \in 1 .. n : rows[j].key = k}
           e == LastOf(Group)
<1>3. k.tag # Start
  BY DEF InTrie, Start, Storage, Account
<1>4. e \in Group /\ \A j \in Group : j <= e
  <2>1. Group \in SUBSET (1 .. n) /\ i \in Group
    OBVIOUS
  <2> HIDE DEF Group
  <2> QED
    BY <1>1, <2>1, LastExists
<1> HIDE DEF e
<1>5. e \in 1 .. n /\ rows[e].key = k /\ i <= e /\ e # 1 /\ e - 1 \in 1 .. n /\ e \in 2 .. n
  <2>1. e \in 1 .. n /\ rows[e].key = k /\ i <= e
    BY <1>4
  <2>2. e # 1
    BY <1>1, <1>3, <2>1
  <2> QED
    BY <1>1, <2>1, <2>2
<1>6. \A j \in i .. e : rows[j].key = k
  BY <1>1, <1>2, <1>3, <1>5 DEF GroupedByKey
<1>7. Final(e)
  <2> SUFFICES ASSUME e # n, rows[e + 1].key = k PROVE FALSE
    BY <1>5 DEF Final, n
  <2>1. e + 1 \in Group
    BY <1>1, <1>5
  <2> QED
    BY <1>4, <1>5, <2>1
<1>8. rows[e - 1].root[s] = rows[e].init /\ s \in MptSlots
  <2>1. mpt_lookup(rows[e], rows[e - 1].root)
    BY <1>5, <1>7, RootsChange DEF n
  <2> QED
    BY <1>1, <1>5, <2>1, LookupSays
<1>9. rows[i].init = rows[e].init
  BY <1>1, <1>5, <1>6, SameInitial DEF ClosedTable, n
<1>10. rows[i].init = Held(s, e - 1)
  BY <1>5, <1>8, <1>9, RootsFollow DEF n
<1>11. Before \in SUBSET (1 .. n) /\ Finals(s, e - 1) \in SUBSET (1 .. n)
  BY <1>1 DEF AccessesOf, Finals
<1>12. Finals(s, e - 1) \subseteq Before
  <2> SUFFICES ASSUME NEW j \in Finals(s, e - 1)
               PROVE  j < i /\ rows[j].key # k
    BY DEF Finals
  <2>1. j \in 1 .. n /\ j <= e - 1 /\ Final(j)
    BY <1>11 DEF Finals
  <2>2. j + 1 \in j .. e /\ j # n
    BY <1>1, <1>5, <2>1
  <2>3. rows[j + 1].key # rows[j].key
    BY <2>1, <2>2 DEF Final, n
  <2>4. rows[j].key # k
    <3> SUFFICES ASSUME rows[j].key = k PROVE FALSE
      OBVIOUS
    <3>1. \A q \in j .. e : rows[q].key = rows[j].key
      BY <1>1, <1>2, <1>3, <1>5, <2>1 DEF GroupedByKey
    <3> QED
      BY <2>2, <2>3, <3>1
  <2>5. j < i
    BY <1>5, <1>6, <2>1, <2>4
  <2> QED
    BY <2>4, <2>5
<1>13. CASE Before = {}
  BY <1>10, <1>12, <1>13 DEF Held
<1>14. CASE Before # {}
  <2> DEFINE m == LastOf(Before)
  <2>1. m \in Before /\ \A j \in Before : j <= m
    <3> HIDE DEF Before
    <3> QED
      BY <1>1, <1>11, <1>14, LastExists
  <2> HIDE DEF m
  <2>2. m \in AccessesOf(s) /\ m < i /\ rows[m].key # k /\ m \in 1 .. n
    BY <1>11, <2>1
  <2>3. Final(m)
    <3> SUFFICES ASSUME m # n, rows[m + 1].key = rows[m].key PROVE FALSE
      BY DEF Final, n
    <3>1. m + 1 \in 1 .. n /\ m + 1 < i
      <4>1. m + 1 # i
        BY <2>2
      <4> QED
        BY <1>1, <2>2, <4>1
    <3>2. m + 1 \in Before
      BY <1>1, <2>2, <3>1 DEF AccessesOf
    <3> QED
      BY <2>1, <2>2, <3>2
  <2>4. m \in Finals(s, e - 1) /\ \A j \in Finals(s, e - 1) : j <= m
    <3>1. m <= e - 1
      BY <1>5, <2>2
    <3> QED
      BY <1>12, <2>1, <2>2, <2>3, <3>1 DEF Finals
  <2>5. LastOf(Finals(s, e - 1)) = m
    <3>1. Finals(s, e - 1) \in SUBSET Nat
      BY <1>11
    <3> QED
      BY <2>4, <3>1, LastOfIs
  <2> QED
    BY <1>10, <1>14, <2>4, <2>5 DEF Held, m
<1> QED
  BY <1>13, <1>14

\* The committed value a row of the trie carries, from which SSTORE takes its gas
\* and refund, is the one the earlier transactions left in its slot.
THEOREM CommittedIsEarlier ==
  ASSUME NoCollision, ~StartInside
  PROVE  Spec => []CommittedValue
<1>1. IInv /\ LookupsMade => CommittedValue
  BY CommittedFromRoots DEF ClosedTable, CommittedValue
<1> QED
  BY <1>1, Invariance, LookupsInvariance, PTL

-----------------------------------------------------------------------------
(* The replay of the table in time order is a run of the memory.           *)

\* Before the table is closed nothing is replayed; then the rows are, in the
\* order of their counters.
InOrder ==
  /\ \A i \in replayed : i \in DOMAIN rows /\ rows[i].key \in Cells
  /\ ~closed => replayed = {} /\ last = 0
  /\ \A i \in replayed, j \in Pending : rows[i].rwc <= rows[j].rwc

\* A cell of the memory holds what its latest replayed access, read or write, says.
Latest(R, c, j) ==
  j \in R /\ rows[j].key = c /\ \A m \in R : rows[m].key = c => rows[m].rwc <= rows[j].rwc

HoldsLatest ==
  \A c \in Cells : \A j \in replayed : Latest(replayed, c, j) => memOf[c] = rows[j].val

RInv == IInv /\ InOrder /\ HoldsLatest

LatestAmong(t, S) == CHOOSE i \in S : \A j \in S : t[j].rwc <= t[i].rwc

LEMMA ReplayIsNext == [ReplayNext]_replayVars => [Next]_vars
BY DEF ReplayNext, replayVars, Next, vars, Replay

LEMMA ReplayIsSpec == ReplaySpec => Spec
BY ReplayIsNext, PTL DEF ReplaySpec, ReplayInit, Spec

\* Two rows of one cell have different counters.
LEMMA CountersDiffer ==
  ASSUME IInv, GroupedByKey, NEW i \in DOMAIN rows, NEW j \in DOMAIN rows,
         rows[i].key = rows[j].key, rows[i].key \in Cells, rows[i].rwc = rows[j].rwc
  PROVE  i = j
<1>1. /\ DOMAIN rows = 1 .. Len(rows) /\ Len(rows) \in Nat
      /\ rows[i].rwc \in Nat /\ rows[j].rwc \in Nat
  BY PackedIsNatural DEF IInv, TypeOK
<1>2. rows[i].key.tag # Start
  BY DEF Cells, ZeroInitialised, Start, Memory, CallContext, TxRefund, TxAccessListAccount,
         TxAccessListAccountStorage
<1>3. ~(i < j) /\ ~(j < i)
  BY <1>1, <1>2 DEF GroupedByKey
<1> QED
  BY <1>1, <1>3

\* Row i is replayed.
Replays(i) ==
  /\ closed /\ i \in Pending
  /\ \A j \in Pending : rows[i].rwc <= rows[j].rwc
  /\ replayed' = replayed \cup {i} /\ last' = i
  /\ rows' = rows /\ closed' = closed

LEMMA ReplayTyped ==
  ASSUME RInv, NEW i, Replays(i)
  PROVE  /\ i \in DOMAIN rows /\ i \notin replayed /\ i # 0
         /\ rows[i].key \in Cells /\ rows[i].val \in Values /\ rows[i].wr \in {0, 1}
         /\ \A j \in DOMAIN rows : rows[j].rwc \in Nat /\ rows[j] \in RowSet
         /\ \A j \in replayed : j \in DOMAIN rows /\ rows[j].rwc <= rows[i].rwc
         /\ \A j \in DOMAIN rows : rows[j].key \in Cells /\ rows[j].rwc < rows[i].rwc => j \in replayed
<1>1. /\ DOMAIN rows = 1 .. Len(rows) /\ Len(rows) \in Nat
      /\ \A j \in DOMAIN rows : rows[j] \in RowSet
  BY DEF RInv, IInv, TypeOK
<1>2. \A j \in DOMAIN rows : rows[j].rwc \in Nat
  BY <1>1, PackedIsNatural
<1>3. i \in DOMAIN rows /\ i \notin replayed /\ rows[i].key \in Cells
  BY DEF Replays, Pending
<1>4. rows[i].val \in Values /\ rows[i].wr \in {0, 1}
  BY <1>1, <1>3 DEF RowSet
<1>5. \A j \in replayed : j \in DOMAIN rows /\ rows[j].rwc <= rows[i].rwc
  BY DEF RInv, InOrder, Replays
<1>6. ASSUME NEW j \in DOMAIN rows, rows[j].key \in Cells, rows[j].rwc < rows[i].rwc,
             j \notin replayed
      PROVE  FALSE
  <2>1. j \in Pending
    BY <1>6 DEF Pending
  <2>2. rows[i].rwc <= rows[j].rwc
    BY <2>1 DEF Replays
  <2> QED
    BY <1>2, <1>3, <1>6, <2>2
<1> QED
  BY <1>1, <1>2, <1>3, <1>4, <1>5, <1>6

\* The memory after the replay of a write holds its word, in its cell alone.
LEMMA ReplayedWrite ==
  ASSUME RInv, GroupedByKey, NEW i, Replays(i), rows[i].wr = 1
  PROVE  memOf' = [memOf EXCEPT ![rows[i].key] = rows[i].val]
<1> DEFINE k == rows[i].key
<1>1. \A c : WritesTo(c)' = IF c = k THEN WritesTo(c) \cup {i} ELSE WritesTo(c)
  BY DEF Replays, WritesTo
<1>2. LatestAmong(rows, WritesTo(k) \cup {i}) = i
  <2> DEFINE S == WritesTo(k) \cup {i}
             l == LatestAmong(rows, S)
  <2>1. i \in DOMAIN rows /\ k \in Cells /\ \A j \in DOMAIN rows : rows[j].rwc \in Nat
    BY ReplayTyped
  <2>2. \A j \in S : j \in DOMAIN rows /\ rows[j].key = k /\ rows[j].rwc <= rows[i].rwc
    BY <2>1, ReplayTyped DEF WritesTo
  <2>3. l \in S /\ \A j \in S : rows[j].rwc <= rows[l].rwc
    <3>1. i \in S /\ \A j \in S : rows[j].rwc <= rows[i].rwc
      BY <2>2
    <3> HIDE DEF S
    <3> QED
      BY <3>1 DEF LatestAmong
  <2> HIDE DEF l
  <2>4. rows[l].rwc = rows[i].rwc /\ l \in DOMAIN rows /\ rows[l].key = k
    BY <2>1, <2>2, <2>3
  <2>5. l = i
    BY <2>1, <2>4, CountersDiffer DEF RInv
  <2> QED
    BY <2>5 DEF l
<1>3. memOf' = [c \in Cells |-> IF WritesTo(c)' = {} THEN 0
                                ELSE rows[LatestAmong(rows, WritesTo(c)')].val]
  BY DEF memOf, LatestAmong, Replays
<1>4. memOf = [c \in Cells |-> IF WritesTo(c) = {} THEN 0
                               ELSE rows[LatestAmong(rows, WritesTo(c))].val]
  BY DEF memOf, LatestAmong
<1>5. k \in Cells
  BY ReplayTyped
<1> HIDE DEF k
<1> SUFFICES ASSUME NEW c \in Cells
             PROVE  memOf'[c] = IF c = k THEN rows[i].val ELSE memOf[c]
  BY <1>3, <1>4, <1>5 DEF k
<1>6. CASE c = k
  BY <1>1, <1>2, <1>3, <1>6
<1>7. CASE c # k
  BY <1>1, <1>3, <1>4, <1>7
<1> QED
  BY <1>6, <1>7

\* A read leaves the memory as it is, and its word is the one its cell holds.
LEMMA ReplayedRead ==
  ASSUME RInv, GroupedByKey, ReadsLatest, NEW i, Replays(i), rows[i].wr = 0
  PROVE  memOf' = memOf /\ memOf[rows[i].key] = rows[i].val
<1> DEFINE k == rows[i].key
           Earlier == {j \in DOMAIN rows : rows[j].key = k /\ rows[j].rwc < rows[i].rwc}
<1>1. \A c : WritesTo(c)' = WritesTo(c)
  BY DEF Replays, WritesTo
<1>2. memOf' = memOf
  <2>1. memOf' = [c \in Cells |-> IF WritesTo(c)' = {} THEN 0
                                  ELSE rows[LatestAmong(rows, WritesTo(c)')].val]
    BY DEF memOf, LatestAmong, Replays
  <2>2. memOf = [c \in Cells |-> IF WritesTo(c) = {} THEN 0
                                 ELSE rows[LatestAmong(rows, WritesTo(c))].val]
    BY DEF memOf, LatestAmong
  <2> QED
    BY <1>1, <2>1, <2>2
<1>3. /\ i \in DOMAIN rows /\ i \notin replayed /\ k \in Cells
      /\ \A j \in DOMAIN rows : rows[j].rwc \in Nat
      /\ \A j \in replayed : j \in DOMAIN rows /\ rows[j].rwc <= rows[i].rwc
      /\ \A j \in Earlier : j \in replayed
  BY ReplayTyped
<1>4. IF Earlier = {} THEN rows[i].val = 0
      ELSE \E j \in Earlier : /\ \A m \in Earlier : rows[m].rwc <= rows[j].rwc
                              /\ rows[i].val = rows[j].val
  BY <1>3 DEF ReadsLatest, SeesLatest, Cells
<1>5. ASSUME NEW j \in replayed, rows[j].key = k
      PROVE  j \in Earlier
  <2>1. rows[j].rwc # rows[i].rwc
    BY <1>3, <1>5, CountersDiffer DEF RInv
  <2> QED
    BY <1>3, <1>5, <2>1
<1> HIDE DEF Earlier
<1>6. CASE Earlier = {}
  <2>1. WritesTo(k) = {}
    BY <1>5, <1>6 DEF WritesTo
  <2> QED
    BY <1>2, <1>3, <1>4, <1>6, <2>1 DEF memOf
<1>7. CASE Earlier # {}
  <2>1. PICK j \in Earlier : /\ \A m \in Earlier : rows[m].rwc <= rows[j].rwc
                             /\ rows[i].val = rows[j].val
    BY <1>4, <1>7
  <2>2. Latest(replayed, k, j)
    BY <1>3, <1>5, <2>1 DEF Latest, Earlier
  <2>3. memOf[k] = rows[j].val
    BY <1>3, <2>1, <2>2 DEF RInv, HoldsLatest
  <2> QED
    BY <1>2, <2>1, <2>3
<1> QED
  BY <1>6, <1>7

\* A replayed row is a read or a write of the memory.
LEMMA ReplayStep ==
  ASSUME RInv, GroupedByKey, ReadsLatest, NEW i, Replays(i)
  PROVE  Memory0!Next /\ InOrder' /\ HoldsLatest'
<1> DEFINE k == rows[i].key
<1>1. /\ i \in DOMAIN rows /\ i \notin replayed /\ i # 0
      /\ k \in Cells /\ rows[i].val \in Values /\ rows[i].wr \in {0, 1}
      /\ \A j \in DOMAIN rows : rows[j].rwc \in Nat
      /\ \A j \in replayed : j \in DOMAIN rows /\ rows[j].rwc <= rows[i].rwc
  BY ReplayTyped
<1>2. opOf' = <<k, rows[i].wr, rows[i].val>>
  BY <1>1 DEF opOf, Replays
<1>3. memOf' = IF rows[i].wr = 1 THEN [memOf EXCEPT ![k] = rows[i].val] ELSE memOf
  BY <1>1, ReplayedWrite, ReplayedRead
<1>4. Memory0!Next
  <2>1. CASE rows[i].wr = 1
    <3>1. Memory0!Write(k, rows[i].val)
      BY <1>2, <1>3, <2>1 DEF Memory0!Write
    <3> QED
      BY <1>1, <3>1 DEF Memory0!Next
  <2>2. CASE rows[i].wr = 0
    <3>1. Memory0!Read(k)
      BY <1>2, <1>3, <2>2, ReplayedRead DEF Memory0!Read
    <3> QED
      BY <1>1, <3>1 DEF Memory0!Next
  <2> QED
    BY <1>1, <2>1, <2>2
<1>5. InOrder'
  <2>1. Pending' = Pending \ {i}
    BY DEF Pending, Replays
  <2>2. \A j \in replayed' : j \in DOMAIN rows /\ rows[j].key \in Cells
    BY <1>1 DEF Replays, RInv, InOrder
  <2>3. \A j \in replayed', m \in Pending \ {i} : rows[j].rwc <= rows[m].rwc
    BY DEF Replays, RInv, InOrder
  <2> QED
    BY <2>1, <2>2, <2>3 DEF InOrder, Replays
<1>6. HoldsLatest'
  <2> SUFFICES ASSUME NEW c \in Cells, NEW j \in replayed \cup {i},
                      Latest(replayed \cup {i}, c, j)
               PROVE  memOf'[c] = rows[j].val
    BY DEF HoldsLatest, Latest, Replays
  <2>0. memOf \in [Cells -> {memOf[d] : d \in Cells}]
    BY DEF memOf
  <2>1. CASE c = k
    <3>1. rows[i].rwc <= rows[j].rwc /\ rows[j].key = k /\ j \in DOMAIN rows
      BY <1>1, <2>1 DEF Latest
    <3>2. rows[j].rwc = rows[i].rwc
      BY <1>1, <3>1
    <3>3. j = i
      BY <1>1, <3>1, <3>2, CountersDiffer DEF RInv
    <3>4. memOf'[k] = rows[i].val
      BY <1>1, <1>3, <2>0, ReplayedRead
    <3> QED
      BY <2>1, <3>3, <3>4
  <2>2. CASE c # k
    <3>1. j \in replayed /\ Latest(replayed, c, j)
      BY <2>2 DEF Latest
    <3>2. memOf[c] = rows[j].val
      BY <3>1 DEF RInv, HoldsLatest
    <3> QED
      BY <1>1, <1>3, <2>0, <2>2, <3>2
  <2> QED
    BY <2>1, <2>2
<1> QED
  BY <1>4, <1>5, <1>6

\* While the table is laid down nothing is replayed and the memory is empty.
LEMMA WaitingStep ==
  ASSUME RInv, Next \/ UNCHANGED vars, Waiting
  PROVE  memOf' = memOf /\ opOf' = opOf /\ InOrder' /\ HoldsLatest'
<1>1. CASE UNCHANGED vars
  <2>1. rows' = rows /\ closed' = closed /\ replayed' = replayed /\ last' = last
    BY <1>1 DEF Waiting, vars
  <2>2. memOf' = memOf /\ opOf' = opOf /\ Pending' = Pending
    BY <2>1 DEF memOf, opOf, WritesTo, Pending
  <2> QED
    BY <2>1, <2>2 DEF InOrder, HoldsLatest, Latest, RInv
<1>2. CASE Next
  <2>1. ~closed
    BY <1>2, StepCases DEF RInv, IInv, TypeOK, Wrapped, IsFirstRow, IsNextRow, CloseTable
  <2>2. replayed = {} /\ last = 0 /\ replayed' = {} /\ last' = 0
    BY <2>1 DEF RInv, InOrder, Waiting
  <2>3. \A c : WritesTo(c) = {} /\ WritesTo(c)' = {}
    BY <2>2 DEF WritesTo
  <2>4. memOf = [c \in Cells |-> 0] /\ memOf' = [c \in Cells |-> 0]
    BY <2>3 DEF memOf
  <2>5. opOf = <<>> /\ opOf' = <<>>
    BY <2>2 DEF opOf
  <2> QED
    BY <2>2, <2>4, <2>5 DEF InOrder, HoldsLatest
<1> QED
  BY <1>1, <1>2

\* The rows of the cells that start at 0, taken in the order in which the EVM
\* circuit looks them up, are the operations of one memory.
THEOREM ReplayIsMemory ==
  ASSUME NoCollision, ~StartInside
  PROVE  ReplaySpec => ImplementsMemory
<1>1. ReplayInit => InOrder /\ HoldsLatest /\ Memory0!Init
  <2> SUFFICES ASSUME ReplayInit
               PROVE  InOrder /\ HoldsLatest /\ Memory0!Init
    OBVIOUS
  <2>1. rows = <<>> /\ closed = FALSE /\ replayed = {} /\ last = 0 /\ DOMAIN rows = {}
    BY DEF ReplayInit, Init
  <2>2. \A c : WritesTo(c) = {}
    BY <2>1 DEF WritesTo
  <2>3. memOf = [c \in Cells |-> 0] /\ opOf = <<>>
    BY <2>1, <2>2 DEF memOf, opOf
  <2> QED
    BY <2>1, <2>3 DEF InOrder, HoldsLatest, Memory0!Init
<1>2. IInv /\ InOrder /\ HoldsLatest /\ [ReplayNext]_replayVars
        => InOrder' /\ HoldsLatest' /\ [Memory0!Next]_<<memOf, opOf>>
  <2> SUFFICES ASSUME IInv, InOrder, HoldsLatest, [ReplayNext]_replayVars
               PROVE  InOrder' /\ HoldsLatest' /\ [Memory0!Next]_<<memOf, opOf>>
    OBVIOUS
  <2>1. RInv /\ GroupedByKey /\ ReadsLatest
    BY GroupedFromOrder, ReadsLatestFromGroups DEF RInv
  <2>2. CASE Replay
    <3>1. PICK i : Replays(i)
      BY <2>2 DEF Replay, Replays
    <3> QED
      BY <2>1, <3>1, ReplayStep
  <2>3. CASE (Next \/ UNCHANGED vars) /\ Waiting
    BY <2>1, <2>3, WaitingStep
  <2> QED
    BY <2>2, <2>3 DEF ReplayNext, Next, replayVars, vars, Waiting
<1>3. Spec => []IInv
  BY Invariance
<1>4. ReplaySpec => Spec
  BY ReplayIsSpec
<1> QED
  BY <1>1, <1>2, <1>3, <1>4, PTL DEF ReplaySpec, ImplementsMemory, Memory0!Spec
=============================================================================
