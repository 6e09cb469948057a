---------------------------- MODULE StateCircuit ----------------------------
(***************************************************************************)
(* The state circuit (src/zkevm_specs/state_circuit.py).  A table of       *)
(* read/write records is sorted by key and then by read/write counter, and *)
(* check_state_row is evaluated on every row with its two neighbours, the  *)
(* table being read as a cycle.                                            *)
(*                                                                         *)
(* A behaviour lays the table down one row at a time: an Append action adds*)
(* any row whose checks against the row before it hold, and CloseTable     *)
(* adds the checks that need the row after it, or that wrap from the first *)
(* row to the last.  The closed states are then exactly the tables the     *)
(* circuit accepts, and the properties say what such a table means.        *)
(***************************************************************************)
EXTENDS Integers, Sequences, FiniteSets

CONSTANTS
  Keys,          \* the keys a row may carry, records [tag, id, addr, ft, sk]
  Values,        \* the words a row may carry
  RwCounters,    \* the read/write counters a row may carry
  IdBase,        \* 2^ID_BITS      = 2^28
  AddrBase,      \* 2^ADDRESS_BITS = 2^160
  FieldBase,     \* the shift of the field tag, 2^16
  SkeyShift,     \* the shift of the storage key, 2^32 in the code
  RwcBase,       \* 2^RW_COUNTER_BITS = 2^32
  LoBase,        \* 2^128: the low limb of a word
  ByteMax,       \* 2^8 - 1
  MaxAddress,    \* MAX_MEMORY_ADDRESS
  MaxPtr,        \* MAX_STACK_PTR
  MaxTxId,       \* 2^11, the last transaction of a receipt
  StartInside,   \* may the prover put Start rows after other rows?
  Shapes         \* bound: what tables are made of, records [keys, counters, length,
                 \* tries], tries: do they start from any trie or the empty one?

VARIABLES
  rows,          \* the rows laid down so far
  closed         \* the table is complete and the wrap-around checks hold

vars == <<rows, closed>>

-----------------------------------------------------------------------------
(* Tags and field tags.                                                    *)

Start == 1
Memory == 2
Stack == 3
Storage == 4
CallContext == 5
Account == 6
TxRefund == 7
TxAccessListAccount == 8
TxAccessListAccountStorage == 9
TxLog == 10
TxReceipt == 11
MAX_TAG == 12
MAX_FIELD_TAG == 24

\* AccountFieldTag
Nonce == 1
Balance == 2
CodeHash == 3
NonExisting == 4

\* TxLogFieldTag and TxReceiptFieldTag
Topic == 2
PostStateOrStatus == 1
CumulativeGasUsed == 2

\* The tags whose cells hold 0 before their first access.
ZeroInitialised ==
  {Memory, CallContext, TxRefund, TxAccessListAccount, TxAccessListAccountStorage}

\* The tags whose cells live in the state trie.
InTrie == {Storage, Account}

-----------------------------------------------------------------------------
(* The order.  Keys and counter are packed into one number, cut into 31    *)
(* limbs and compared; the packing, not the tuple, is what is sorted.  The *)
(* shift of the storage key is SkeyShift whatever the key's own width.     *)

KeyCode(k) ==
  (((k.tag * IdBase + k.id) * AddrBase + k.addr) * FieldBase + k.ft) * SkeyShift + k.sk

keys_rwc_to_limbs(row) == KeyCode(row.key) * RwcBase + row.rwc

ConstantsAssumption ==
  /\ Keys \subseteq [tag : Nat, id : Nat, addr : Nat, ft : Nat, sk : Nat]
  /\ Values \subseteq Nat /\ 0 \in Values
  /\ IdBase \in Nat \ {0} /\ AddrBase \in Nat \ {0} /\ FieldBase \in Nat \ {0}
  /\ SkeyShift \in Nat \ {0} /\ RwcBase \in Nat \ {0} /\ LoBase \in Nat \ {0}
  /\ RwCounters \subseteq 0 .. RwcBase - 1
  /\ StartInside \in BOOLEAN
ASSUME ConstantsAssumption

Hi(v) == v \div LoBase

-----------------------------------------------------------------------------
(* The state trie behind the MPT table (tables.md): a root is the function *)
(* from trie slots to values it commits to, 0 standing for "absent".  The  *)
(* slot of a storage row is the same in every transaction: the id of the   *)
(* key, the transaction, is not part of it.                                *)

MptSlot(k) == <<k.addr, k.ft, k.sk>>
ExistenceSlot(k) == <<k.addr, CodeHash, 0>>
MptSlots == UNION {{MptSlot(k), ExistenceSlot(k)} : k \in {q \in Keys : q.tag \in InTrie}}
Tries == [MptSlots -> Values]

\* The rows of the MPT table that prove that an account is absent, hence its
\* storage; they carry the storage key 0.
NonExistingAccountProof(row, root_prev) ==
  /\ row.key.sk = 0
  /\ row.val = 0 /\ row.init = 0
  /\ root_prev[ExistenceSlot(row.key)] = 0
  /\ root_prev[MptSlot(row.key)] = 0
  /\ row.root = root_prev

\* The rows that prove an update of one slot (NonceMod ... StorageMod).
SlotMod(row, root_prev) ==
  /\ root_prev[MptSlot(row.key)] = row.init
  /\ row.root = [root_prev EXCEPT ![MptSlot(row.key)] = row.val]

is_non_exist(row) ==
  /\ row.val = 0 /\ row.init = 0
  /\ row.key.tag = Account => row.key.ft = CodeHash

\* The proof type asked for follows from the row: absence for 0 -> 0 and for
\* the field NonExisting, an update of the slot otherwise.
mpt_lookup(row, root_prev) ==
  IF is_non_exist(row) \/ (row.key.tag = Account /\ row.key.ft = NonExisting)
  THEN NonExistingAccountProof(row, root_prev)
  ELSE SlotMod(row, root_prev)

\* Faulty: the lookup is made for the first row of a key, not for the last.
check_mpt_first_access(row, row_prev, row_next) ==
  row.key.tag \in InTrie =>
    IF row.key # row_prev.key THEN mpt_lookup(row, row_prev.root)
                              ELSE row.root = row_prev.root

\* The last row of a key is looked up in the MPT table, the others keep the root.
check_mpt(row, row_prev, row_next) ==
  row.key.tag \in InTrie =>
    IF row.key # row_next.key THEN mpt_lookup(row, row_prev.root)
                              ELSE row.root = row_prev.root

-----------------------------------------------------------------------------
(* check_state_row: the constraints on every row.                          *)

check_ranges(row) ==
  /\ row.key.tag \in 1 .. MAX_TAG
  /\ row.key.id \in 0 .. IdBase - 1
  /\ row.key.addr \in 0 .. AddrBase - 1
  /\ row.key.ft \in 0 .. MAX_FIELD_TAG

\* Faulty: the counter is left out of the packing.
check_order_without_counter(row, row_prev) ==
  row.key.tag # Start => KeyCode(row_prev.key) <= KeyCode(row.key)

check_order(row, row_prev) ==
  row.key.tag # Start => keys_rwc_to_limbs(row_prev) < keys_rwc_to_limbs(row)

\* Faulty: the initial value is not carried from row to row.
check_consistency_value_only(row, row_prev) ==
  row.key = row_prev.key /\ row.wr = 0 => row.val = row_prev.val

\* Faulty: reads and writes are swapped.
check_consistency_of_writes(row, row_prev) ==
  row.key = row_prev.key =>
    /\ row.wr = 1 => row.val = row_prev.val
    /\ row.init = row_prev.init

check_consistency(row, row_prev) ==
  row.key = row_prev.key =>
    /\ row.wr = 0 => row.val = row_prev.val
    /\ row.init = row_prev.init

check_counter(row) == row.key.tag # Start => row.rwc # 0

\* Faulty: a new key of the same call is not seen as a first access.
FirstAccess_by_call(row, row_prev) == row.key.id # row_prev.key.id

FirstAccess(row, row_prev) == row.key # row_prev.key

FirstReadIsZero(row, row_prev) ==
  FirstAccess(row, row_prev) /\ row.wr = 0 => row.val = 0

-----------------------------------------------------------------------------
(* The constraints of each tag; sel is lexicographic_ordering_selector.    *)

start_is_empty(row) ==
  /\ row.key.ft = 0 /\ row.key.addr = 0 /\ row.key.id = 0 /\ row.key.sk = 0
  /\ row.val = 0 /\ row.init = 0

check_start(row, row_prev, sel) ==
  /\ start_is_empty(row)
  /\ sel # 0 => /\ row.rwc = row_prev.rwc + 1
                /\ row.root = row_prev.root

check_memory(row, row_prev) ==
  /\ row.key.ft = 0 /\ row.key.sk = 0
  /\ Hi(row.val) = 0
  /\ FirstReadIsZero(row, row_prev)
  /\ row.key.addr <= MaxAddress
  /\ row.val <= ByteMax
  /\ row.init = 0
  /\ row.root = row_prev.root

\* Faulty: the pointer may skip a position.
stack_ptr_diff_loose(row, row_prev) ==
  row.key.tag = row_prev.key.tag /\ row.key.id = row_prev.key.id =>
    row.key.addr - row_prev.key.addr \in 0 .. 2

stack_ptr_diff(row, row_prev) ==
  row.key.tag = row_prev.key.tag /\ row.key.id = row_prev.key.id =>
    row.key.addr - row_prev.key.addr \in 0 .. 1

check_stack(row, row_prev) ==
  /\ row.key.ft = 0 /\ row.key.sk = 0
  /\ FirstAccess(row, row_prev) => row.wr = 1
  /\ row.key.addr <= MaxPtr
  /\ stack_ptr_diff(row, row_prev)
  /\ row.init = 0
  /\ row.root = row_prev.root

check_storage(row) == row.key.ft = 0

check_call_context(row, row_prev) ==
  /\ row.key.addr = 0 /\ row.key.sk = 0
  /\ FirstReadIsZero(row, row_prev)
  /\ row.init = 0
  /\ row.root = row_prev.root

check_account(row) ==
  /\ row.key.ft \in Nonce .. NonExisting
  /\ row.key.id = 0 /\ row.key.sk = 0
  /\ row.key.ft = Nonce => Hi(row.val) = 0 /\ Hi(row.init) = 0

check_tx_refund(row, row_prev) ==
  /\ row.key.addr = 0 /\ row.key.ft = 0 /\ row.key.sk = 0
  /\ row.root = row_prev.root
  /\ row.init = 0
  /\ FirstReadIsZero(row, row_prev)

check_tx_access_list_account(row, row_prev) ==
  /\ row.key.ft = 0 /\ row.key.sk = 0
  /\ Hi(row.val) = 0 /\ Hi(row.init) = 0
  /\ row.root = row_prev.root
  /\ FirstReadIsZero(row, row_prev)

check_tx_access_list_account_storage(row, row_prev) ==
  /\ row.key.ft = 0
  /\ Hi(row.val) = 0 /\ Hi(row.init) = 0
  /\ row.root = row_prev.root
  /\ FirstReadIsZero(row, row_prev)

check_tx_log(row, row_prev) ==
  /\ row.key.ft # Topic => Hi(row.val) = 0 /\ Hi(row.init) = 0
  /\ row.wr = 1
  /\ row.root = row_prev.root

\* Faulty: any later transaction may follow.
tx_id_step_increasing(row, row_prev) ==
  /\ row.key.tag = row_prev.key.tag => row.key.id >= row_prev.key.id
  /\ row.key.tag # row_prev.key.tag => row.key.id = 1

tx_id_step(row, row_prev) ==
  /\ row.key.id # row_prev.key.id /\ row.key.tag = row_prev.key.tag =>
       row.key.id = row_prev.key.id + 1
  /\ row.key.tag # row_prev.key.tag => row.key.id = 1

check_tx_receipt(row, row_prev) ==
  /\ row.key.addr = 0 /\ row.key.sk = 0
  /\ Hi(row.val) = 0 /\ Hi(row.init) = 0
  /\ row.key.ft = PostStateOrStatus => row.val \in {0, 1}
  /\ tx_id_step(row, row_prev)
  /\ /\ row.key.id # row_prev.key.id /\ row.key.tag = row_prev.key.tag
     /\ row.key.ft = CumulativeGasUsed
     => row.val > row_prev.val
  /\ row.key.id \in 1 .. MaxTxId
  /\ row.root = row_prev.root

check_tag(row, row_prev, sel) ==
  \/ row.key.tag = Start /\ check_start(row, row_prev, sel)
  \/ row.key.tag = Memory /\ check_memory(row, row_prev)
  \/ row.key.tag = Stack /\ check_stack(row, row_prev)
  \/ row.key.tag = Storage /\ check_storage(row)
  \/ row.key.tag = CallContext /\ check_call_context(row, row_prev)
  \/ row.key.tag = Account /\ check_account(row)
  \/ row.key.tag = TxRefund /\ check_tx_refund(row, row_prev)
  \/ row.key.tag = TxAccessListAccount /\ check_tx_access_list_account(row, row_prev)
  \/ row.key.tag = TxAccessListAccountStorage
       /\ check_tx_access_list_account_storage(row, row_prev)
  \/ row.key.tag = TxLog /\ check_tx_log(row, row_prev)
  \/ row.key.tag = TxReceipt /\ check_tx_receipt(row, row_prev)

\* Everything check_state_row says of a row and the row before it.
check_state_row(row, row_prev, sel) ==
  /\ check_ranges(row)
  /\ check_order(row, row_prev)
  /\ check_consistency(row, row_prev)
  /\ check_counter(row)
  /\ check_tag(row, row_prev, sel)

-----------------------------------------------------------------------------
(* Laying the table down.                                                  *)

RowSet == [key : Keys, rwc : RwCounters, wr : {0, 1}, val : Values, init : Values, root : Tries]

\* Index arithmetic on the cycle of n rows.
PrevIndex(i, n) == IF i = 1 THEN n ELSE i - 1
NextIndex(i, n) == IF i = n THEN 1 ELSE i + 1

LastRow == rows[Len(rows)]

Init == rows = <<>> /\ closed = FALSE

\* The first row; its predecessor is the last row, so CloseTable checks it.
FirstRow ==
  /\ rows = <<>>
  /\ \E row \in RowSet :
       /\ row.key.tag = Start => start_is_empty(row)
       /\ ~StartInside => row.key.tag = Start
       /\ \E shape \in Shapes :
            /\ row.key \in shape.keys /\ row.rwc \in shape.counters
            /\ shape.tries \/ row.root = [s \in MptSlots |-> 0]
       /\ rows' = <<row>>
  /\ UNCHANGED closed

\* A further row.  It is also the next row of the row before it, which owes
\* check_mpt (the first row owes it to CloseTable).
AppendRow(row) ==
  /\ check_state_row(row, LastRow, 1)
  /\ Len(rows) > 1 => check_mpt(LastRow, rows[Len(rows) - 1], row)
  /\ rows' = Append(rows, row)
  /\ UNCHANGED closed

\* Faulty: the counter is off by one.
RowsWith_next_counter(tag, shape) ==
  {[key |-> k, rwc |-> c + 1, wr |-> w, val |-> v, init |-> i, root |-> r] :
     k \in {q \in Keys \cap shape.keys : q.tag = tag},
     c \in RwCounters \cap shape.counters, w \in {0, 1}, v \in Values, i \in Values, r \in {LastRow.root}}

\* The rows with a tag, and with the root left alone or, in the trie, with the
\* root that follows if the row is the last of its key: no other root passes.
RowsWith(tag, shape) ==
  {[key |-> k, rwc |-> c, wr |-> w, val |-> v, init |-> i, root |-> r] :
     k \in {q \in Keys \cap shape.keys : q.tag = tag},
     c \in RwCounters \cap shape.counters, w \in {0, 1}, v \in Values, i \in Values, r \in {LastRow.root}}

WithNewRoot(row) ==
  {row, [row EXCEPT !.root = [row.root EXCEPT ![MptSlot(row.key)] = row.val]]}

Open == ~closed /\ rows # <<>>

\* The shapes of which the table may have one more row.
OpenShapes ==
  {shape \in Shapes : Len(rows) < shape.length
                        /\ \A i \in DOMAIN rows : rows[i].key \in shape.keys}

AppendPlain(tag) ==
  /\ Open
  /\ \E shape \in OpenShapes : \E row \in RowsWith(tag, shape) : AppendRow(row)

AppendInTrie(tag) ==
  /\ Open
  /\ \E shape \in OpenShapes : \E row \in RowsWith(tag, shape) :
       \E r \in WithNewRoot(row) : AppendRow(r)

AppendStart ==
  /\ AppendPlain(Start)
  /\ ~StartInside => LastRow.key.tag = Start

AppendMemory == AppendPlain(Memory)
AppendStack == AppendPlain(Stack)
AppendStorage == AppendInTrie(Storage)
AppendCallContext == AppendPlain(CallContext)
AppendAccount == AppendInTrie(Account)
AppendTxRefund == AppendPlain(TxRefund)
AppendTxAccessListAccount == AppendPlain(TxAccessListAccount)
AppendTxAccessListAccountStorage == AppendPlain(TxAccessListAccountStorage)
AppendTxLog == AppendPlain(TxLog)
AppendTxReceipt == AppendPlain(TxReceipt)

\* The wrap: the first row is checked against the last, and the last row and
\* the first get the row that follows them.
CloseTable ==
  LET n == Len(rows)
  IN /\ ~closed /\ n > 0
     /\ check_state_row(rows[1], rows[n], 0)
     /\ \A i \in {1, n} : check_mpt(rows[i], rows[PrevIndex(i, n)], rows[NextIndex(i, n)])
     /\ closed' = TRUE
     /\ UNCHANGED rows

Next ==
  \/ FirstRow
  \/ AppendStart
  \/ AppendMemory
  \/ AppendStack
  \/ AppendStorage
  \/ AppendCallContext
  \/ AppendAccount
  \/ AppendTxRefund
  \/ AppendTxAccessListAccount
  \/ AppendTxAccessListAccountStorage
  \/ AppendTxLog
  \/ AppendTxReceipt
  \/ CloseTable

Spec == Init /\ [][Next]_vars

-----------------------------------------------------------------------------
(* Properties.                                                             *)

\* Type invariant.
TypeOK == rows \in Seq(RowSet) /\ closed \in BOOLEAN

\* No two keys in use are packed into the same number (state_circuit.py:496
\* shifts by 32 bits for a storage key of 256, so this is an assumption).
NoCollision == \A k1, k2 \in Keys : KeyCode(k1) = KeyCode(k2) => k1 = k2

\* The rows of one key are adjacent and sorted by counter, although each row
\* is only compared with its neighbour and only through the packed number
\* (check 0.4 of check_state_row).
GroupedByKey ==
  \A i, m \in DOMAIN rows :
    i < m /\ rows[i].key = rows[m].key /\ rows[i].key.tag # Start =>
      /\ rows[i].rwc < rows[m].rwc
      /\ \A j \in i .. m : rows[j].key = rows[i].key

\* i reads what the latest access before it, in counter order and not in table
\* order, left in its cell.
SeesLatest(i) ==
  LET Earlier == {j \in DOMAIN rows : rows[j].key = rows[i].key /\ rows[j].rwc < rows[i].rwc}
  IN IF Earlier = {} THEN rows[i].val = 0
     ELSE \E j \in Earlier : /\ \A m \in Earlier : rows[m].rwc <= rows[j].rwc
                             /\ rows[i].val = rows[j].val

\* Read consistency: in a cell that starts at 0, and in a stack position, every
\* read returns the value of the latest earlier access (checks 0.5, 2.1, 3.1,
\* 5.2, 7.3, 8.2 and 9.2 together with the order).
ReadsLatest ==
  \A i \in DOMAIN rows :
    rows[i].wr = 0 /\ rows[i].key.tag \in ZeroInitialised \cup {Stack} => SeesLatest(i)

\* A stack position is written before it is read, and the positions a call
\* touches have no gap (checks 3.1 and 3.3).
StackDiscipline ==
  \A i, m \in DOMAIN rows :
    rows[i].key.tag = Stack /\ rows[m].key.tag = Stack /\ rows[i].key.id = rows[m].key.id =>
      \A p \in rows[i].key.addr .. rows[m].key.addr :
        \E w \in DOMAIN rows :
          /\ rows[w].key = [rows[i].key EXCEPT !.addr = p]
          /\ rows[w].wr = 1
          /\ \A r \in DOMAIN rows : rows[r].key = rows[w].key => rows[w].rwc <= rows[r].rwc

\* The rows that access a slot of the trie.
AccessesOf(slot) ==
  {i \in DOMAIN rows : rows[i].key.tag \in InTrie /\ MptSlot(rows[i].key) = slot}

\* The trie after an accepted table holds, in each slot, the value of the last
\* row of that slot and, in a slot without rows, what it held before (the chain
\* of MPT lookups of check_storage and check_account over all transactions).
FinalTrie ==
  closed =>
    \A s \in MptSlots :
      LET A == AccessesOf(s)
      IN LastRow.root[s] = IF A = {} THEN rows[1].root[s]
                           ELSE rows[CHOOSE i \in A : \A j \in A : j <= i].val

\* The committed value a row carries is the value its slot was left with by the
\* rows of other keys of that slot (the earlier transactions), or else the one
\* in the trie before the table (check_storage: initial_value is value_prev of
\* the lookup; SSTORE takes its gas and refund from it).
CommittedValue ==
  closed =>
    \A i \in DOMAIN rows : rows[i].key.tag \in InTrie =>
      LET Before == {j \in AccessesOf(MptSlot(rows[i].key)) : j < i /\ rows[j].key # rows[i].key}
      IN rows[i].init =
           IF Before = {} THEN rows[1].root[MptSlot(rows[i].key)]
           ELSE rows[CHOOSE j \in Before : \A m \in Before : m <= j].val

\* Receipts are numbered 1, 2, ... without a gap (check_tx_receipt 11.2, 11.3).
ReceiptsNumbered ==
  \A i \in DOMAIN rows : rows[i].key.tag = TxReceipt =>
    \A t \in 1 .. rows[i].key.id :
      \E j \in 1 .. i : rows[j].key.tag = TxReceipt /\ rows[j].key.id = t

\* An accepted table has a Start row: without one, the order around the cycle
\* would have to be strictly increasing for ever.
ClosedHasStart == closed => \E i \in DOMAIN rows : rows[i].key.tag = Start

=============================================================================
