--------------------------- MODULE MCStateCircuit ---------------------------
(***************************************************************************)
(* Small instances of the state circuit and its replay for TLC: the keys   *)
(* and lengths of the tables of each run.                                  *)
(***************************************************************************)
EXTENDS StateReplay

Key(tag, id, addr, ft, sk) == [tag |-> tag, id |-> id, addr |-> addr, ft |-> ft, sk |-> sk]

StartKey == Key(Start, 0, 0, 0, 0)

\* Tables that start from the empty trie, or from any.
Shape(keys, counters, length) ==
  [keys |-> {StartKey} \cup keys, counters |-> 1 .. counters, length |-> length,
   tries |-> FALSE]
TrieShape(keys, counters, length) == [Shape(keys, counters, length) EXCEPT !.tries = TRUE]

KeysOf(shapes) == UNION {shape.keys : shape \in shapes}

\* A memory byte and a slot of an access list whose storage key (3) is wider than
\* the shift but collides with nothing.
MCMemoryShape ==
  Shape({Key(Memory, 1, 0, 0, 0), Key(TxAccessListAccountStorage, 1, 1, 0, 3)}, 3, 5)

\* The same byte in two calls, the other cells that start at 0, and a log.
MCCellsShape ==
  Shape({Key(Memory, 1, 0, 0, 0), Key(Memory, 2, 0, 0, 0), Key(CallContext, 1, 0, 1, 0),
         Key(TxRefund, 1, 0, 0, 0), Key(TxAccessListAccount, 1, 1, 0, 0),
         Key(TxLog, 1, 0, Topic, 1)}, 2, 4)

\* Three positions of one stack, one of another.
MCStackShape ==
  Shape({Key(Stack, 1, 0, 0, 0), Key(Stack, 1, 1, 0, 0), Key(Stack, 1, 2, 0, 0),
         Key(Stack, 2, 1, 0, 0)}, 2, 5)

\* Receipts of three transactions.
MCReceiptShape ==
  Shape({Key(TxReceipt, 1, 0, PostStateOrStatus, 0)}
          \cup {Key(TxReceipt, t, 0, CumulativeGasUsed, 0) : t \in 1 .. 3}, 2, 4)

\* One storage slot in two transactions, and the account's existence.
MCTrieShape ==
  TrieShape({Key(Storage, 1, 1, 0, 0), Key(Storage, 2, 1, 0, 0), Key(Account, 0, 1, CodeHash, 0)},
            2, 5)

\* Two keys packed into the same number: address 1 with storage key 0, and
\* address 0 with the storage key that the shift moves onto it.
MCCollidingShape ==
  Shape({Key(TxAccessListAccountStorage, 1, 1, 0, 0),
         Key(TxAccessListAccountStorage, 1, 0, 0, 16)}, 3, 4)

MCTables == {MCMemoryShape, MCCellsShape, MCStackShape, MCReceiptShape, MCTrieShape}
MCTablesKeys == KeysOf(MCTables)
MCColliding == {MCCollidingShape}
MCCollidingKeys == KeysOf(MCColliding)
=============================================================================
