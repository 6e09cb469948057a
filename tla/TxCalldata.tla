------------------------------ MODULE TxCalldata ------------------------------
(***************************************************************************)
(* What the call data section of the transaction table promises the EVM    *)
(* circuit, which looks up bytes by transaction and index                  *)
(* (src/zkevm_specs/evm_circuit/table.py, TxTableRow): the public bytes    *)
(* are dealt out in order, each to one transaction, at the next index of   *)
(* it, and each is charged to the transaction it went to.  It is accepted  *)
(* only if a transaction with call data is said to pay what it was         *)
(* charged.                                                                *)
(***************************************************************************)
EXTENDS Integers

CONSTANTS
  Ids,    \* the identifiers bytes may be dealt to
  Txs,    \* those of the transactions of the block
  Bytes

VARIABLES
  claims,    \* [Txs -> [length : Nat, cost : Nat]], the public fields
  table,     \* the bytes dealt out: triples of transaction, index and byte
  count,     \* [Ids -> Nat], the bytes of each transaction
  charged,   \* [Ids -> Nat], their cost
  accepted

vars == <<claims, table, count, charged, accepted>>

\* Intrinsic cost of a byte of call data.
Cost(byte) == IF byte = 0 THEN 4 ELSE 16

Init ==
  /\ claims \in [Txs -> [length : Nat, cost : Nat]]
  /\ table = {}
  /\ count = [t \in Ids |-> 0] /\ charged = [t \in Ids |-> 0]
  /\ accepted = FALSE

Deal(t, byte) ==
  /\ ~accepted
  /\ \A u \in Ids : u > t => count[u] = 0
  /\ table' = table \cup {<<t, count[t], byte>>}
  /\ count' = [count EXCEPT ![t] = @ + 1]
  /\ charged' = [charged EXCEPT ![t] = @ + Cost(byte)]
  /\ UNCHANGED <<claims, accepted>>

Accept ==
  /\ \A t \in Txs : claims[t].cost = IF claims[t].length = 0 THEN 0 ELSE charged[t]
  /\ accepted' = TRUE
  /\ UNCHANGED <<claims, table, count, charged>>

Next == Accept \/ \E t \in Ids, byte \in Bytes : Deal(t, byte)

Spec == Init /\ [][Next]_vars
=============================================================================
