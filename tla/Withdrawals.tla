------------------------------ MODULE Withdrawals ------------------------------
(***************************************************************************)
(* The withdrawals of a block.  The public input circuit                   *)
(* (src/zkevm_specs/pi_circuit.py) lays out the withdrawal table from the  *)
(* public bytes; the withdrawal circuit                                    *)
(* (src/zkevm_specs/withdrawal_circuit.py) goes over the same rows and     *)
(* inserts each into a trie, whose final root must be the block's.         *)
(*                                                                         *)
(* A hash is represented by what it is the hash of, the root of a trie by  *)
(* the set of its entries; validator and address are one field, to.        *)
(*                                                                         *)
(* The public input circuit lays the call data of PublicInputs as well;    *)
(* the names here are not those there, so that a module may extend both.   *)
(***************************************************************************)
EXTENDS Integers, Sequences

CONSTANTS
  MaxWithdrawals,  \* MAX_WITHDRAWALS
  FirstIds,        \* the identifiers a block's withdrawals may start at
  Recipients,
  Amounts          \* includes 0

WithdrawalsAssumption ==
  /\ MaxWithdrawals \in Nat \ {0}
  /\ FirstIds \subseteq Nat /\ Amounts \subseteq Nat /\ 0 \in Amounts
ASSUME WithdrawalsAssumption

VARIABLES
  block,     \* the withdrawals of the block and the root in its header
  table,     \* the rows of the withdrawal table the public input circuit has checked
  roots,     \* the roots of the rows the withdrawal circuit has checked
  verified   \* the block is accepted

withdrawals_vars == <<block, table, roots, verified>>

\* The withdrawals a block may have.
Blocks ==
  UNION {{[i \in 1 .. n |-> [id |-> first + i - 1, to |-> t[i], amount |-> a[i]]] :
            first \in FirstIds, t \in [1 .. n -> Recipients], a \in [1 .. n -> Amounts]} :
         n \in 1 .. MaxWithdrawals}

\* hash, keccak of the encoded withdrawal: what identifies it.
Hash(w) == <<w.id, w.to, w.amount>>

TrieOf(withdrawals) ==
  {[key |-> withdrawals[i].id, value |-> Hash(withdrawals[i])] : i \in DOMAIN withdrawals}

EmptyTrie == {}

-----------------------------------------------------------------------------
(* The public input circuit.                                               *)

DefaultTo == CHOOSE r \in Recipients : TRUE

\* The bytes of row i, in which the position stands for the identifier.
withdrawal_raw_bytes(i) ==
  LET w == block.withdrawals
  IN  IF i \in DOMAIN w THEN [w[i] EXCEPT !.id = i - 1]
      ELSE [id |-> i - 1, to |-> DefaultTo, amount |-> 0]

\* Faulty: the row after the last is expected to go on counting.
q_withdrawal_table_past_end(row) ==
  /\ row.amount # 0
  /\ Len(table) + 1 < MaxWithdrawals
  /\ table # <<>> => row.id = table[Len(table)].id + 1

\* q_withdrawal_table
q_withdrawal_table(row) ==
  /\ row.amount # 0
  /\ table # <<>> => row.id = table[Len(table)].id + 1

-----------------------------------------------------------------------------
(* The withdrawal circuit.                                                 *)

\* Faulty: the hash of the encoded withdrawal is not looked up.
keccak_lookup_any(row, hash) == TRUE

keccak_lookup(row, hash) == row.amount # 0 => hash = Hash(row)

root_prev == IF roots = <<>> THEN EmptyTrie ELSE roots[Len(roots)]

Entry(row, hash) == [key |-> row.id, value |-> hash]

\* The table of the trie: the next root has one entry more, under a key that had
\* none; for padding (no amount) it is the same.
mpt_lookup(row, hash, root) ==
  IF row.amount # 0
  THEN /\ \A e \in root_prev : e.key # row.id
       /\ root = root_prev \cup {Entry(row, hash)}
  ELSE root = root_prev

Hashes ==
  {Hash([id |-> i, to |-> t, amount |-> a]) :
     i \in 0 .. MaxWithdrawals - 1, t \in Recipients, a \in Amounts}

-----------------------------------------------------------------------------
(* Checking the rows, by each circuit at its own pace.                     *)

WithdrawalsInit ==
  /\ \E withdrawals \in Blocks, other \in Blocks :
       block = [withdrawals |-> withdrawals, root |-> TrieOf(other)]
  /\ table = <<>> /\ roots = <<>> /\ verified = FALSE

\* A row of the table is tied to the public bytes.
LayRow ==
  /\ Len(table) < MaxWithdrawals
  /\ q_withdrawal_table(withdrawal_raw_bytes(Len(table) + 1))
  /\ table' = Append(table, withdrawal_raw_bytes(Len(table) + 1))
  /\ UNCHANGED <<block, roots, verified>>

\* One turn of the loop of verify_circuit; the prover brings hash and root.
VerifyRow ==
  LET k == Len(roots) + 1
  IN  /\ k \in DOMAIN table
      /\ k < MaxWithdrawals => k + 1 \in DOMAIN table /\ table[k + 1].id = table[k].id + 1
      /\ \E hash \in Hashes : \E root \in {root_prev, root_prev \cup {Entry(table[k], hash)}} :
           /\ keccak_lookup(table[k], hash)
           /\ mpt_lookup(table[k], hash, root)
           /\ roots' = Append(roots, root)
      /\ UNCHANGED <<block, table, verified>>

\* The block's root is the last one.
AcceptBlock ==
  /\ ~verified /\ Len(roots) = MaxWithdrawals
  /\ roots[MaxWithdrawals] = block.root
  /\ verified' = TRUE
  /\ UNCHANGED <<block, table, roots>>

WithdrawalsNext == LayRow \/ VerifyRow \/ AcceptBlock

\* Each circuit is a loop over the rows of a witness, and neither waits for ever.
WithdrawalsSpec ==
  /\ WithdrawalsInit /\ [][WithdrawalsNext]_withdrawals_vars
  /\ WF_withdrawals_vars(LayRow) /\ WF_withdrawals_vars(VerifyRow) /\ WF_withdrawals_vars(AcceptBlock)

-----------------------------------------------------------------------------
(* Properties.                                                             *)

\* Type invariant; the keys of every root are the identifiers of the rows so far.
WithdrawalsTypeOK ==
  /\ Len(roots) <= Len(table) /\ Len(table) <= MaxWithdrawals /\ verified \in BOOLEAN
  /\ \A k \in DOMAIN roots :
       /\ roots[k] \subseteq [key : Nat, value : Nat \X Recipients \X Amounts]
       /\ {e.key : e \in roots[k]} = {table[i].id : i \in 1 .. k}

\* A block that is accepted names in its header the trie of exactly the
\* withdrawals in the public bytes, though neither circuit compares the two: one
\* sees the bytes, the other the chain of roots, and they share the table.
RootOfWithdrawals ==
  verified => block.root = TrieOf([i \in 1 .. MaxWithdrawals |-> withdrawal_raw_bytes(i)])

\* The blocks there is room for: as many withdrawals as rows, each of an amount.
Full ==
  /\ Len(block.withdrawals) = MaxWithdrawals
  /\ \A i \in DOMAIN block.withdrawals :
       block.withdrawals[i].amount # 0 /\ block.withdrawals[i].id = i - 1

\* Every full block whose withdrawals count from 0 is accepted in the end.
FullBlocksAccepted == Full /\ block.root = TrieOf(block.withdrawals) ~> verified

\* So is every block that has withdrawals, each of an amount: padding rows make up
\* the rest ("so we use `amount == 0` for padding withdrawals",
\* src/zkevm_specs/withdrawal_circuit.py), and the identifiers may start anywhere
\* ("it won't be starting from 0 in most of cases", specs/withdrawal-proof.md).
BlocksAccepted ==
  /\ \A i \in DOMAIN block.withdrawals : block.withdrawals[i].amount # 0
  /\ block.root = TrieOf(block.withdrawals)
  ~> verified
=============================================================================
