----------------------------- MODULE PublicInputs -----------------------------
(***************************************************************************)
(* The public input circuit (src/zkevm_specs/pi_circuit.py), the part that *)
(* lays out the transaction table: it attributes the bytes of call data,   *)
(* which the public inputs hold in one run for all transactions, and sums  *)
(* their intrinsic cost for the fields CallDataLength and CallDataGasCost. *)
(*                                                                         *)
(* verify_circuit ties the fields of the transactions and the values of    *)
(* the call data rows to the public bytes; the transaction and index of a  *)
(* call data row, its running cost and is_final are the prover's.  A       *)
(* behaviour lays the rows down in order, each checked with the row before *)
(* it, and then the rows of the transactions are checked.                  *)
(***************************************************************************)
EXTENDS Integers, Sequences, SequencesExt, FiniteSetsExt

CONSTANTS
  MaxTxs,       \* MAX_TXS
  MaxCalldata,  \* MAX_CALLDATA_BYTES
  Bytes,        \* the values of a byte
  Payloads,     \* the call data a transaction may have
  Strangers,    \* ids that are no transaction's and that a prover may write
  Misstated     \* by how much a public CallDataGasCost may be too high

Txs == 1 .. MaxTxs

\* The ids a prover may write beside a byte.  An id is a field element, modulo p,
\* and -k stands for p - k: from there the differences in the u16 table lead on to
\* the ids of transactions.  (No section is long enough for them to lead all the
\* way round the field, so that one integer stands for an id in all rows.)
Ids == Txs \cup Strangers

ConstantsAssumption ==
  /\ MaxTxs \in Nat /\ MaxCalldata \in Nat \ {0}
  /\ Bytes \subseteq Nat
  /\ Payloads \subseteq Seq(Bytes)
  /\ Strangers \subseteq Int \ {0}
  /\ Misstated \subseteq Nat
ASSUME ConstantsAssumption

VARIABLES
  public,    \* the public inputs
  rows,      \* the call data rows laid down so far
  accepted   \* every row has been checked

vars == <<public, rows, accepted>>

\* The values of the call data rows, and the fields of the transactions: call data
\* (of which the circuit sees no more than the values), length and cost.
PublicSet ==
  [values : [1 .. MaxCalldata -> Bytes], data : [Txs -> Payloads],
   CallDataLength : [Txs -> Nat], CallDataGasCost : [Txs -> Nat]]

Padding == 0

RowSet ==
  [tx_id : Ids \cup {Padding}, index : Nat, value : Bytes, calldata_gas_cost : Nat,
   is_final : {0, 1}]

LastRow == rows[Len(rows)]

-----------------------------------------------------------------------------
(* The public inputs.                                                      *)

gas_cost(byte) == IF byte = 0 THEN 4 ELSE 16

call_data_gas_cost(data) == MapThenSumSet(LAMBDA i : gas_cost(data[i]), DOMAIN data)

\* The call data of all transactions, one after the other, and then 0s.
calldata_values(data) ==
  LET all == FlattenSeq(data)
  IN  all \o [i \in 1 .. MaxCalldata - Len(all) |-> 0]

public_data(data, misstated) ==
  [values |-> calldata_values(data),
   data |-> data,
   CallDataLength |-> [t \in Txs |-> Len(data[t])],
   CallDataGasCost |-> [t \in Txs |-> call_data_gas_cost(data[t]) + misstated[t]]]

NoRow == [tx_id |-> Padding, index |-> 0, value |-> 0, calldata_gas_cost |-> 0, is_final |-> 0]

\* The call data rows that the witness builder lays down for the call data.
tx_table_tx_calldata_cols(data) ==
  LET rowsOf(t) ==
        [i \in DOMAIN data[t] |->
           [tx_id |-> t, index |-> i - 1, value |-> data[t][i],
            calldata_gas_cost |-> call_data_gas_cost(SubSeq(data[t], 1, i)),
            is_final |-> IF i = Len(data[t]) THEN 1 ELSE 0]]
      all == FlattenSeq([t \in Txs |-> rowsOf(t)])
  IN  all \o [i \in 1 .. MaxCalldata - Len(all) |-> NoRow]

-----------------------------------------------------------------------------
(* check_row on a call data row and the row after it.                      *)

U16Max == 65535

fixed_u16_table == 0 .. U16Max

\* Faulty: padding may be followed by call data.
check_padding_anywhere(cur, next) == cur.is_final = 0 /\ cur.calldata_gas_cost = 0

check_padding(cur, next) ==
  next.tx_id = Padding /\ cur.is_final = 0 /\ cur.calldata_gas_cost = 0

\* Faulty: bytes within a transaction may be marked as its last.
check_same_tx_any_final(cur, next) ==
  /\ next.index = cur.index + 1
  /\ next.calldata_gas_cost = cur.calldata_gas_cost + gas_cost(next.value)

check_same_tx(cur, next) ==
  /\ next.index = cur.index + 1
  /\ next.calldata_gas_cost = cur.calldata_gas_cost + gas_cost(next.value)
  /\ cur.is_final = 0

\* Faulty: the row that ends call data is charged for its 0 byte.
check_next_tx_padding_charged(cur, next) ==
  /\ next.index = 0
  /\ next.calldata_gas_cost = gas_cost(next.value)
  /\ cur.is_final = 1
  /\ next.tx_id # Padding => next.tx_id - cur.tx_id - 1 \in fixed_u16_table

\* Faulty: the difference of the transactions is not looked up in the u16 table.
check_next_tx_unordered(cur, next) ==
  /\ next.index = 0
  /\ next.calldata_gas_cost = IF next.tx_id = Padding THEN 0 ELSE gas_cost(next.value)
  /\ cur.is_final = 1

check_next_tx(cur, next) ==
  /\ next.index = 0
  /\ next.calldata_gas_cost = IF next.tx_id = Padding THEN 0 ELSE gas_cost(next.value)
  /\ cur.is_final = 1
  /\ next.tx_id # Padding => next.tx_id - cur.tx_id - 1 \in fixed_u16_table

check_row(cur, next) ==
  IF cur.tx_id = Padding THEN check_padding(cur, next)
  ELSE IF next.tx_id = cur.tx_id THEN check_same_tx(cur, next)
  ELSE check_next_tx(cur, next)

\* q_tx_calldata_start; the first row is checked by itself.
check_calldata_start(cur) ==
  cur.tx_id # Padding => cur.index = 0 /\ cur.calldata_gas_cost = gas_cost(cur.value)

\* q_tx_table on the rows CallDataLength and CallDataGasCost of transaction t: the
\* cost is looked up among the last bytes of transactions.
check_tx_table(t) ==
  IF public.CallDataLength[t] = 0 THEN public.CallDataGasCost[t] = 0
  ELSE \E i \in DOMAIN rows :
         /\ rows[i].tx_id = t
         /\ rows[i].is_final = 1
         /\ rows[i].calldata_gas_cost = public.CallDataGasCost[t]

-----------------------------------------------------------------------------
(* Laying the rows down.                                                   *)

\* The rows that may come after cur with a value: the index and the running cost
\* are those that follow from cur or those of a first byte; no others pass.
RowsAfter(cur, value) ==
  {[tx_id |-> t, index |-> i, value |-> value, calldata_gas_cost |-> g, is_final |-> f] :
     t \in Ids \cup {Padding}, i \in {0, cur.index + 1},
     g \in {0, gas_cost(value), cur.calldata_gas_cost + gas_cost(value)}, f \in {0, 1}}

\* The last call data row is checked with a row outside the section, which may hold
\* anything.
check_calldata_end ==
  \E value \in Bytes : \E row \in RowsAfter(LastRow, value) : check_row(LastRow, row)

\* public_data2witness asserts that the call data fits the section.
Init ==
  /\ \E data \in [Txs -> Payloads], misstated \in [Txs -> Misstated] :
       public = public_data(data, misstated)
  /\ public \in PublicSet
  /\ rows = <<>> /\ accepted = FALSE

FirstRow ==
  /\ rows = <<>>
  /\ \E row \in RowsAfter(NoRow, public.values[1]) :
       check_calldata_start(row) /\ rows' = <<row>>
  /\ UNCHANGED <<public, accepted>>

AppendRow ==
  /\ rows # <<>> /\ Len(rows) < MaxCalldata
  /\ \E row \in RowsAfter(LastRow, public.values[Len(rows) + 1]) :
       check_row(LastRow, row) /\ rows' = Append(rows, row)
  /\ UNCHANGED <<public, accepted>>

\* Then the rows of the transactions find the costs they look up.
Accept ==
  /\ ~accepted /\ Len(rows) = MaxCalldata
  /\ check_calldata_end
  /\ \A t \in Txs : check_tx_table(t)
  /\ accepted' = TRUE
  /\ UNCHANGED <<public, rows>>

Next == FirstRow \/ AppendRow \/ Accept

Spec == Init /\ [][Next]_vars

-----------------------------------------------------------------------------
(* Properties.                                                             *)

\* Type invariant; call data comes before padding, which costs nothing except in
\* the row that is not checked yet.
TypeOK ==
  /\ public \in PublicSet /\ rows \in Seq(RowSet) /\ accepted \in BOOLEAN
  /\ Len(rows) <= MaxCalldata
  /\ \A i \in DOMAIN rows : rows[i].tx_id = Padding /\ i < Len(rows) =>
       rows[i].calldata_gas_cost = 0 /\ rows[i + 1].tx_id = Padding

RowsOf(t) == {i \in DOMAIN rows : rows[i].tx_id = t}

LastRowOf(t) == CHOOSE i \in RowsOf(t) : \A j \in RowsOf(t) : j <= i

Looked ==
  {<<rows[i].tx_id, rows[i].index, rows[i].value>> : i \in {j \in DOMAIN rows : rows[j].tx_id \in Ids}}

Calldata ==
  INSTANCE TxCalldata WITH
    claims <- [t \in Txs |-> [length |-> public.CallDataLength[t], cost |-> public.CallDataGasCost[t]]],
    table <- Looked,
    count <- [t \in Ids |-> IF RowsOf(t) = {} THEN 0 ELSE rows[LastRowOf(t)].index + 1],
    charged <- [t \in Ids |-> IF RowsOf(t) = {} THEN 0
                                               ELSE rows[LastRowOf(t)].calldata_gas_cost]

\* Whatever the prover writes beside the bytes, each goes to one transaction, at
\* the next index of it, and the cost that begin_tx charges a transaction with
\* call data is the cost of exactly the bytes it can look up: no byte under two
\* transactions or twice at an index, none before an earlier transaction's, no
\* cost left out by marking an earlier byte as the last (is_final, the u16 table).
DealsCalldata == Calldata!Spec

\* As costs are positive they fix where one transaction's bytes end and the next
\* one's begin: if the public costs are right, up to the first transaction with
\* no call data every transaction finds its own bytes and no others.  That is so of
\* a section that does not begin with bytes of a stranger: the id in the first row
\* is not bound (q_tx_calldata_start), and from p - 1 the next may be 1.
LeadingCalldata ==
  accepted /\ (\A i \in DOMAIN rows : rows[i].tx_id >= 0) =>
    \A t \in Txs :
      (\A u \in 1 .. t :
         /\ public.data[u] # <<>>
         /\ public.CallDataGasCost[u] = call_data_gas_cost(public.data[u]))
      => {r \in Looked : r[1] = t} = {<<t, i - 1, public.data[t][i]>> : i \in DOMAIN public.data[t]}

\* The witness that public_data2witness builds passes, row by row and at the end,
\* if the public costs are right: empty call data, call data that ends in zeros
\* and a section with no padding included.
BuilderPasses ==
  LET built == tx_table_tx_calldata_cols(public.data)
  IN  rows = SubSeq(built, 1, Len(rows)) =>
        IF rows = <<>> THEN check_calldata_start(built[1])
        ELSE IF Len(rows) < MaxCalldata THEN check_row(LastRow, built[Len(rows) + 1])
        ELSE /\ check_calldata_end
             /\ \A t \in Txs :
                  public.CallDataGasCost[t] = call_data_gas_cost(public.data[t]) => check_tx_table(t)

\* The call data a transaction finds in the table is its own ("the circuit proves
\* that the contained [..] `tx_table -> {tx_id, index, value}` columns correspond
\* to the correct sections of the raw public inputs column",
\* specs/public_inputs.md).
CalldataOfTxs ==
  accepted =>
    \A t \in Txs :
      (\A u \in Txs : public.CallDataGasCost[u] = call_data_gas_cost(public.data[u]))
      => \A i \in DOMAIN public.data[t] : <<t, i - 1, public.data[t][i]>> \in Looked
=============================================================================
