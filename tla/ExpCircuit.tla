------------------------------ MODULE ExpCircuit ------------------------------
(***************************************************************************)
(* The exponentiation circuit (src/zkevm_specs/exp_circuit.py).  Its table *)
(* holds exponentiations by squaring, each from the step that gives the    *)
(* result down to the step base * base of exponent 2; the EVM circuit looks*)
(* up the first and the last step of the trace of an EXP.                  *)
(*                                                                         *)
(* A behaviour builds the table from its last row up, of rows of the       *)
(* prover's choice, each checked with the row below it; the row below the  *)
(* last row is the first one.                                              *)
(***************************************************************************)
EXTENDS Integers, Sequences, FiniteSets

CONSTANTS
  Modulus,      \* 2^256 in the code, a smaller power of 2 to check
  Bases,        \* the bases of the exponentiations
  Identifiers,  \* the read-write counters at which they are looked up
  MaxEnds,      \* bound on the rows below which no trace goes on
  MaxHeight     \* bound on the number of rows

ConstantsAssumption ==
  /\ Modulus \in Nat /\ Modulus > 2 /\ Modulus % 2 = 0
  /\ Bases \subseteq 0 .. Modulus - 1
ASSUME ConstantsAssumption

VARIABLES
  rows,    \* the rows built so far, from the top
  closed   \* the last row has been checked with the first

vars == <<rows, closed>>

Words == 0 .. Modulus - 1

RowSet ==
  [is_step : BOOLEAN, identifier : Identifiers \cup {0}, is_last : BOOLEAN, base : Words,
   exponent : Words, exponentiation : Words, a : Words, b : Words, d : Words,
   q : Words, r : {0, 1}]

TopRow == rows[1]
BottomRow == rows[Len(rows)]

-----------------------------------------------------------------------------
(* verify_step: the constraints on a row and the row after it.             *)

\* Faulty: what overflows the word is kept.
mul_add_words_unbounded(a, b, c) == a * b + c

\* The word d of a * b + c = d; the overflow is dropped.
mul_add_words(a, b, c) == (a * b + c) % Modulus

\* For every step; the c of the multiplication is 0.
check_step(row) ==
  row.is_step =>
    /\ row.d = mul_add_words(row.a, row.b, 0)
    /\ row.exponentiation = row.d
    /\ row.exponent = mul_add_words(2, row.q, row.r)

\* Faulty: the trace may begin with a product of its choice.
check_last_any_product(row) == row.is_last => row.exponent = 2 /\ row.a = row.base

check_last(row) == row.is_last => row.exponent = 2 /\ row.a = row.base /\ row.b = row.base

next_exponent(cur) == IF cur.r = 1 THEN cur.exponent - 1 ELSE cur.q

\* Faulty: the square need not be a square.
multiplicand_of_odd(cur) == cur.r = 1 => cur.b = cur.base

multiplicand(cur) == cur.b = IF cur.r = 1 THEN cur.base ELSE cur.a

check_next(cur, next) ==
  cur.is_step /\ ~cur.is_last =>
    /\ next.base = cur.base
    /\ next.d = cur.a
    /\ next.identifier = cur.identifier
    /\ next.exponent = next_exponent(cur)
    /\ multiplicand(cur)

-----------------------------------------------------------------------------
(* Building the table.                                                     *)

\* Steps with given multiplicands; the product is a column too.
Steps(identifiers, lasts, bases, as, bs) ==
  {[is_step |-> TRUE, identifier |-> i, is_last |-> l, base |-> x,
    exponent |-> mul_add_words(2, q, r), exponentiation |-> mul_add_words(a, b, 0),
    a |-> a, b |-> b, d |-> mul_add_words(a, b, 0), q |-> q, r |-> r] :
     i \in identifiers, l \in lasts, x \in bases, a \in as, b \in bs, q \in Words,
     r \in {0, 1}}

\* Rows that are no steps are not looked at, except by the step above, which reads
\* four of their columns; the others are those of fill_dummy_events.
NoSteps ==
  {[is_step |-> FALSE, identifier |-> i, is_last |-> FALSE, base |-> x, exponent |-> e,
    exponentiation |-> 1, a |-> 1, b |-> 1, d |-> d, q |-> 0, r |-> 1] :
     i \in Identifiers \cup {0}, x \in Bases \cup {1}, e \in Words, d \in Words}

Init == rows = <<>> /\ closed = FALSE

PutOnTop(row) ==
  /\ ~closed /\ Len(rows) < MaxHeight
  /\ check_step(row) /\ check_last(row)
  /\ rows # <<>> => check_next(row, TopRow)
  /\ rows' = <<row>> \o rows
  /\ UNCHANGED closed

\* The rows that the row below them need not continue.
Ends == {i \in DOMAIN rows : i = Len(rows) \/ ~rows[i].is_step \/ rows[i].is_last}

MayEnd == ~closed /\ Cardinality(Ends) < MaxEnds

\* A step whose trace goes on below.
Step ==
  /\ rows # <<>>
  /\ \E row \in Steps({TopRow.identifier}, {FALSE}, {TopRow.base}, {TopRow.d},
                      {TopRow.base, TopRow.d}) : PutOnTop(row)

\* A step at the bottom of the table, whose trace goes on at the top; CloseTable
\* passes no other multiplicands.
StepAtBottom ==
  /\ rows = <<>> /\ MayEnd
  /\ \E x \in Bases, a \in Words :
       \E row \in Steps(Identifiers, {FALSE}, {x}, {a}, {x, a}) : PutOnTop(row)

\* The last step of a trace.
LastStep ==
  /\ MayEnd
  /\ \E row \in Steps(Identifiers, {TRUE}, Bases, Words, Words) : PutOnTop(row)

NoStep == MayEnd /\ \E row \in NoSteps : PutOnTop(row)

CloseTable ==
  /\ ~closed /\ rows # <<>>
  /\ check_next(BottomRow, TopRow)
  /\ closed' = TRUE
  /\ UNCHANGED rows

Next == Step \/ StepAtBottom \/ LastStep \/ NoStep \/ CloseTable

Spec == Init /\ [][Next]_vars

-----------------------------------------------------------------------------
(* Properties.                                                             *)

\* Type invariant: words stay words.
TypeOK == rows \in Seq(RowSet) /\ closed \in BOOLEAN

\* x ^ n in words, multiplied out.
Power(x, n) ==
  LET power[k \in 0 .. n] == IF k = 0 THEN 1 ELSE (power[k - 1] * x) % Modulus
  IN  power[n]

\* Steps from row i down to the last step of a trace at row j.
Trace(i, j) ==
  /\ i <= j /\ rows[j].is_last
  /\ \A k \in i .. j : rows[k].is_step
  /\ \A k \in i .. j - 1 : ~rows[k].is_last

\* The step halves its exponent without overflow.
Exact(row) == 2 * row.q + row.r = row.exponent

GivesThePower(row) == row.exponentiation = Power(row.base, row.exponent)

\* Every step of a trace, from its last step up, holds the power of the base,
\* if the quotients of its steps are halves (verify_step).
ExactTracesGiveThePower ==
  \A i, j \in DOMAIN rows :
    Trace(i, j) /\ (\A k \in i .. j - 1 : Exact(rows[k])) => GivesThePower(rows[i])

\* For an odd base the overflow of 2 * q + r, which verify_step drops, does no
\* harm: the quotient is off by half the modulus, which is a period of the powers
\* of every odd base.
OddBasesGiveThePower ==
  \A i, j \in DOMAIN rows :
    Trace(i, j) /\ rows[i].base % 2 = 1 => GivesThePower(rows[i])

\* The result EXP looks up in a trace, of an exponent above 2, is the power of the
\* base ("`overflow` in the `parity_check` MUST equal `0`", specs/exp-proof.md).
LookupsGiveThePower ==
  \A i, j \in DOMAIN rows : Trace(i, j) /\ rows[i].exponent > 2 => GivesThePower(rows[i])
=============================================================================
