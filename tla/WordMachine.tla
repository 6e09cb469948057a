----------------------------- MODULE WordMachine -----------------------------
(***************************************************************************)
(* What the opcodes on words promise: a stack of words, and for each       *)
(* opcode the function of the yellow paper that the procedures of          *)
(* specs/opcode name.  Words have 4 * machine.limb bits (256 in the        *)
(* program), bytes as many values as a word has bits.                      *)
(***************************************************************************)
EXTENDS Integers, Sequences, FiniteSetsExt

VARIABLES machine, stack

Power(b, n) == LET power[k \in 0 .. n] == IF k = 0 THEN 1 ELSE b * power[k - 1] IN power[n]

Bits == 4 * machine.limb
Modulus == Power(2, Bits)
Word == 0 .. Modulus - 1
ByteBase == Bits
NBytes == CHOOSE n \in 1 .. Bits : Power(ByteBase, n) = Modulus

Ternary == {"ADDMOD", "MULMOD"}
Unary == {"ISZERO", "NOT"}
Arity(op) == IF op \in Ternary THEN 3 ELSE IF op \in Unary THEN 1 ELSE 2

ToSigned(x) == IF x < Modulus \div 2 THEN x ELSE x - Modulus
Magnitude(x) == IF x < 0 THEN -x ELSE x
\* The quotient that is rounded towards zero and its remainder.
Quotient(x, y) ==
  (IF (x < 0) = (y < 0) THEN 1 ELSE -1) * (Magnitude(x) \div Magnitude(y))
Remainder(x, y) == x - Quotient(x, y) * y

Truth(b) == IF b THEN 1 ELSE 0
OnesOf(x) == {i \in 0 .. Bits - 1 : (x \div Power(2, i)) % 2 = 1}
OfOnes(ones) == MapThenSumSet(LAMBDA i : Power(2, i), ones)

\* Byte i of a word, counted from the least significant one.
ByteOf(x, i) == (x \div Power(ByteBase, i)) % ByteBase
SignExtended(i, x) ==
  LET low == x % Power(ByteBase, i + 1)
  IN  IF i >= NBytes - 1 THEN x
      ELSE IF ByteOf(x, i) < ByteBase \div 2 THEN low
      ELSE low + Modulus - Power(ByteBase, i + 1)

Result(op, a) ==
  CASE op = "ADD" -> (a[1] + a[2]) % Modulus
    [] op = "SUB" -> (a[1] - a[2]) % Modulus
    [] op = "MUL" -> (a[1] * a[2]) % Modulus
    [] op = "DIV" -> IF a[2] = 0 THEN 0 ELSE a[1] \div a[2]
    [] op = "MOD" -> IF a[2] = 0 THEN 0 ELSE a[1] % a[2]
    [] op = "SDIV" ->
         IF a[2] = 0 THEN 0 ELSE Quotient(ToSigned(a[1]), ToSigned(a[2])) % Modulus
    [] op = "SMOD" ->
         IF a[2] = 0 THEN 0 ELSE Remainder(ToSigned(a[1]), ToSigned(a[2])) % Modulus
    [] op = "ADDMOD" -> IF a[3] = 0 THEN 0 ELSE (a[1] + a[2]) % a[3]
    [] op = "MULMOD" -> IF a[3] = 0 THEN 0 ELSE (a[1] * a[2]) % a[3]
    [] op = "SIGNEXTEND" -> SignExtended(a[1], a[2])
    [] op = "LT" -> Truth(a[1] < a[2])
    [] op = "GT" -> Truth(a[1] > a[2])
    [] op = "EQ" -> Truth(a[1] = a[2])
    [] op = "SLT" -> Truth(ToSigned(a[1]) < ToSigned(a[2]))
    [] op = "SGT" -> Truth(ToSigned(a[1]) > ToSigned(a[2]))
    [] op = "ISZERO" -> Truth(a[1] = 0)
    [] op = "NOT" -> Modulus - 1 - a[1]
    [] op = "AND" -> OfOnes(OnesOf(a[1]) \cap OnesOf(a[2]))
    [] op = "OR" -> OfOnes(OnesOf(a[1]) \cup OnesOf(a[2]))
    [] op = "XOR" -> OfOnes({i \in OnesOf(a[1]) \cup OnesOf(a[2]) :
                               i \notin OnesOf(a[1]) \cap OnesOf(a[2])})
    [] op = "BYTE" -> IF a[1] < NBytes THEN ByteOf(a[2], NBytes - 1 - a[1]) ELSE 0
    [] op = "SHL" -> IF a[1] < Bits THEN (a[2] * Power(2, a[1])) % Modulus ELSE 0
    [] op = "SHR" -> IF a[1] < Bits THEN a[2] \div Power(2, a[1]) ELSE 0
    [] op = "SAR" ->
         IF a[1] < Bits THEN (ToSigned(a[2]) \div Power(2, a[1])) % Modulus
         ELSE IF ToSigned(a[2]) < 0 THEN Modulus - 1 ELSE 0

Push ==
  /\ Len(stack) < machine.depth
  /\ \E x \in machine.operands : stack' = <<x>> \o stack
  /\ UNCHANGED machine

Pop == stack # << >> /\ stack' = Tail(stack) /\ UNCHANGED machine

Execute(op) ==
  /\ Len(stack) >= Arity(op)
  /\ stack' = <<Result(op, stack)>> \o SubSeq(stack, Arity(op) + 1, Len(stack))
  /\ UNCHANGED machine

Init == stack = << >>
Next == Push \/ Pop \/ \E op \in machine.opcodes : Execute(op)
Spec == Init /\ [][Next]_<<machine, stack>>
=============================================================================
