----------------------------- MODULE WordOpcodes -----------------------------
(***************************************************************************)
(* The EVM circuit steps that compute on words of the stack: what each of  *)
(* them accepts as the word it pushes.  A step looks up the words it pops  *)
(* and pushes and constrains them together with witnesses; Pushes(op, a)   *)
(* is the set of words for which some witness satisfies the constraints.   *)
(* What the code computes with divmod only to check it is a witness here   *)
(* too, free over all words.                                               *)
(*                                                                         *)
(* A word has four limbs (64 bits in the program), two halves (lo and hi)  *)
(* and as many values in a byte as bits in the word; a machine fixes the   *)
(* bits of a limb.  Sums of limb products stay far below the field's       *)
(* modulus, so field elements are integers.  Program counter, read-write   *)
(* counter and gas are left out: these steps move them by constants.       *)
(***************************************************************************)
EXTENDS Integers, Sequences

CONSTANT Machines   \* records of limb (bits), depth of the stack, operands, opcodes

VARIABLES
  machine,
  cells,            \* the stack's words, by position; lower positions are higher up
  stack_pointer

vars == <<machine, cells, stack_pointer>>

stack == [i \in 1 .. machine.depth - stack_pointer |-> cells[stack_pointer + i - 1]]
Evm == INSTANCE WordMachine

Opcodes ==
  {"ADD", "SUB", "MUL", "DIV", "MOD", "SDIV", "SMOD", "ADDMOD", "MULMOD", "SIGNEXTEND",
   "LT", "GT", "EQ", "SLT", "SGT", "ISZERO", "NOT", "AND", "OR", "XOR", "BYTE", "SHL", "SHR", "SAR"}

\* Limbs are not empty, four of them are a whole number of bytes, and operands are words.
ASSUME MachinesAssumption ==
  \A m \in Machines :
    LET words == Evm!Power(2, 4 * m.limb)
    IN  /\ m.limb \in Nat \ {0} /\ m.depth \in Nat
        /\ \E n \in 1 .. 4 * m.limb : Evm!Power(4 * m.limb, n) = words
        /\ m.operands \subseteq 0 .. words - 1 /\ m.opcodes \subseteq Opcodes

Base == Evm!Power(2, machine.limb)
HalfBase == Base * Base
Modulus == HalfBase * HalfBase
Bits == 4 * machine.limb
Word == 0 .. Modulus - 1
ByteBase == Bits
NBytes == Evm!NBytes

Lo(x) == x % HalfBase
Hi(x) == x \div HalfBase
Limb(x, i) == (x \div Evm!Power(Base, i)) % Base
Byte(x, i) == (x \div Evm!Power(ByteBase, i)) % ByteBase
AboveLowByte(x) == x \div ByteBase
Bool(b) == IF b THEN 1 ELSE 0

-----------------------------------------------------------------------------
(* Gadgets of Instruction. *)

compare_word_lt(a, b) == Hi(a) < Hi(b) \/ (Hi(a) = Hi(b) /\ Lo(a) < Lo(b))

is_neg_word(a) == HalfBase \div 2 - 1 < Hi(a)

\* The absolute value; that of the least word is itself.
abs_word(a) == IF is_neg_word(a) THEN Modulus - a ELSE a

add_words(a, b) ==
  LET low == Lo(a) + Lo(b)
      high == Hi(a) + Hi(b) + low \div HalfBase
  IN  [sum |-> (low % HalfBase) + (high % HalfBase) * HalfBase, carry |-> high \div HalfBase]

\* The products of limbs i and j with i + j = n.
Terms(a, b, n) ==
  LET Term(i) == IF n - i \in 0 .. 3 THEN Limb(a, i) * Limb(b, n - i) ELSE 0
  IN  Term(0) + Term(1) + Term(2) + Term(3)

\* A carry is looked up to have the bytes of a limb and one more.
\* Faulty: without the one more.
CarryRange_of_limb == 0 .. Base - 1
CarryRange == 0 .. Base * ByteBase - 1
IsCarry(n) == n % HalfBase = 0 /\ n \div HalfBase \in CarryRange

\* a * b + c = d up to the overflow.
mul_add_words(a, b, c, d) ==
  LET low == Terms(a, b, 0) + Terms(a, b, 1) * Base + Lo(c) - Lo(d)
      high == Terms(a, b, 2) + Terms(a, b, 3) * Base + Hi(c) + low \div HalfBase - Hi(d)
  IN  [holds |-> IsCarry(low) /\ IsCarry(high),
       overflow |-> high \div HalfBase + Terms(a, b, 4) + Terms(a, b, 5) + Terms(a, b, 6)]

\* a * b + c = d * Modulus + e.
mul_add_words_512(a, b, c, d, e) ==
  LET low == Terms(a, b, 0) + Terms(a, b, 1) * Base + Lo(c) - Lo(e)
      mid == Terms(a, b, 2) + Terms(a, b, 3) * Base + Hi(c) + low \div HalfBase - Hi(e)
      high == Terms(a, b, 4) + Terms(a, b, 5) * Base + mid \div HalfBase - Lo(d)
  IN  /\ IsCarry(low) /\ IsCarry(mid) /\ IsCarry(high)
      /\ Terms(a, b, 6) + high \div HalfBase = Hi(d)

\* The fixed table of powers of two, a power being the two halves of a word.
Pow2 ==
  {<<n, IF n < 2 * machine.limb THEN Evm!Power(2, n) ELSE 0,
     IF n < 2 * machine.limb THEN 0 ELSE Evm!Power(2, n - 2 * machine.limb)>> : n \in 0 .. Bits - 1}

-----------------------------------------------------------------------------
(* The opcodes: Pushes of each. *)

add_sub(op, a, b) ==
  {c \in Word : IF op = "SUB" THEN add_words(c, b).sum = a ELSE add_words(a, b).sum = c}

mul(a, b) == {d \in Word : mul_add_words(a, b, 0, d).holds}

\* Faulty: the product may pass the modulus.
div_mod_overflowing(op, d, b) ==
  {IF b = 0 THEN 0 ELSE IF op = "DIV" THEN witness[1] ELSE witness[2] :
     witness \in {w \in Word \X Word :
       (b # 0 => compare_word_lt(w[2], b)) /\ mul_add_words(w[1], b, w[2], d).holds}}

div_mod(op, d, b) ==
  {IF b = 0 THEN 0 ELSE IF op = "DIV" THEN witness[1] ELSE witness[2] :
     witness \in {w \in Word \X Word :
       LET check == mul_add_words(w[1], b, w[2], d)
       IN  /\ b # 0 => compare_word_lt(w[2], b)
           /\ check.holds /\ check.overflow = 0}}

\* check_witness of sdiv_smod.py.
check_signed_division(quotient, divisor, remainder, dividend) ==
  LET check == mul_add_words(abs_word(quotient), abs_word(divisor),
                             abs_word(remainder), abs_word(dividend))
  IN  /\ check.holds /\ check.overflow = 0
      /\ divisor # 0 => compare_word_lt(abs_word(remainder), abs_word(divisor))
      /\ quotient # 0 /\ divisor # 0 /\ remainder # 0
           => is_neg_word(dividend) = is_neg_word(remainder)
      /\ quotient # 0 /\ divisor # 0 /\ ~is_neg_word(abs_word(dividend))
           => is_neg_word(dividend) = (is_neg_word(quotient) # is_neg_word(divisor))

\* The pushed word is the quotient of SDIV, whatever the divisor, and the
\* remainder of SMOD when the divisor is not zero.
sdiv_smod(op, dividend, divisor) ==
  {push \in Word : \E other \in Word :
     IF op = "SDIV" THEN check_signed_division(push, divisor, other, dividend)
     ELSE check_signed_division(other, divisor, IF divisor = 0 THEN dividend ELSE push, dividend)}

addmod(a, b, n) ==
  LET Reductions == {a_reduced \in Word :
        /\ n # 0 => compare_word_lt(a_reduced, n)
        /\ \E k \in Word : LET check == mul_add_words(k, n, a_reduced, a)
                           IN  check.holds /\ check.overflow = 0}
      Reduces(r, a_reduced) ==
        LET total == add_words(a_reduced, b)
        IN  \E d \in Word :
              mul_add_words_512(d, n, r, IF n = 0 THEN 0 ELSE total.carry, total.sum)
  IN  {IF n = 0 THEN 0 ELSE r :
         r \in {r \in Word : /\ n # 0 => compare_word_lt(r, n)
                             /\ \E a_reduced \in Reductions : Reduces(r, a_reduced)}}

\* mod of mulmod.py: it does not look at the overflow of k * n + r.
mod(a, n, r) ==
  /\ \E a_or_zero \in {a} \cup (IF n = 0 THEN {0} ELSE {}), k \in Word :
       mul_add_words(k, n, r, a_or_zero).holds
  /\ compare_word_lt(r, n) # (n = 0)

mulmod(a, b, n) ==
  {r \in Word :
     /\ compare_word_lt(r, n) # (n = 0)
     /\ \E a_reduced \in {x \in Word : mod(a, n, x)}, k, d, e \in Word :
          /\ mul_add_words_512(a_reduced, b, 0, d, e)
          /\ mul_add_words_512(k, n, r, d, e)}

\* The sign byte that is looked up belongs to the byte that an index of one byte selects; it
\* is taken from the value by the low byte of any index, and has to be 0 for the others.
HasSignByte(index, value) ==
  AboveLowByte(index) # 0 /\ Byte(index, 0) < NBytes - 1
    => Byte(value, Byte(index, 0)) < ByteBase \div 2

\* The comparisons of the result with the value are made and dropped.
signextend(index, value) == {result \in Word : HasSignByte(index, value)}

cmp(op, a, b) ==
  LET swapped == op = "GT"
      lt == IF swapped THEN compare_word_lt(b, a) ELSE compare_word_lt(a, b)
  IN  {Bool(IF op = "EQ" THEN Hi(a) = Hi(b) /\ Lo(a) = Lo(b) ELSE lt)}

TopByteIsNegative(a) == Byte(a, NBytes - 1) >= ByteBase \div 2

scmp(op, a, b) ==
  LET x == IF op = "SGT" THEN b ELSE a
      y == IF op = "SGT" THEN a ELSE b
  IN  {Bool(IF TopByteIsNegative(x) # TopByteIsNegative(y)
            THEN TopByteIsNegative(x) ELSE compare_word_lt(x, y))}

iszero(a) == {Bool(Lo(a) + Hi(a) = 0)}

\* The fixed tables of bytes: AND, OR and XOR of two of them.
ByteTable(op, x, y) ==
  LET Ones(n) == Evm!OnesOf(n)
  IN  Evm!OfOnes(CASE op = "AND" -> Ones(x) \cap Ones(y)
                   [] op = "OR" -> Ones(x) \cup Ones(y)
                   [] op = "XOR" -> (Ones(x) \ Ones(y)) \cup (Ones(y) \ Ones(x)))

bitwise(op, a, b) ==
  {c \in Word : \A i \in 0 .. NBytes - 1 : Byte(c, i) = ByteTable(op, Byte(a, i), Byte(b, i))}

not_opcode(a) ==
  {b \in Word : \A i \in 0 .. NBytes - 1 :
     ByteTable("XOR", Byte(a, i), Byte(b, i)) = ByteBase - 1}

byte(index, value) ==
  {IF AboveLowByte(index) = 0 /\ index < NBytes THEN Byte(value, NBytes - 1 - index) ELSE 0}

\* check_witness of shl_shr.py: the divisor is 2 ^ shift, or 0 when the shift has
\* more than one byte.
check_shift(op, shift, quotient, divisor, remainder, dividend) ==
  LET check == mul_add_words(quotient, divisor, remainder, dividend)
  IN  /\ (divisor # 0) = (AboveLowByte(shift) = 0)
      /\ divisor # 0 => /\ compare_word_lt(remainder, divisor)
                        /\ <<Byte(shift, 0), Lo(divisor), Hi(divisor)>> \in Pow2
      /\ op = "SHL" => remainder = 0
      /\ check.holds
      /\ op = "SHR" => check.overflow = 0

shl_shr(op, shift, a) ==
  {IF op = "SHR" /\ w.divisor = 0 THEN 0 ELSE w.push :
     w \in {w \in [divisor : Word, push : Word] : \E remainder \in Word :
       IF op = "SHL" THEN check_shift(op, shift, a, w.divisor, remainder, w.push)
       ELSE check_shift(op, shift, w.push, w.divisor, remainder, a)}}

\* check_witness of sar.py: the splits of a limb at shf_mod64 into lo and hi bits,
\* and limb i of the result (from 1), merged after a shift by shf_div64 limbs.
SplitsOf(limb, p_lo, p_hi) ==
  {s \in (0 .. Base - 1) \X (0 .. Base - 1) :
     limb = s[1] + s[2] * p_lo /\ s[1] < p_lo /\ s[2] < p_hi}

MergedLimb(i, shift, split, shf_div64, p_hi, is_neg) ==
  LET from == i + shf_div64
  IN  IF AboveLowByte(shift) = 0 /\ from <= 4
      THEN IF from < 4 THEN split[from][2] + split[from + 1][1] * p_hi
           ELSE split[4][2] + is_neg * (Base - p_hi)
      ELSE is_neg * (Base - 1)

sar(shift, a) ==
  LET is_neg == Bool(TopByteIsNegative(a))
      Splits(i, p) == SplitsOf(Limb(a, i), p.lo, p.hi)
      Powers == {p \in [div : 0 .. 3, mod : 0 .. machine.limb - 1,
                        lo : 0 .. Base, hi : 0 .. Base] :
                   /\ Byte(shift, 0) = p.mod + p.div * machine.limb
                   /\ <<p.mod, p.lo, 0>> \in Pow2
                   /\ <<machine.limb - p.mod, p.hi, 0>> \in Pow2}
      Merged(p, split) ==
        LET limb(i) == MergedLimb(i, shift, split, p.div, p.hi, is_neg)
        IN  limb(1) + limb(2) * Base + limb(3) * HalfBase + limb(4) * HalfBase * Base
  IN  UNION {{Merged(p, split) :
                split \in Splits(0, p) \X Splits(1, p) \X Splits(2, p) \X Splits(3, p)} \cap Word :
             p \in Powers}

Pushes(op, a) ==
  CASE op \in {"ADD", "SUB"} -> add_sub(op, a[1], a[2])
    [] op = "MUL" -> mul(a[1], a[2])
    [] op \in {"DIV", "MOD"} -> div_mod(op, a[1], a[2])
    [] op \in {"SDIV", "SMOD"} -> sdiv_smod(op, a[1], a[2])
    [] op = "ADDMOD" -> addmod(a[1], a[2], a[3])
    [] op = "MULMOD" -> mulmod(a[1], a[2], a[3])
    [] op = "SIGNEXTEND" -> signextend(a[1], a[2])
    [] op \in {"LT", "GT", "EQ"} -> cmp(op, a[1], a[2])
    [] op \in {"SLT", "SGT"} -> scmp(op, a[1], a[2])
    [] op = "ISZERO" -> iszero(a[1])
    [] op = "NOT" -> not_opcode(a[1])
    [] op \in {"AND", "OR", "XOR"} -> bitwise(op, a[1], a[2])
    [] op = "BYTE" -> byte(a[1], a[2])
    [] op \in {"SHL", "SHR"} -> shl_shr(op, a[1], a[2])
    [] op = "SAR" -> sar(a[1], a[2])

-----------------------------------------------------------------------------
(* The steps. *)

Pops(op) == IF op \in {"ADDMOD", "MULMOD"} THEN 3 ELSE IF op \in {"ISZERO", "NOT"} THEN 1 ELSE 2

\* Faulty: the sign of a stack that grows upwards.
StackPointerDelta_upwards(op) == 1 - Pops(op)

StackPointerDelta(op) ==
  IF op \in {"ADDMOD", "MULMOD"} THEN 2 ELSE IF op \in {"ISZERO", "NOT"} THEN 0 ELSE 1

\* The cells above the stack pointer hold nothing that is read before it is written.
Cleared(cell, sp) == [i \in DOMAIN cell |-> IF i < sp THEN 0 ELSE cell[i]]

push ==
  /\ stack_pointer > 0
  /\ \E x \in machine.operands : cells' = [cells EXCEPT ![stack_pointer - 1] = x]
  /\ stack_pointer' = stack_pointer - 1
  /\ UNCHANGED machine

pop ==
  /\ stack_pointer < machine.depth
  /\ stack_pointer' = stack_pointer + 1
  /\ cells' = Cleared(cells, stack_pointer')
  /\ UNCHANGED machine

Execute(op) ==
  LET top == stack_pointer + Pops(op) - 1
  IN  /\ top < machine.depth
      /\ stack_pointer' = stack_pointer + StackPointerDelta(op)
      /\ \E z \in Pushes(op, [i \in 1 .. Pops(op) |-> cells[stack_pointer + i - 1]]) :
           cells' = Cleared([cells EXCEPT ![top] = z], stack_pointer')
      /\ UNCHANGED machine

Init ==
  /\ machine \in Machines
  /\ cells = [i \in 0 .. machine.depth - 1 |-> 0]
  /\ stack_pointer = machine.depth

Compute == \E op \in machine.opcodes : Execute(op)
Next == push \/ pop \/ Compute
Spec == Init /\ [][Next]_vars

-----------------------------------------------------------------------------
(* Properties. *)

\* The stack pointer stays in the stack and the cells hold words.
TypeOK ==
  /\ machine \in Machines
  /\ stack_pointer \in 0 .. machine.depth
  /\ cells \in [0 .. machine.depth - 1 -> Word]

\* Whatever the witnesses, a step pushes the word the EVM would push and moves the
\* stack pointer past the words it popped: no step accepts a wrong result.
ImplementsEvm == Evm!Spec

\* The constraints are not too strong: for every stack the EVM's result is one
\* that some witness satisfies, so no honest computation is impossible to prove.
ResultsAccepted ==
  \A op \in machine.opcodes :
    Pops(op) <= machine.depth - stack_pointer => Evm!Result(op, stack) \in Pushes(op, stack)
=============================================================================
