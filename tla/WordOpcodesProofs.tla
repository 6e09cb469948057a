--------------------------- MODULE WordOpcodesProofs ---------------------------
(***************************************************************************)
(* Proofs about the opcodes on words, for every size of limb and byte and  *)
(* every depth of the stack: that the cells hold words, that the steps of  *)
(* all opcodes but the four whose constraints the code gets wrong, and of  *)
(* SDIV, SMOD and MULMOD with words that they decide, are the steps of     *)
(* WordMachine, and that the constraints can be satisfied.  Each opcode    *)
(* has a lemma (its name ends in Exact) which says that the set of words   *)
(* its constraints allow has the EVM's result for its only element, or one *)
(* (its name ends in Honest) which says that the result is an element.     *)
(***************************************************************************)
EXTENDS WordOpcodes, WellFoundedInduction, SequenceTheorems, FiniteSetTheorems, TLAPS

-----------------------------------------------------------------------------
(* Induction over sets of naturals.                                        *)

Less == {p \in Nat \X Nat : p[1] < p[2]}

LEMMA Least ==
  ASSUME NEW T \in SUBSET Nat, T # {}
  PROVE  \E m \in T : \A n \in T : m <= n
<1>1. IsWellFoundedOn(Less, Nat)
  BY NatLessThanWellFounded DEF OpToRel, Less
<1>2. PICK m \in T : \A n \in T : <<n, m>> \notin Less
  BY <1>1, WFMin
<1>3. \A n \in T : ~(n < m)
  BY <1>2 DEF Less
<1> QED
  BY <1>3

LEMMA Induct ==
  ASSUME NEW S, 0 \in S, \A n \in Nat : n \in S => n + 1 \in S
  PROVE  \A n \in Nat : n \in S
<1> SUFFICES ASSUME Nat \ S # {} PROVE FALSE
  OBVIOUS
<1>1. (Nat \ S) \in SUBSET Nat
  OBVIOUS
<1>2. PICK m \in Nat \ S : \A n \in Nat \ S : m <= n
  BY <1>1, Least
<1>3. m # 0 /\ m - 1 \in Nat
  BY <1>2
<1>4. m - 1 \in S
  BY <1>2, <1>3
<1> QED
  BY <1>2, <1>3, <1>4

-----------------------------------------------------------------------------
(* Powers.  A recursive function is the function that satisfies its        *)
(* equation, so a table of powers has to be shown to exist.                *)

\* g holds the powers of x up to n.
PowersUpTo(g, x, n) ==
  g = [k \in 0 .. n |-> IF k = 0 THEN 1 ELSE x * g[k - 1]]

LEMMA PowersInNat ==
  ASSUME NEW x \in Nat, NEW n \in Nat, NEW g, PowersUpTo(g, x, n)
  PROVE  \A k \in 0 .. n : g[k] \in Nat
<1> DEFINE S == {k \in Nat : k <= n => g[k] \in Nat}
<1>1. 0 \in S
  BY DEF PowersUpTo
<1>2. ASSUME NEW k \in Nat, k \in S, k + 1 <= n
      PROVE  g[k + 1] \in Nat
  <2>1. g[k + 1] = x * g[k]
    <3>1. k + 1 \in 0 .. n /\ k + 1 # 0 /\ (k + 1) - 1 = k
      BY <1>2
    <3> QED
      BY <3>1 DEF PowersUpTo
  <2>2. g[k] \in Nat
    BY <1>2
  <2> QED
    BY <2>1, <2>2
<1>3. \A k \in Nat : k \in S => k + 1 \in S
  BY <1>2
<1>4. \A k \in Nat : k \in S
  <2> HIDE DEF S
  <2> QED
    BY <1>1, <1>3, Induct
<1> QED
  BY <1>4

LEMMA PowersExist ==
  ASSUME NEW x \in Nat, NEW n \in Nat
  PROVE  \E g : PowersUpTo(g, x, n)
<1> DEFINE S == {m \in Nat : \E g : PowersUpTo(g, x, m)}
<1>1. 0 \in S
  <2>1. PowersUpTo([k \in 0 .. 0 |-> 1], x, 0)
    BY DEF PowersUpTo
  <2> QED
    BY <2>1
<1>2. ASSUME NEW m \in Nat, m \in S
      PROVE  m + 1 \in S
  <2>1. PICK g : PowersUpTo(g, x, m)
    BY <1>2
  <2> DEFINE h == [k \in 0 .. m + 1 |-> IF k = m + 1 THEN x * g[m] ELSE g[k]]
  <2>2. h = [k \in 0 .. m + 1 |-> IF k = 0 THEN 1 ELSE x * h[k - 1]]
    <3> SUFFICES ASSUME NEW k \in 0 .. m + 1
                 PROVE  h[k] = IF k = 0 THEN 1 ELSE x * h[k - 1]
      OBVIOUS
    <3>1. CASE k = m + 1
      <4>1. k # 0 /\ k - 1 = m /\ m \in 0 .. m + 1 /\ m # m + 1
        BY <3>1
      <4> QED
        BY <3>1, <4>1
    <3>2. CASE k # m + 1 /\ k # 0
      <4>1. k \in 0 .. m /\ k - 1 \in 0 .. m + 1 /\ k - 1 # m + 1 /\ k # m + 1
        BY <3>2
      <4>2. h[k] = g[k] /\ h[k - 1] = g[k - 1]
        BY <4>1
      <4>3. g[k] = x * g[k - 1]
        BY <2>1, <3>2, <4>1 DEF PowersUpTo
      <4> QED
        BY <3>2, <4>2, <4>3
    <3>3. CASE k = 0
      <4>1. 0 \in 0 .. m /\ 0 # m + 1
        OBVIOUS
      <4> QED
        BY <2>1, <3>3, <4>1 DEF PowersUpTo
    <3> QED
      BY <3>1, <3>2, <3>3
  <2>3. PowersUpTo(h, x, m + 1)
    BY <2>2 DEF PowersUpTo
  <2> HIDE DEF h
  <2> QED
    BY <2>3
<1>3. n \in S
  <2> HIDE DEF S
  <2> QED
    BY <1>1, <1>2, Induct
<1> QED
  BY <1>3

LEMMA PowersAgree ==
  ASSUME NEW x \in Nat, NEW m \in Nat, NEW n \in Nat, NEW g, NEW h,
         PowersUpTo(g, x, m), PowersUpTo(h, x, n)
  PROVE  \A k \in Nat : k <= m /\ k <= n => g[k] = h[k]
<1> DEFINE S == {k \in Nat : k <= m /\ k <= n => g[k] = h[k]}
<1>1. 0 \in S
  BY DEF PowersUpTo
<1>2. ASSUME NEW k \in Nat, k \in S, k + 1 <= m, k + 1 <= n
      PROVE  g[k + 1] = h[k + 1]
  <2>1. k + 1 \in 0 .. m /\ k + 1 \in 0 .. n /\ k + 1 # 0 /\ (k + 1) - 1 = k
    BY <1>2
  <2>2. g[k + 1] = x * g[k] /\ h[k + 1] = x * h[k]
    BY <2>1 DEF PowersUpTo
  <2>3. g[k] = h[k]
    BY <1>2
  <2> QED
    BY <2>2, <2>3
<1>3. \A k \in Nat : k \in S => k + 1 \in S
  BY <1>2
<1>4. \A k \in Nat : k \in S
  <2> HIDE DEF S
  <2> QED
    BY <1>1, <1>3, Induct
<1> QED
  BY <1>4

\* The last entry of any table of powers is Power.
LEMMA PowerIs ==
  ASSUME NEW x \in Nat, NEW n \in Nat
  PROVE  \E g : PowersUpTo(g, x, n) /\ Evm!Power(x, n) = g[n]
<1> DEFINE p == CHOOSE g : PowersUpTo(g, x, n)
<1>1. PowersUpTo(p, x, n)
  BY PowersExist
<1>2. Evm!Power(x, n) = p[n]
  BY DEF Evm!Power, PowersUpTo
<1> HIDE DEF p
<1> QED
  BY <1>1, <1>2

LEMMA PowerSteps ==
  ASSUME NEW x \in Nat
  PROVE  /\ Evm!Power(x, 0) = 1
         /\ \A n \in Nat : /\ Evm!Power(x, n) \in Nat
                           /\ Evm!Power(x, n + 1) = x * Evm!Power(x, n)
<1>1. Evm!Power(x, 0) = 1
  <2>1. PICK g : PowersUpTo(g, x, 0) /\ Evm!Power(x, 0) = g[0]
    BY PowerIs
  <2> QED
    BY <2>1 DEF PowersUpTo
<1>2. ASSUME NEW n \in Nat
      PROVE  Evm!Power(x, n) \in Nat /\ Evm!Power(x, n + 1) = x * Evm!Power(x, n)
  <2>1. PICK g : PowersUpTo(g, x, n) /\ Evm!Power(x, n) = g[n]
    BY PowerIs
  <2>2. PICK h : PowersUpTo(h, x, n + 1) /\ Evm!Power(x, n + 1) = h[n + 1]
    BY PowerIs
  <2>3. g[n] \in Nat
    BY <2>1, PowersInNat
  <2>4. h[n + 1] = x * h[n]
    <3>1. n + 1 \in 0 .. n + 1 /\ n + 1 # 0 /\ (n + 1) - 1 = n
      OBVIOUS
    <3> QED
      BY <2>2, <3>1 DEF PowersUpTo
  <2>5. g[n] = h[n]
    <3>1. n <= n /\ n <= n + 1 /\ n + 1 \in Nat
      OBVIOUS
    <3> QED
      BY <2>1, <2>2, <3>1, PowersAgree
  <2> QED
    BY <2>1, <2>2, <2>3, <2>4, <2>5
<1> QED
  BY <1>1, <1>2

\* Exponents add up.
LEMMA PowerAdd ==
  ASSUME NEW x \in Nat, NEW m \in Nat, NEW n \in Nat
  PROVE  Evm!Power(x, m + n) = Evm!Power(x, m) * Evm!Power(x, n)
<1> DEFINE S == {k \in Nat : Evm!Power(x, m + k) = Evm!Power(x, m) * Evm!Power(x, k)}
<1>0. \A k \in Nat : Evm!Power(x, k) \in Nat
  BY PowerSteps
<1>1. 0 \in S
  <2>1. m + 0 = m /\ Evm!Power(x, m) * 1 = Evm!Power(x, m)
    BY <1>0
  <2> QED
    BY <2>1, PowerSteps
<1>2. ASSUME NEW k \in Nat, k \in S
      PROVE  k + 1 \in S
  <2> DEFINE a == Evm!Power(x, m)   b == Evm!Power(x, k)
  <2>1. a \in Nat /\ b \in Nat
    BY <1>0
  <2>2. Evm!Power(x, m + k) = a * b
    BY <1>2
  <2> DEFINE mk == m + k
  <2>3. mk \in Nat /\ m + (k + 1) = mk + 1
    OBVIOUS
  <2>4. Evm!Power(x, mk) = a * b
    BY <2>2
  <2> HIDE DEF mk
  <2>5. Evm!Power(x, mk + 1) = x * Evm!Power(x, mk)
    BY <2>3, PowerSteps
  <2>6. Evm!Power(x, k + 1) = x * b
    BY PowerSteps
  <2> HIDE DEF a, b
  <2>7. x * (a * b) = a * (x * b)
    BY <2>1
  <2>8. Evm!Power(x, m + (k + 1)) = a * Evm!Power(x, k + 1)
    BY <2>3, <2>4, <2>5, <2>6, <2>7
  <2> QED
    BY <2>8 DEF a
<1>3. n \in S
  <2> HIDE DEF S
  <2> QED
    BY <1>1, <1>2, Induct
<1> QED
  BY <1>3

LEMMA PowerPositive ==
  ASSUME NEW x \in Nat \ {0}, NEW n \in Nat
  PROVE  Evm!Power(x, n) \in Nat \ {0}
<1> DEFINE S == {k \in Nat : Evm!Power(x, k) # 0}
<1>1. 0 \in S
  BY PowerSteps
<1>2. ASSUME NEW k \in Nat, k \in S
      PROVE  k + 1 \in S
  <2> DEFINE b == Evm!Power(x, k)
  <2>1. b \in Nat /\ b # 0 /\ Evm!Power(x, k + 1) = x * b
    BY <1>2, PowerSteps
  <2> HIDE DEF b
  <2>2. x * b # 0
    BY <2>1
  <2> QED
    BY <2>1, <2>2
<1>3. n \in S
  <2> HIDE DEF S
  <2> QED
    BY <1>1, <1>2, Induct
<1> QED
  BY <1>3, PowerSteps

-----------------------------------------------------------------------------
(* Division.                                                               *)

\* q is the quotient of u by n and r the remainder.
Divided(u, n, q, r) ==
  q \in Int /\ r \in 0 .. n - 1 /\ u = r + q * n /\ (u \in Nat => q \in Nat)

LEMMA DivMod ==
  ASSUME NEW u \in Int, NEW n \in Nat \ {0}, NEW q, NEW r, Divided(u, n, q, r)
  PROVE  u % n = r /\ u \div n = q
BY DEF Divided

LEMMA DivDiv ==
  ASSUME NEW u \in Nat, NEW m \in Nat \ {0}, NEW n \in Nat \ {0}
  PROVE  (u \div m) \div n = u \div (m * n)
<1> DEFINE q == u \div m   r == u % m   p == q \div n   s == q % n
<1>0. Divided(u, m, q, r)
  BY DEF Divided
<1>1. q \in Nat /\ r \in 0 .. m - 1 /\ u = r + q * m
  BY <1>0 DEF Divided
<1> HIDE DEF q, r
<1>a. Divided(q, n, p, s)
  BY <1>1 DEF Divided
<1>2. p \in Nat /\ s \in 0 .. n - 1 /\ q = s + p * n
  BY <1>1, <1>a DEF Divided
<1> HIDE DEF p, s
<1> DEFINE mn == m * n   t == r + s * m
<1>3. mn \in Nat \ {0} /\ t \in Nat /\ u = t + p * mn
  BY <1>1, <1>2
<1>4. t < mn
  <2>1. s * m + m <= m * n
    BY <1>2
  <2> QED
    BY <1>1, <1>2, <2>1
<1> HIDE DEF mn, t
<1>5. u \div mn = p
  <2>1. Divided(u, mn, p, t)
    BY <1>2, <1>3, <1>4 DEF Divided
  <2> QED
    BY <1>3, <2>1, DivMod
<1> QED
  BY <1>5 DEF mn, p, q

\* The smaller multiple leaves room for a remainder.
LEMMA ProductsOrdered ==
  ASSUME NEW p \in Int, NEW q \in Int, NEW n \in Nat, p < q
  PROVE  p * n + n <= q * n
OBVIOUS

\* What is less than a product is a number of its multiples.
LEMMA DivLess ==
  ASSUME NEW u \in Nat, NEW m \in Nat, NEW n \in Nat \ {0}, u < m * n
  PROVE  u \div n \in 0 .. m - 1
<1> DEFINE q == u \div n   r == u % n
<1>0. Divided(u, n, q, r)
  BY DEF Divided
<1>1. q \in Nat /\ r \in Nat /\ u = r + q * n
  BY <1>0 DEF Divided
<1> HIDE DEF q, r
<1>2. ~(m <= q)
  <2> SUFFICES ASSUME m <= q PROVE FALSE
    OBVIOUS
  <2>1. m * n <= q * n
    BY <1>1
  <2> QED
    BY <1>1, <2>1
<1> QED
  BY <1>1, <1>2 DEF q

-----------------------------------------------------------------------------
(* The numbers of a machine.                                               *)

LEMMA Sizes ==
  ASSUME machine \in Machines
  PROVE  /\ machine.limb \in Nat \ {0} /\ machine.depth \in Nat
         /\ Base \in Nat /\ Base >= 2
         /\ HalfBase = Base * Base /\ HalfBase \in Nat /\ HalfBase >= 4
         /\ Modulus = HalfBase * HalfBase /\ Modulus \in Nat /\ Modulus >= 16
         /\ HalfBase = Evm!Power(2, 2 * machine.limb) /\ Evm!Modulus = Modulus
         /\ Bits \in Nat /\ Bits >= 4 /\ Bits % 2 = 0
<1> DEFINE l == machine.limb
<1>1. l \in Nat \ {0} /\ machine.depth \in Nat
  BY MachinesAssumption DEF MachinesAssumption
<1> HIDE DEF l
<1>2. Base \in Nat /\ Base >= 2
  <2> DEFINE k == l - 1
  <2>1. k \in Nat /\ l = k + 1
    BY <1>1
  <2> HIDE DEF k
  <2>2. Evm!Power(2, k + 1) = 2 * Evm!Power(2, k) /\ Evm!Power(2, k) \in Nat \ {0}
    BY <2>1, PowerSteps, PowerPositive
  <2>3. Base = Evm!Power(2, k + 1)
    BY <2>1 DEF Base, l
  <2> QED
    BY <2>2, <2>3
<1>3. HalfBase = Evm!Power(2, 2 * l)
  <2>1. Evm!Power(2, l + l) = Evm!Power(2, l) * Evm!Power(2, l)
    BY <1>1, PowerAdd
  <2>2. 2 * l = l + l
    BY <1>1
  <2> QED
    BY <2>1, <2>2 DEF HalfBase, Base, l
<1>4. Modulus = Evm!Power(2, 4 * l)
  <2> DEFINE m == 2 * l
  <2>1. m \in Nat /\ 4 * l = m + m
    BY <1>1
  <2>2. HalfBase = Evm!Power(2, m)
    BY <1>3
  <2> HIDE DEF m
  <2>3. Evm!Power(2, m + m) = Evm!Power(2, m) * Evm!Power(2, m)
    BY <2>1, PowerAdd
  <2> QED
    BY <2>1, <2>2, <2>3 DEF Modulus
<1>5. HalfBase \in Nat /\ HalfBase >= 4
  BY <1>2 DEF HalfBase
<1>6. Modulus \in Nat /\ Modulus >= 16
  BY <1>5 DEF Modulus
<1>7. Evm!Modulus = Modulus
  BY <1>4 DEF Evm!Modulus, Evm!Bits, l
<1>8. Bits \in Nat /\ Bits >= 4 /\ Bits % 2 = 0
  BY <1>1 DEF Bits, l
<1> QED
  BY <1>1, <1>2, <1>3, <1>5, <1>6, <1>7, <1>8 DEF HalfBase, Modulus, l

LEMMA Halves ==
  ASSUME machine \in Machines, NEW x \in Word
  PROVE  /\ Lo(x) \in 0 .. HalfBase - 1 /\ Hi(x) \in 0 .. HalfBase - 1
         /\ x = Lo(x) + Hi(x) * HalfBase
<1>1. HalfBase \in Nat \ {0} /\ x \in Nat /\ x < HalfBase * HalfBase
  BY Sizes DEF Word
<1>2. x \div HalfBase \in 0 .. HalfBase - 1
  BY <1>1, DivLess
<1>3. Divided(x, HalfBase, x \div HalfBase, x % HalfBase)
  BY <1>1 DEF Divided
<1> QED
  BY <1>2, <1>3 DEF Lo, Hi, Divided

\* The powers of Base a limb is cut out with.
LEMMA LimbIs ==
  ASSUME machine \in Machines, NEW x
  PROVE  /\ Limb(x, 0) = (x \div 1) % Base /\ Limb(x, 1) = (x \div Base) % Base
         /\ Limb(x, 2) = (x \div HalfBase) % Base
         /\ Limb(x, 3) = (x \div (HalfBase * Base)) % Base
<1>1. Base \in Nat
  BY Sizes
<1>2. Evm!Power(Base, 0) = 1
  BY <1>1, PowerSteps
<1>3. Evm!Power(Base, 1) = Base
  <2>1. Evm!Power(Base, 0 + 1) = Base * Evm!Power(Base, 0)
    BY <1>1, PowerSteps
  <2> QED
    BY <1>1, <1>2, <2>1
<1>4. Evm!Power(Base, 2) = HalfBase
  <2>1. Evm!Power(Base, 1 + 1) = Base * Evm!Power(Base, 1)
    BY <1>1, PowerSteps
  <2> QED
    BY <1>1, <1>3, <2>1 DEF HalfBase
<1>5. Evm!Power(Base, 3) = HalfBase * Base
  <2>1. Evm!Power(Base, 2 + 1) = Base * Evm!Power(Base, 2)
    BY <1>1, PowerSteps
  <2>2. Base * HalfBase = HalfBase * Base
    BY <1>1, Sizes
  <2> QED
    BY <1>1, <1>4, <2>1, <2>2
<1> QED
  BY <1>2, <1>3, <1>4, <1>5 DEF Limb

LEMMA Limbs ==
  ASSUME machine \in Machines, NEW x \in Word
  PROVE  /\ Limb(x, 0) \in 0 .. Base - 1 /\ Limb(x, 1) \in 0 .. Base - 1
         /\ Limb(x, 2) \in 0 .. Base - 1 /\ Limb(x, 3) \in 0 .. Base - 1
         /\ Lo(x) = Limb(x, 0) + Limb(x, 1) * Base
         /\ Hi(x) = Limb(x, 2) + Limb(x, 3) * Base
<1> DEFINE B == Base   lo == Lo(x)   hi == Hi(x)
<1>1. B \in Nat \ {0} /\ HalfBase = B * B /\ HalfBase \in Nat \ {0} /\ x \in Nat
  BY Sizes DEF Word
<1>2. lo \in Nat /\ hi \in Nat /\ lo < B * B /\ hi < B * B /\ x = lo + hi * HalfBase
  BY <1>1, Halves
\* A half has two limbs.
<1>3. ASSUME NEW h \in Nat, h < B * B
      PROVE  /\ h % B \in 0 .. B - 1 /\ (h \div B) % B \in 0 .. B - 1
             /\ h = (h % B) + ((h \div B) % B) * B
  <2>1. h \div B \in 0 .. B - 1
    BY <1>1, <1>3, DivLess
  <2> DEFINE q == h \div B
  <2>2. Divided(h, B, q, h % B)
    BY <1>1 DEF Divided
  <2> HIDE DEF q
  <2>3. Divided(q, B, 0, q)
    BY <1>1, <2>1 DEF Divided, q
  <2>4. q % B = q
    <3>1. q \in Int
      BY <2>1 DEF q
    <3> QED
      BY <1>1, <2>3, <3>1, DivMod
  <2> QED
    BY <2>1, <2>2, <2>4 DEF q, Divided
<1>4. Limb(x, 2) = hi % B /\ Limb(x, 3) = (hi \div B) % B
  <2>1. (x \div HalfBase) \div B = x \div (HalfBase * B)
    BY <1>1, DivDiv
  <2> QED
    BY <2>1, LimbIs DEF Hi
<1>5. Limb(x, 0) = lo % B /\ Limb(x, 1) = (lo \div B) % B
  <2> DEFINE r == lo % B   q == lo \div B   s == q % B   p == q \div B
  <2>a. Divided(lo, B, q, r)
    <3> HIDE DEF lo, B
    <3> QED
      BY <1>1, <1>2 DEF Divided
  <2>b. q \in Nat
    BY <1>2, <2>a DEF Divided
  <2> HIDE DEF r, q
  <2>c. Divided(q, B, p, s)
    BY <1>1, <2>b DEF Divided
  <2> HIDE DEF s, p
  <2>1. /\ r \in 0 .. B - 1 /\ q \in Nat /\ lo = r + q * B
        /\ s \in 0 .. B - 1 /\ p \in Nat /\ q = s + p * B
    BY <1>2, <2>a, <2>b, <2>c DEF Divided
  <2> DEFINE y == q + hi * B   z == p + hi
  <2>2. x = r + y * B /\ y = s + z * B /\ y \in Nat /\ z \in Nat
    BY <1>1, <1>2, <2>1
  <2> HIDE DEF y, z, lo, hi, B
  <2>3. x % B = r /\ x \div B = y
    <3>1. Divided(x, B, y, r)
      BY <2>1, <2>2 DEF Divided
    <3> QED
      BY <1>1, <3>1, DivMod
  <2>4. y % B = s
    <3>1. Divided(y, B, z, s)
      BY <2>1, <2>2 DEF Divided
    <3> QED
      BY <1>1, <2>2, <3>1, DivMod
  <2>5. x \div 1 = x
    BY <1>1
  <2>6. Limb(x, 0) = x % B /\ Limb(x, 1) = (x \div B) % B
    BY <2>5, LimbIs DEF B
  <2> QED
    BY <2>3, <2>4, <2>6 DEF r, q, s
<1> QED
  BY <1>2, <1>3, <1>4, <1>5

-----------------------------------------------------------------------------
(* The gadgets.                                                            *)

\* The comparison by halves compares words.
LEMMA CompareIs ==
  ASSUME machine \in Machines, NEW x \in Word, NEW y \in Word
  PROVE  compare_word_lt(x, y) <=> x < y
<1> DEFINE H == HalfBase   l == Lo(x)   h == Hi(x)   m == Lo(y)   k == Hi(y)
<1>1. /\ H \in Nat /\ l \in 0 .. H - 1 /\ h \in Nat /\ x = l + h * H
      /\ m \in 0 .. H - 1 /\ k \in Nat /\ y = m + k * H
  BY Sizes, Halves
<1>2. compare_word_lt(x, y) <=> h < k \/ (h = k /\ l < m)
  BY DEF compare_word_lt
<1> HIDE DEF H, l, h, m, k
<1>3. CASE h < k
  <2>1. h * H + H <= k * H
    BY <1>1, <1>3
  <2> QED
    BY <1>1, <1>2, <1>3, <2>1
<1>4. CASE h = k
  BY <1>1, <1>2, <1>4
<1>5. CASE k < h
  <2>1. k * H + H <= h * H
    BY <1>1, <1>5
  <2> QED
    BY <1>1, <1>2, <1>5, <2>1
<1> QED
  BY <1>1, <1>3, <1>4, <1>5

\* The sum with its carry.
IsSum(x, y, s) ==
  /\ s.sum \in Word /\ s.carry \in {0, 1}
  /\ x + y = s.sum + s.carry * Modulus

LEMMA AddWords ==
  ASSUME machine \in Machines, NEW x \in Word, NEW y \in Word
  PROVE  IsSum(x, y, add_words(x, y))
<1> DEFINE H == HalfBase   l == Lo(x) + Lo(y)   k == l \div H   u == l % H
           h == Hi(x) + Hi(y) + k   c == h \div H   v == h % H
<1>1. /\ H \in Nat \ {0} /\ Modulus = H * H
      /\ l \in 0 .. 2 * H - 2 /\ Hi(x) + Hi(y) \in 0 .. 2 * H - 2
      /\ x = Lo(x) + Hi(x) * H /\ y = Lo(y) + Hi(y) * H
      /\ Lo(x) \in Nat /\ Lo(y) \in Nat /\ Hi(x) \in Nat /\ Hi(y) \in Nat
  BY Sizes, Halves
<1>2. Divided(l, H, k, u) /\ k \in {0, 1}
  <2> HIDE DEF H, l
  <2> QED
    BY <1>1 DEF Divided
<1>3. h \in 0 .. 2 * H - 1
  BY <1>1, <1>2
<1>4. Divided(h, H, c, v) /\ c \in {0, 1}
  <2> HIDE DEF H, h
  <2> QED
    BY <1>1, <1>3 DEF Divided
<1>5. add_words(x, y) = [sum |-> u + v * H, carry |-> c]
  BY DEF add_words
<1>6. l = u + k * H /\ h = v + c * H /\ u \in 0 .. H - 1 /\ v \in 0 .. H - 1
  BY <1>2, <1>4 DEF Divided
<1> HIDE DEF u, k, v, c
<1>7. x + y = (u + v * H) + c * (H * H)
  <2> DEFINE a == Lo(x)   b == Hi(x)   d == Lo(y)   e == Hi(y)
  <2>1. /\ a \in Nat /\ b \in Nat /\ d \in Nat /\ e \in Nat /\ x = a + b * H /\ y = d + e * H
        /\ a + d = u + k * H /\ b + e + k = v + c * H /\ u \in Int /\ v \in Int
        /\ k \in Int /\ c \in Int /\ H \in Int
    BY <1>1, <1>2, <1>4, <1>6
  <2> HIDE DEF a, b, d, e, H
  <2>2. a + d + (b + e + k) * H = u + k * H + (v + c * H) * H
    BY <2>1
  <2> QED
    BY <2>1, <2>2
<1>8. u + v * H \in 0 .. H * H - 1
  <2> HIDE DEF H
  <2>1. v * H + H <= H * H
    BY <1>1, <1>6
  <2> QED
    BY <1>1, <1>6, <2>1
<1> QED
  BY <1>1, <1>4, <1>5, <1>7, <1>8 DEF IsSum, Word

-----------------------------------------------------------------------------
(* Products.                                                               *)

\* n factors of two limbs.
Few(t, n) == t \in Nat /\ t <= n * ((Base - 1) * (Base - 1))

\* The product of two words in powers of Base, by the terms that carry.
IsProduct(p, t0, t1, t2, t3, t4, t5, t6) ==
  p = (t0 + t1 * Base) + (t2 + t3 * Base) * HalfBase
        + (t4 + t5 * Base + t6 * HalfBase) * Modulus

LEMMA TermsAre ==
  ASSUME NEW x, NEW y,
         \A i, j \in 0 .. 3 : Limb(x, i) * Limb(y, j) \in Nat
  PROVE  /\ Terms(x, y, 0) = Limb(x, 0) * Limb(y, 0)
         /\ Terms(x, y, 1) = Limb(x, 0) * Limb(y, 1) + Limb(x, 1) * Limb(y, 0)
         /\ Terms(x, y, 2) = Limb(x, 0) * Limb(y, 2) + Limb(x, 1) * Limb(y, 1)
                             + Limb(x, 2) * Limb(y, 0)
         /\ Terms(x, y, 3) = Limb(x, 0) * Limb(y, 3) + Limb(x, 1) * Limb(y, 2)
                             + Limb(x, 2) * Limb(y, 1) + Limb(x, 3) * Limb(y, 0)
         /\ Terms(x, y, 4) = Limb(x, 1) * Limb(y, 3) + Limb(x, 2) * Limb(y, 2)
                             + Limb(x, 3) * Limb(y, 1)
         /\ Terms(x, y, 5) = Limb(x, 2) * Limb(y, 3) + Limb(x, 3) * Limb(y, 2)
         /\ Terms(x, y, 6) = Limb(x, 3) * Limb(y, 3)
BY DEF Terms

LEMMA Product ==
  ASSUME machine \in Machines, NEW x \in Word, NEW y \in Word
  PROVE  /\ IsProduct(x * y, Terms(x, y, 0), Terms(x, y, 1), Terms(x, y, 2), Terms(x, y, 3),
                      Terms(x, y, 4), Terms(x, y, 5), Terms(x, y, 6))
         /\ Few(Terms(x, y, 0), 1) /\ Few(Terms(x, y, 1), 2) /\ Few(Terms(x, y, 2), 3)
         /\ Few(Terms(x, y, 3), 4) /\ Few(Terms(x, y, 4), 3) /\ Few(Terms(x, y, 5), 2)
         /\ Few(Terms(x, y, 6), 1)
<1> DEFINE B == Base
           a0 == Limb(x, 0)   a1 == Limb(x, 1)   a2 == Limb(x, 2)   a3 == Limb(x, 3)
           b0 == Limb(y, 0)   b1 == Limb(y, 1)   b2 == Limb(y, 2)   b3 == Limb(y, 3)
<1>1. /\ B \in Nat \ {0}
      /\ a0 \in 0 .. B - 1 /\ a1 \in 0 .. B - 1 /\ a2 \in 0 .. B - 1 /\ a3 \in 0 .. B - 1
      /\ b0 \in 0 .. B - 1 /\ b1 \in 0 .. B - 1 /\ b2 \in 0 .. B - 1 /\ b3 \in 0 .. B - 1
  BY Sizes, Limbs
<1>2. /\ x = (a0 + a1 * B) + (a2 + a3 * B) * (B * B)
      /\ y = (b0 + b1 * B) + (b2 + b3 * B) * (B * B)
  BY Sizes, Limbs, Halves
<1>3. \A i, j \in 0 .. 3 : Limb(x, i) * Limb(y, j) \in Nat
  <2>1. \A i \in 0 .. 3 : i = 0 \/ i = 1 \/ i = 2 \/ i = 3
    OBVIOUS
  <2>2. \A i \in 0 .. 3 : Limb(x, i) \in Nat /\ Limb(y, i) \in Nat
    BY <1>1, <2>1
  <2>3. \A m, n \in Nat : m * n \in Nat
    OBVIOUS
  <2> QED
    BY <2>2, <2>3
<1>4. /\ Terms(x, y, 0) = a0 * b0
      /\ Terms(x, y, 1) = a0 * b1 + a1 * b0
      /\ Terms(x, y, 2) = a0 * b2 + a1 * b1 + a2 * b0
      /\ Terms(x, y, 3) = a0 * b3 + a1 * b2 + a2 * b1 + a3 * b0
      /\ Terms(x, y, 4) = a1 * b3 + a2 * b2 + a3 * b1
      /\ Terms(x, y, 5) = a2 * b3 + a3 * b2
      /\ Terms(x, y, 6) = a3 * b3
  BY <1>3, TermsAre
<1>5. HalfBase = B * B /\ Modulus = (B * B) * (B * B)
  BY Sizes
<1> HIDE DEF a0, a1, a2, a3, b0, b1, b2, b3, B
<1>6. x * y = (a0 * b0 + (a0 * b1 + a1 * b0) * B)
               + ((a0 * b2 + a1 * b1 + a2 * b0)
                  + (a0 * b3 + a1 * b2 + a2 * b1 + a3 * b0) * B) * (B * B)
               + (a1 * b3 + a2 * b2 + a3 * b1 + (a2 * b3 + a3 * b2) * B
                  + (a3 * b3) * (B * B)) * ((B * B) * (B * B))
  <2>1. /\ a0 \in Int /\ a1 \in Int /\ a2 \in Int /\ a3 \in Int /\ B \in Int
        /\ b0 \in Int /\ b1 \in Int /\ b2 \in Int /\ b3 \in Int
    BY <1>1
  <2> QED
    BY <1>2, <2>1
<1>7. \A a, b \in 0 .. B - 1 : a * b \in Nat /\ a * b <= (B - 1) * (B - 1)
  <2> SUFFICES ASSUME NEW a \in 0 .. B - 1, NEW b \in 0 .. B - 1
               PROVE  a * b \in Nat /\ a * b <= (B - 1) * (B - 1)
    OBVIOUS
  <2>1. a * b <= a * (B - 1) /\ a * (B - 1) <= (B - 1) * (B - 1)
    BY <1>1
  <2> QED
    BY <1>1, <2>1
<1> DEFINE S == (B - 1) * (B - 1)
<1>8. S \in Nat
  BY <1>1
<1>9. \A a, b \in 0 .. B - 1 : a * b \in Nat /\ a * b <= S
  BY <1>7
<1> HIDE DEF S
<1> DEFINE t0 == Terms(x, y, 0)   t1 == Terms(x, y, 1)   t2 == Terms(x, y, 2)
           t3 == Terms(x, y, 3)   t4 == Terms(x, y, 4)   t5 == Terms(x, y, 5)
           t6 == Terms(x, y, 6)
<1>10. IsProduct(x * y, t0, t1, t2, t3, t4, t5, t6)
  <2>1. x * y = (t0 + t1 * B) + (t2 + t3 * B) * (B * B)
                 + (t4 + t5 * B + t6 * (B * B)) * ((B * B) * (B * B))
    BY <1>4, <1>6, Zenon
  <2> HIDE DEF t0, t1, t2, t3, t4, t5, t6
  <2> QED
    BY <1>5, <2>1 DEF IsProduct, B
<1>11. /\ t0 \in Nat /\ t0 <= S /\ t1 \in Nat /\ t1 <= 2 * S
       /\ t2 \in Nat /\ t2 <= 3 * S /\ t3 \in Nat /\ t3 <= 4 * S
       /\ t4 \in Nat /\ t4 <= 3 * S /\ t5 \in Nat /\ t5 <= 2 * S
       /\ t6 \in Nat /\ t6 <= S
  <2>0. /\ t0 = a0 * b0
        /\ t1 = a0 * b1 + a1 * b0
        /\ t2 = a0 * b2 + a1 * b1 + a2 * b0
        /\ t3 = a0 * b3 + a1 * b2 + a2 * b1 + a3 * b0
        /\ t4 = a1 * b3 + a2 * b2 + a3 * b1
        /\ t5 = a2 * b3 + a3 * b2
        /\ t6 = a3 * b3
    BY <1>4
  <2> HIDE DEF t0, t1, t2, t3, t4, t5, t6
  <2>1. t0 \in Nat /\ t0 <= S
    <3>1. /\ a0 * b0 \in Nat /\ a0 * b0 <= S
      BY <1>1, <1>9
    <3> QED
      BY <1>8, <2>0, <3>1
  <2>2. t1 \in Nat /\ t1 <= 2 * S
    <3>1. /\ a0 * b1 \in Nat /\ a0 * b1 <= S
          /\ a1 * b0 \in Nat /\ a1 * b0 <= S
      BY <1>1, <1>9
    <3> QED
      BY <1>8, <2>0, <3>1
  <2>3. t2 \in Nat /\ t2 <= 3 * S
    <3>1. /\ a0 * b2 \in Nat /\ a0 * b2 <= S
          /\ a1 * b1 \in Nat /\ a1 * b1 <= S
          /\ a2 * b0 \in Nat /\ a2 * b0 <= S
      BY <1>1, <1>9
    <3> QED
      BY <1>8, <2>0, <3>1
  <2>4. t3 \in Nat /\ t3 <= 4 * S
    <3>1. /\ a0 * b3 \in Nat /\ a0 * b3 <= S
          /\ a1 * b2 \in Nat /\ a1 * b2 <= S
          /\ a2 * b1 \in Nat /\ a2 * b1 <= S
          /\ a3 * b0 \in Nat /\ a3 * b0 <= S
      BY <1>1, <1>9
    <3> QED
      BY <1>8, <2>0, <3>1
  <2>5. t4 \in Nat /\ t4 <= 3 * S
    <3>1. /\ a1 * b3 \in Nat /\ a1 * b3 <= S
          /\ a2 * b2 \in Nat /\ a2 * b2 <= S
          /\ a3 * b1 \in Nat /\ a3 * b1 <= S
      BY <1>1, <1>9
    <3> QED
      BY <1>8, <2>0, <3>1
  <2>6. t5 \in Nat /\ t5 <= 2 * S
    <3>1. /\ a2 * b3 \in Nat /\ a2 * b3 <= S
          /\ a3 * b2 \in Nat /\ a3 * b2 <= S
      BY <1>1, <1>9
    <3> QED
      BY <1>8, <2>0, <3>1
  <2>7. t6 \in Nat /\ t6 <= S
    <3>1. /\ a3 * b3 \in Nat /\ a3 * b3 <= S
      BY <1>1, <1>9
    <3> QED
      BY <1>8, <2>0, <3>1
  <2> QED
    BY <2>1, <2>2, <2>3, <2>4, <2>5, <2>6, <2>7
<1> HIDE DEF t0, t1, t2, t3, t4, t5, t6
<1>12. /\ Few(t0, 1) /\ Few(t1, 2) /\ Few(t2, 3) /\ Few(t3, 4) /\ Few(t4, 3)
       /\ Few(t5, 2) /\ Few(t6, 1)
  BY <1>8, <1>11 DEF Few, S, B
<1> QED
  BY <1>10, <1>12 DEF t0, t1, t2, t3, t4, t5, t6

\* p exceeds d by t moduli.
Exceeds(p, d, t) == p = d + t * Modulus

\* Two of the sums that carry, x and y being halves of words, k the carry from
\* before and n that of the sum.
IsSumOf(s, t, u, x, k, y) == s = t + u * Base + x + k - y
Carries(s, n) == s = n * HalfBase /\ n \in 0 .. 4 * Base - 4

\* The carry of a sum of limb products is in the range it is looked up in.
LEMMA CarryFits ==
  ASSUME machine \in Machines, NEW s \in Int, NEW n \in Int, s = n * HalfBase,
         NEW t, NEW u, Few(t, 3), Few(u, 4),
         NEW x \in 0 .. HalfBase - 1, NEW y \in 0 .. HalfBase - 1, NEW k \in 0 .. 4 * Base - 4,
         IsSumOf(s, t, u, x, k, y)
  PROVE  Carries(s, n)
<1> DEFINE B == Base   C == B - 1   S == C * C
<1>1. /\ B \in Nat /\ B >= 2 /\ HalfBase = B * B /\ C \in Nat /\ S \in Nat /\ B = C + 1
      /\ B * B = S + 2 * C + 1
  <2>1. B \in Nat /\ B >= 2 /\ HalfBase = B * B
    BY Sizes
  <2> HIDE DEF B
  <2>2. C \in Nat /\ B = C + 1
    BY <2>1
  <2> HIDE DEF C
  <2>3. S \in Nat /\ B * B = S + 2 * C + 1
    BY <2>2
  <2> QED
    BY <2>1, <2>2, <2>3
<1>2. /\ t \in Nat /\ t <= 3 * S /\ u \in Nat /\ u <= 4 * S
      /\ s = t + u * B + x + k - y /\ s = n * (B * B)
      /\ x \in Nat /\ x < B * B /\ y \in Nat /\ y < B * B /\ k \in Nat /\ k <= 4 * C
  BY <1>1 DEF Few, IsSumOf
<1> HIDE DEF B, C, S
<1> DEFINE H == B * B
<1>3. H \in Nat \ {0} /\ s = n * H /\ H = S + 2 * C + 1 /\ y < H /\ x < H
  BY <1>1, <1>2
<1>4. u * B <= (4 * S) * B
  BY <1>1, <1>2
<1>5. 0 <= u * B /\ u * B \in Int
  BY <1>1, <1>2
<1> HIDE DEF H
<1>6. ~(n <= -1)
  <2> SUFFICES ASSUME n <= -1 PROVE FALSE
    OBVIOUS
  <2>1. n * H <= -H
    BY <1>3
  <2> QED
    BY <1>2, <1>3, <1>5, <2>1
<1>7. ~(n >= 4 * C + 1)
  <2> SUFFICES ASSUME n >= 4 * C + 1 PROVE FALSE
    OBVIOUS
  <2>1. (4 * C + 1) * H <= n * H
    BY <1>1, <1>3
  <2>2. (4 * C + 1) * H = 4 * (C * H) + H /\ C * H \in Int
    BY <1>1, <1>3
  <2>3. (4 * S) * B = 4 * (S * B) /\ S * B \in Int
    BY <1>1
  <2>4. C * H = S * B + C * B /\ C * B \in Int /\ C * B = S + C
    <3>1. C * B = S + C
      BY <1>1 DEF S
    <3>2. C * H = C * (B * B) /\ (C * B) * B = C * (B * B)
      BY <1>1 DEF H
    <3>3. (S + C) * B = S * B + C * B
      BY <1>1
    <3> QED
      BY <1>1, <3>1, <3>2, <3>3
  <2>5. s <= 3 * S + 4 * (S * B) + (H - 1) + 4 * C
    BY <1>1, <1>2, <1>3, <1>4, <1>5, <2>3
  <2>6. 4 * (S * B + S + C) + H <= s
    BY <1>1, <1>3, <2>1, <2>2, <2>4
  <2> HIDE DEF S
  <2> QED
    BY <1>1, <1>2, <1>3, <2>3, <2>5, <2>6
<1> QED
  BY <1>1, <1>2, <1>3, <1>6, <1>7 DEF Carries, B, C, H

\* A carry is what IsCarry allows.
LEMMA CarryAllowed ==
  ASSUME machine \in Machines, NEW s \in Int, NEW n, Carries(s, n)
  PROVE  IsCarry(s) /\ s \div HalfBase = n
<1>1. /\ HalfBase \in Nat \ {0} /\ Base \in Nat /\ Base >= 2 /\ ByteBase \in Nat /\ ByteBase >= 4
  BY Sizes DEF ByteBase
<1>2. n \in 0 .. 4 * Base - 4 /\ s = n * HalfBase
  BY DEF Carries
<1>3. Divided(s, HalfBase, n, 0)
  BY <1>1, <1>2 DEF Divided
<1>4. s % HalfBase = 0 /\ s \div HalfBase = n
  BY <1>1, <1>3, DivMod
<1>5. n \in CarryRange
  <2>1. Base * 4 <= Base * ByteBase
    BY <1>1
  <2> QED
    BY <1>1, <1>2, <2>1 DEF CarryRange
<1> QED
  BY <1>4, <1>5 DEF IsCarry

LEMMA CarryIs ==
  ASSUME machine \in Machines, NEW s \in Int, IsCarry(s)
  PROVE  s \div HalfBase \in Nat /\ s = (s \div HalfBase) * HalfBase
<1>1. HalfBase \in Nat \ {0}
  BY Sizes
<1> DEFINE H == HalfBase   q == s \div H
<1>2. s % H = 0 /\ q \in CarryRange
  BY DEF IsCarry
<1>3. Divided(s, H, q, s % H)
  <2>1. H \in Nat \ {0}
    BY <1>1
  <2> HIDE DEF H
  <2> QED
    BY <2>1 DEF Divided
<1>4. q \in Nat
  BY <1>2, Sizes DEF CarryRange
<1>5. s = 0 + q * H
  BY <1>2, <1>3 DEF Divided
<1> HIDE DEF q
<1>6. s = q * H
  BY <1>1, <1>4, <1>5
<1> QED
  BY <1>4, <1>6 DEF q

\* The sums of mul_add_words, and the number they are the halves of.
Low(a, b, c, d) == Terms(a, b, 0) + Terms(a, b, 1) * Base + Lo(c) - Lo(d)
High(a, b, c, d) ==
  Terms(a, b, 2) + Terms(a, b, 3) * Base + Hi(c) + Low(a, b, c, d) \div HalfBase - Hi(d)
Rest(a, b) == Terms(a, b, 4) + Terms(a, b, 5) * Base + Terms(a, b, 6) * HalfBase

LEMMA MulAddIs ==
  ASSUME NEW a, NEW b, NEW c, NEW d
  PROVE  /\ mul_add_words(a, b, c, d).holds <=> IsCarry(Low(a, b, c, d)) /\ IsCarry(High(a, b, c, d))
         /\ mul_add_words(a, b, c, d).overflow
              = High(a, b, c, d) \div HalfBase + Terms(a, b, 4) + Terms(a, b, 5) + Terms(a, b, 6)
BY DEF mul_add_words, Low, High

\* p, of which the sums are l and h (k carried), less d.
Summed(p, d, l, h, k, r) == p - d = l + (h - k) * HalfBase + r * Modulus

LEMMA SumsAre ==
  ASSUME machine \in Machines, NEW a \in Word, NEW b \in Word, NEW c \in Word, NEW d \in Word
  PROVE  /\ Low(a, b, c, d) \in Int /\ Rest(a, b) \in Nat /\ a * b + c \in Nat
         /\ IsSumOf(Low(a, b, c, d), Terms(a, b, 0), Terms(a, b, 1), Lo(c), 0, Lo(d))
         /\ Low(a, b, c, d) \div HalfBase \in Int => High(a, b, c, d) \in Int
         /\ Low(a, b, c, d) \div HalfBase \in Int =>
              /\ IsSumOf(High(a, b, c, d), Terms(a, b, 2), Terms(a, b, 3), Hi(c),
                         Low(a, b, c, d) \div HalfBase, Hi(d))
              /\ Summed(a * b + c, d, Low(a, b, c, d), High(a, b, c, d),
                        Low(a, b, c, d) \div HalfBase, Rest(a, b))
<1> DEFINE B == Base   H == HalfBase   p == a * b   l == Low(a, b, c, d)
           h == High(a, b, c, d)   k == l \div H   r == Rest(a, b)
           t0 == Terms(a, b, 0)   t1 == Terms(a, b, 1)   t2 == Terms(a, b, 2)
           t3 == Terms(a, b, 3)   t4 == Terms(a, b, 4)   t5 == Terms(a, b, 5)
           t6 == Terms(a, b, 6)   lc == Lo(c)   hc == Hi(c)   ld == Lo(d)   hd == Hi(d)
<1>1. /\ B \in Nat /\ H \in Nat /\ Modulus \in Nat
      /\ lc \in Nat /\ hc \in Nat /\ ld \in Nat /\ hd \in Nat
      /\ c = lc + hc * H /\ d = ld + hd * H
  BY Sizes, Halves
<1>2. IsProduct(p, t0, t1, t2, t3, t4, t5, t6)
  BY Product
<1>3. /\ t0 \in Nat /\ t1 \in Nat /\ t2 \in Nat /\ t3 \in Nat /\ t4 \in Nat /\ t5 \in Nat
      /\ t6 \in Nat
  BY Product DEF Few
<1>4. p \in Nat /\ c \in Nat /\ d \in Nat
  <2>1. a \in Nat /\ b \in Nat /\ c \in Nat /\ d \in Nat
    BY DEF Word
  <2> QED
    BY <2>1
<1>5. l = t0 + t1 * B + lc - ld
  BY DEF Low
<1>6. h = t2 + t3 * B + hc + k - hd
  BY DEF High
<1>7. r = t4 + t5 * B + t6 * H
  BY DEF Rest
<1>8. p = (t0 + t1 * B) + (t2 + t3 * B) * H + r * Modulus
  BY <1>2, <1>7 DEF IsProduct
<1> HIDE DEF B, H, p, l, h, k, r, t0, t1, t2, t3, t4, t5, t6, lc, hc, ld, hd
<1>9. l \in Int /\ r \in Nat /\ p + c \in Nat
  BY <1>1, <1>3, <1>4, <1>5, <1>7
<1>10. IsSumOf(l, t0, t1, lc, 0, ld)
  BY <1>1, <1>3, <1>5 DEF IsSumOf, B
<1>11. ASSUME k \in Int
       PROVE  h \in Int /\ IsSumOf(h, t2, t3, hc, k, hd) /\ Summed(p + c, d, l, h, k, r)
  <2>1. h \in Int /\ IsSumOf(h, t2, t3, hc, k, hd)
    BY <1>1, <1>3, <1>6, <1>11 DEF IsSumOf, B
  <2>2. (p + c) - d = l + (h - k) * H + r * Modulus
    <3> DEFINE M == r * Modulus   v == t2 + t3 * B   w == t0 + t1 * B
    <3>1. M \in Int /\ v \in Int /\ w \in Int
      BY <1>1, <1>3, <1>9
    <3>2. p = w + v * H + M /\ l = w + lc - ld /\ h = v + hc + k - hd
      BY <1>5, <1>6, <1>8
    <3> HIDE DEF M, v, w
    <3>3. h - k = v + hc - hd
      BY <1>1, <1>11, <3>1, <3>2
    <3>4. (v + hc - hd) * H = v * H + hc * H - hd * H
      BY <1>1, <3>1
    <3> DEFINE vH == v * H   cH == hc * H   dH == hd * H
    <3>5. vH \in Int /\ cH \in Int /\ dH \in Int
      BY <1>1, <3>1
    <3>6. /\ p = w + vH + M /\ c = lc + cH /\ d = ld + dH /\ l = w + lc - ld
          /\ (h - k) * H = vH + cH - dH
      BY <1>1, <3>2, <3>3, <3>4
    <3> HIDE DEF vH, cH, dH
    <3>7. (p + c) - d = l + (h - k) * H + M
      BY <1>1, <3>1, <3>5, <3>6
    <3> QED
      BY <3>7 DEF M
  <2>3. Summed(p + c, d, l, h, k, r)
    BY <2>2 DEF Summed, H
  <2> QED
    BY <2>1, <2>3
<1> QED
  BY <1>9, <1>10, <1>11
     DEF H, p, l, h, k, r, t0, t1, t2, t3, lc, hc, ld, hd

\* mul_add_words accepts no d but one that a * b + c exceeds by moduli, and by none
\* when there is no overflow.
LEMMA MulAddHolds ==
  ASSUME machine \in Machines, NEW a \in Word, NEW b \in Word, NEW c \in Word, NEW d \in Word,
         mul_add_words(a, b, c, d).holds
  PROVE  \E t \in Nat : /\ Exceeds(a * b + c, d, t)
                        /\ mul_add_words(a, b, c, d).overflow = 0 => t = 0
<1> DEFINE H == HalfBase   p == a * b + c   l == Low(a, b, c, d)   h == High(a, b, c, d)
           k == l \div H   n == h \div H   r == Rest(a, b)   M == Modulus
           t4 == Terms(a, b, 4)   t5 == Terms(a, b, 5)   t6 == Terms(a, b, 6)
           o == mul_add_words(a, b, c, d).overflow
<1>1. IsCarry(l) /\ IsCarry(h) /\ o = n + t4 + t5 + t6
  BY MulAddIs
<1>2. H \in Nat \ {0} /\ M = H * H /\ M \in Nat /\ Base \in Nat /\ d \in Nat
  BY Sizes DEF Word
<1>3. l \in Int /\ r \in Nat /\ p \in Nat
  BY SumsAre
<1>4. k \in Nat /\ l = k * H
  <2> HIDE DEF l
  <2> QED
    BY <1>1, <1>3, CarryIs
<1>5. h \in Int /\ Summed(p, d, l, h, k, r)
  <2>1. k \in Int
    BY <1>4
  <2> QED
    BY <2>1, SumsAre
<1>6. n \in Nat /\ h = n * H
  <2> HIDE DEF h
  <2> QED
    BY <1>1, <1>5, CarryIs
<1>7. t4 \in Nat /\ t5 \in Nat /\ t6 \in Nat /\ r = t4 + t5 * Base + t6 * H
  BY Product DEF Few, Rest
<1> HIDE DEF p, l, h, k, n, r, t4, t5, t6, o
<1>8. p - d = l + (h - k) * H + r * M
  BY <1>5 DEF Summed
<1> HIDE DEF M, H
<1>9. p = d + (n + r) * M
  <2>1. (h - k) * H = h * H - k * H /\ h * H = n * M /\ (n + r) * M = n * M + r * M
    BY <1>2, <1>3, <1>4, <1>5, <1>6
  <2> DEFINE nM == n * M   rM == r * M   kH == k * H
  <2>2. nM \in Int /\ rM \in Int /\ kH \in Int
    BY <1>2, <1>3, <1>4, <1>6
  <2>3. p - d = l + (nM - kH) + rM /\ l = kH /\ (n + r) * M = nM + rM
    BY <1>4, <1>8, <2>1
  <2> HIDE DEF nM, rM, kH
  <2>4. p = d + (nM + rM)
    BY <1>2, <1>3, <2>2, <2>3
  <2> QED
    BY <2>3, <2>4
<1> DEFINE t == n + r
<1>10. t \in Nat /\ Exceeds(p, d, t)
  BY <1>3, <1>6, <1>9 DEF Exceeds, M
<1>11. o = 0 => t = 0
  <2> SUFFICES ASSUME o = 0 PROVE t = 0
    OBVIOUS
  <2>1. n = 0 /\ t4 = 0 /\ t5 = 0 /\ t6 = 0
    BY <1>1, <1>6, <1>7
  <2> QED
    BY <1>2, <1>7, <2>1
<1> HIDE DEF t
<1> QED
  BY <1>10, <1>11 DEF p, o

\* When a * b + c exceeds d by t moduli, the sums carry, and the high one t less what
\* the terms above it make.
LEMMA SumsCarry ==
  ASSUME machine \in Machines, NEW a \in Word, NEW b \in Word, NEW c \in Word, NEW d \in Word,
         NEW t \in Nat, Exceeds(a * b + c, d, t)
  PROVE  /\ IsCarry(Low(a, b, c, d)) /\ IsCarry(High(a, b, c, d))
         /\ High(a, b, c, d) \div HalfBase = t - Rest(a, b) /\ t - Rest(a, b) \in Nat
         /\ t - Rest(a, b) \in 0 .. 4 * Base - 4 /\ Rest(a, b) \in Nat
<1> DEFINE H == HalfBase   p == a * b + c   l == Low(a, b, c, d)   h == High(a, b, c, d)
           k == l \div H   r == Rest(a, b)   M == Modulus
           t0 == Terms(a, b, 0)   t1 == Terms(a, b, 1)   t2 == Terms(a, b, 2)
           t3 == Terms(a, b, 3)   t4 == Terms(a, b, 4)   t5 == Terms(a, b, 5)
           t6 == Terms(a, b, 6)   q == h \div H
<1>1. H \in Nat \ {0} /\ M = H * H /\ M \in Nat /\ Base \in Nat /\ Base >= 2 /\ d \in Nat
  BY Sizes DEF Word
<1>2. l \in Int /\ r \in Nat /\ p \in Nat /\ IsSumOf(l, t0, t1, Lo(c), 0, Lo(d))
  BY SumsAre
<1>3. /\ Few(t0, 3) /\ Few(t1, 4) /\ Few(t2, 3) /\ Few(t3, 4)
      /\ t4 \in Nat /\ t5 \in Nat /\ t6 \in Nat /\ r = t4 + t5 * Base + t6 * H
  <2>1. /\ Few(t0, 1) /\ Few(t1, 2) /\ Few(t2, 3) /\ Few(t3, 4) /\ Few(t4, 3) /\ Few(t5, 2)
        /\ Few(t6, 1)
    BY Product
  <2>2. r = t4 + t5 * Base + t6 * H
    BY DEF Rest
  <2> HIDE DEF t0, t1, t2, t3, t4, t5, t6, r
  <2>3. (Base - 1) * (Base - 1) \in Nat
    BY <1>1
  <2> QED
    BY <2>1, <2>2, <2>3 DEF Few
<1>4. /\ Lo(c) \in 0 .. H - 1 /\ Lo(d) \in 0 .. H - 1 /\ Hi(c) \in 0 .. H - 1
      /\ Hi(d) \in 0 .. H - 1
  BY Halves
\* The low sum is a multiple of HalfBase, as all else is.
<1>6. PICK j \in Int : l = j * H
  <2>1. p = d + t * M
    BY DEF Exceeds
  <2>2. p = (t0 + t1 * Base) + (t2 + t3 * Base) * H + r * M + c
    <3>1. IsProduct(a * b, t0, t1, t2, t3, t4, t5, t6)
      BY Product
    <3> HIDE DEF t0, t1, t2, t3, t4, t5, t6, r
    <3>2. a * b = (t0 + t1 * Base) + (t2 + t3 * Base) * H + r * M
      BY <1>3, <3>1 DEF IsProduct
    <3> QED
      BY <3>2
  <2>3. l = t0 + t1 * Base + Lo(c) - Lo(d) /\ t0 \in Int /\ t1 \in Int /\ t2 \in Int /\ t3 \in Int
    <3> HIDE DEF t0, t1, t2, t3
    <3> QED
      BY <1>1, <1>2, <1>3, <1>4 DEF IsSumOf, Few
  <2>4. c = Lo(c) + Hi(c) * H /\ d = Lo(d) + Hi(d) * H
    BY Halves
  <2> DEFINE v == t2 + t3 * Base   w == t0 + t1 * Base   lc == Lo(c)   ld == Lo(d)
             hc == Hi(c)   hd == Hi(d)
             j == (t - r) * H + hd - hc - v
  <2>5. v \in Int /\ w \in Int /\ lc \in Int /\ ld \in Int /\ hc \in Int /\ hd \in Int
    BY <1>1, <1>4, <2>3
  <2>6. p = w + v * H + r * M + c /\ l = w + lc - ld /\ c = lc + hc * H /\ d = ld + hd * H
    BY <2>2, <2>3, <2>4
  <2>7. M \in Int /\ H \in Int /\ r \in Int /\ c \in Int /\ d \in Int /\ l \in Int /\ t \in Int
    BY <1>1, <1>2 DEF Word
  <2> HIDE DEF v, w, lc, ld, hc, hd, p, l, r, H, M
  <2>8. j \in Int /\ j * H = (t - r) * M + hd * H - hc * H - v * H
    BY <1>1, <2>5, <2>7
  <2>9. (t - r) * M = t * M - r * M
    BY <2>7
  <2> DEFINE tM == t * M   rM == r * M   hdH == hd * H   hcH == hc * H   vH == v * H
  <2>10. tM \in Int /\ rM \in Int /\ hdH \in Int /\ hcH \in Int /\ vH \in Int
    BY <2>5, <2>7
  <2>11. /\ p = d + tM /\ p = w + vH + rM + c /\ l = w + lc - ld /\ c = lc + hcH /\ d = ld + hdH
         /\ j * H = (tM - rM) + hdH - hcH - vH
    BY <2>1, <2>6, <2>8, <2>9
  <2> HIDE DEF tM, rM, hdH, hcH, vH, j
  <2>12. l = j * H
    BY <2>5, <2>7, <2>10, <2>11
  <2> QED
    BY <2>8, <2>12
<1>7. Carries(l, j)
  <2>1. 0 \in 0 .. 4 * Base - 4
    BY <1>1
  <2> HIDE DEF l, t0, t1
  <2> QED
    BY <1>2, <1>3, <1>4, <1>6, <2>1, CarryFits
<1>8. IsCarry(l) /\ k = j
  <2> HIDE DEF l
  <2> QED
    BY <1>2, <1>7, CarryAllowed
<1>9. h \in Int /\ IsSumOf(h, t2, t3, Hi(c), k, Hi(d)) /\ Summed(p, d, l, h, k, r)
  <2>1. k \in Int
    BY <1>6, <1>8
  <2> QED
    BY <2>1, SumsAre
<1>10. h = (t - r) * H /\ t - r \in Int
  <2>1. p - d = l + (h - k) * H + r * M /\ p = d + t * M
    BY <1>9 DEF Summed, Exceeds
  <2>2. k \in Int /\ l = k * H
    BY <1>6, <1>8
  <2> HIDE DEF p, l, h, k, r, H, M
  <2>3. (h - k) * H = h * H - k * H /\ (t - r) * M = t * M - r * M /\ (t - r) * M = ((t - r) * H) * H
    BY <1>1, <1>2, <1>9, <2>2
  <2> DEFINE tM == t * M   rM == r * M   hH == h * H   kH == k * H
  <2>4. tM \in Int /\ rM \in Int /\ hH \in Int /\ kH \in Int
    BY <1>1, <1>2, <1>9, <2>2
  <2>5. /\ p - d = l + (hH - kH) + rM /\ p = d + tM /\ l = kH
        /\ ((t - r) * H) * H = tM - rM
    BY <2>1, <2>2, <2>3
  <2> HIDE DEF tM, rM, hH, kH
  <2>6. hH = ((t - r) * H) * H
    BY <1>1, <1>2, <2>4, <2>5
  <2> DEFINE g == (t - r) * H
  <2>7. g \in Int /\ h * H = g * H
    BY <1>1, <1>2, <2>6 DEF hH
  <2> HIDE DEF g
  <2>8. h = g
    BY <1>1, <1>9, <2>7
  <2> QED
    BY <1>2, <2>8 DEF g
<1>11. Carries(h, t - r)
  <2>1. k \in 0 .. 4 * Base - 4
    <3> HIDE DEF k, l
    <3> QED
      BY <1>7, <1>8 DEF Carries
  <2> DEFINE n == t - r
  <2>2. n \in Int /\ h = n * H
    BY <1>10
  <2> HIDE DEF h, t2, t3, k, n
  <2>3. Carries(h, n)
    BY <1>3, <1>4, <1>9, <2>1, <2>2, CarryFits
  <2> QED
    BY <2>3 DEF n
<1>12. IsCarry(h) /\ q = t - r /\ t - r \in Nat
  <2> DEFINE n == t - r
  <2>1. Carries(h, n)
    BY <1>11
  <2> HIDE DEF h, n
  <2>2. IsCarry(h) /\ h \div H = n
    BY <1>9, <2>1, CarryAllowed
  <2>3. n \in Nat
    BY <1>1, <2>1 DEF Carries
  <2> QED
    BY <2>2, <2>3 DEF n
<1>13. t - r \in 0 .. 4 * Base - 4
  BY <1>11 DEF Carries
<1> QED
  BY <1>2, <1>8, <1>12, <1>13

\* mul_add_words accepts any d that a * b + c exceeds by moduli, without overflow if
\* by none.
LEMMA MulAddAccepts ==
  ASSUME machine \in Machines, NEW a \in Word, NEW b \in Word, NEW c \in Word, NEW d \in Word,
         NEW t \in Nat, Exceeds(a * b + c, d, t)
  PROVE  /\ mul_add_words(a, b, c, d).holds
         /\ t = 0 => mul_add_words(a, b, c, d).overflow = 0
<1> DEFINE H == HalfBase   l == Low(a, b, c, d)   h == High(a, b, c, d)   r == Rest(a, b)
           t4 == Terms(a, b, 4)   t5 == Terms(a, b, 5)   t6 == Terms(a, b, 6)
           o == mul_add_words(a, b, c, d).overflow
           q == h \div H
<1>1. H \in Nat \ {0} /\ Base \in Nat /\ Base >= 2
  BY Sizes
<1>2. /\ t4 \in Nat /\ t5 \in Nat /\ t6 \in Nat /\ r = t4 + t5 * Base + t6 * H
  BY Product DEF Few, Rest
<1>3. (mul_add_words(a, b, c, d).holds <=> IsCarry(l) /\ IsCarry(h)) /\ o = q + t4 + t5 + t6
  BY MulAddIs
<1>4. IsCarry(l) /\ IsCarry(h) /\ q = t - r /\ t - r \in Nat /\ r \in Nat
  BY SumsCarry
<1>5. ASSUME t = 0 PROVE o = 0
  <2> HIDE DEF l, h, q, r, t4, t5, t6, o, H
  <2>1. r = 0 /\ q = 0
    BY <1>4, <1>5
  <2>2. t5 * Base \in Nat /\ t6 * H \in Nat
    BY <1>1, <1>2
  <2>3. t4 = 0 /\ t5 * Base = 0 /\ t6 * H = 0
    BY <1>2, <2>1, <2>2
  <2>4. t5 = 0 /\ t6 = 0
    BY <1>1, <1>2, <2>3
  <2> QED
    BY <1>3, <2>1, <2>3, <2>4
<1> QED
  BY <1>3, <1>4, <1>5

\* mul_add_words_512 accepts exactly what is equal, over two words.
LEMMA MulAdd512Is ==
  ASSUME machine \in Machines, NEW a \in Word, NEW b \in Word, NEW c \in Word, NEW d \in Word,
         NEW e \in Word
  PROVE  mul_add_words_512(a, b, c, d, e) <=> Exceeds(a * b + c, e, d)
<1> DEFINE H == HalfBase   p == a * b + c   l == Low(a, b, c, e)   m == High(a, b, c, e)
           k == l \div H   n == m \div H   r == Rest(a, b)   M == Modulus
           t4 == Terms(a, b, 4)   t5 == Terms(a, b, 5)   t6 == Terms(a, b, 6)
           lo == Lo(d)   hi == Hi(d)
           h == t4 + t5 * Base + n - lo
           j == h \div H
<1>1. H \in Nat \ {0} /\ M = H * H /\ M \in Nat /\ Base \in Nat /\ Base >= 2 /\ d \in Nat /\ e \in Nat
  BY Sizes DEF Word
<1>2. l \in Int /\ r \in Nat /\ p \in Nat
  BY SumsAre
<1>3. /\ Few(t4, 3) /\ Few(t5, 4) /\ t4 \in Nat /\ t5 \in Nat /\ t6 \in Nat
      /\ r = t4 + t5 * Base + t6 * H
  <2>1. Few(t4, 3) /\ Few(t5, 2) /\ Few(t6, 1)
    BY Product
  <2>2. r = t4 + t5 * Base + t6 * H
    BY DEF Rest
  <2> HIDE DEF t4, t5, t6, r
  <2>3. (Base - 1) * (Base - 1) \in Nat
    BY <1>1
  <2> QED
    BY <2>1, <2>2, <2>3 DEF Few
<1>4. lo \in 0 .. H - 1 /\ hi \in 0 .. H - 1 /\ d = lo + hi * H
  BY Halves
<1>5. mul_add_words_512(a, b, c, d, e)
        <=> IsCarry(l) /\ IsCarry(m) /\ IsCarry(h) /\ t6 + j = hi
  BY DEF mul_add_words_512, Low, High
<1>6. ASSUME mul_add_words_512(a, b, c, d, e)
      PROVE  Exceeds(p, e, d)
  <2>1. k \in Nat /\ l = k * H
    <3> HIDE DEF l
    <3> QED
      BY <1>2, <1>5, <1>6, CarryIs
  <2>2. m \in Int /\ Summed(p, e, l, m, k, r)
    <3>1. k \in Int
      BY <2>1
    <3> QED
      BY <3>1, SumsAre
  <2>3. n \in Nat /\ m = n * H
    <3> HIDE DEF m
    <3> QED
      BY <1>5, <1>6, <2>2, CarryIs
  <2>4. h \in Int
    <3> HIDE DEF t4, t5, n, lo
    <3> QED
      BY <1>1, <1>3, <1>4, <2>3
  <2>5. j \in Nat /\ h = j * H /\ t6 + j = hi
    <3>1. IsCarry(h) /\ t6 + j = hi
      BY <1>5, <1>6
    <3> HIDE DEF h
    <3> QED
      BY <2>4, <3>1, CarryIs
  <2>6. (p - e) = l + (m - k) * H + r * M /\ h = t4 + t5 * Base + n - lo
    BY <2>2 DEF Summed
  <2> HIDE DEF p, l, m, k, n, r, t4, t5, t6, lo, hi, h, j, H, M
  <2>7. n + r = d
    <3>1. hi * H = t6 * H + j * H
      BY <1>1, <1>3, <1>4, <2>5
    <3> DEFINE s == t6 * H   u == j * H   v == t5 * Base
    <3>2. s \in Int /\ u \in Int /\ v \in Int
      BY <1>1, <1>3, <2>5
    <3>3. r = t4 + v + s /\ d = lo + (s + u) /\ h = u /\ h = t4 + v + n - lo
      BY <1>3, <1>4, <2>5, <2>6, <3>1
    <3> HIDE DEF s, u, v
    <3> QED
      BY <1>3, <1>4, <2>3, <3>2, <3>3
  <2>8. p = e + d * M
    <3>1. /\ (m - k) * H = m * H - k * H /\ m * H = n * M /\ (n + r) * M = n * M + r * M
      BY <1>1, <1>2, <2>1, <2>2, <2>3
    <3> DEFINE nM == n * M   rM == r * M   kH == k * H
    <3>2. nM \in Int /\ rM \in Int /\ kH \in Int
      BY <1>1, <1>2, <2>1, <2>3
    <3>3. p - e = l + (nM - kH) + rM /\ l = kH /\ d * M = nM + rM
      BY <2>1, <2>6, <2>7, <3>1
    <3> HIDE DEF nM, rM, kH
    <3> QED
      BY <1>1, <1>2, <3>2, <3>3
  <2> QED
    BY <2>8 DEF Exceeds, M
<1>7. ASSUME Exceeds(p, e, d)
      PROVE  mul_add_words_512(a, b, c, d, e)
  <2>1. IsCarry(l) /\ IsCarry(m) /\ n = d - r /\ n \in 0 .. 4 * Base - 4
    BY <1>1, <1>7, SumsCarry
  <2> DEFINE g == hi - t6
  <2>2. h \in Int /\ g \in Int /\ h = g * H
    <3>1. h = t4 + t5 * Base + n - lo
      OBVIOUS
    <3> HIDE DEF p, l, m, k, n, r, t4, t5, t6, lo, hi, h, H, M
    <3>2. (hi - t6) * H = hi * H - t6 * H
      BY <1>1, <1>3, <1>4
    <3> DEFINE s == t6 * H   u == hi * H   v == t5 * Base
    <3>3. s \in Int /\ u \in Int /\ v \in Int
      BY <1>1, <1>3, <1>4
    <3>4. r = t4 + v + s /\ d = lo + u /\ h = t4 + v + n - lo /\ g * H = u - s /\ g \in Int
      BY <1>3, <1>4, <3>1, <3>2
    <3> HIDE DEF s, u, v, g
    <3> QED
      BY <1>1, <1>2, <1>3, <1>4, <2>1, <3>3, <3>4
  <2>3. IsSumOf(h, t4, t5, 0, n, lo)
    <3>1. h = t4 + t5 * Base + n - lo
      OBVIOUS
    <3> HIDE DEF n, t4, t5, lo, h, H
    <3> QED
      BY <1>1, <1>3, <1>4, <2>1, <3>1 DEF IsSumOf
  <2>4. Carries(h, g)
    <3>1. 0 \in 0 .. H - 1
      BY <1>1
    <3> HIDE DEF h, g, t4, t5, n, lo
    <3> QED
      BY <1>3, <1>4, <2>1, <2>2, <2>3, <3>1, CarryFits
  <2>5. IsCarry(h) /\ j = g
    <3> HIDE DEF h, g
    <3> QED
      BY <2>2, <2>4, CarryAllowed
  <2>6. t6 + j = hi
    <3> HIDE DEF t6, hi, j
    <3> QED
      BY <1>3, <1>4, <2>5
  <2> QED
    BY <1>5, <2>1, <2>5, <2>6
<1> QED
  BY <1>6, <1>7

-----------------------------------------------------------------------------
(* The words each opcode may push: the one of the EVM, and no other.       *)

\* Words that differ by a multiple of Modulus are the same word.
LEMMA SameWord ==
  ASSUME machine \in Machines, NEW u \in Word, NEW v \in Word, NEW k \in Int, u = v + k * Modulus
  PROVE  u = v /\ k = 0
<1> DEFINE M == Modulus
<1>1. M \in Nat \ {0} /\ u \in 0 .. M - 1 /\ v \in 0 .. M - 1
  BY Sizes DEF Word
<1>2. u = v + k * M
  OBVIOUS
<1> HIDE DEF M
<1>3. CASE k >= 1
  <2>1. k * M >= M
    BY <1>1, <1>3
  <2> QED
    BY <1>1, <1>2, <2>1
<1>4. CASE k <= -1
  <2>1. k * M <= -M
    BY <1>1, <1>4
  <2> QED
    BY <1>1, <1>2, <2>1
<1> QED
  BY <1>1, <1>2, <1>3, <1>4

\* The remainder by Modulus is a word.
LEMMA ModWord ==
  ASSUME machine \in Machines, NEW u \in Int
  PROVE  Divided(u, Modulus, u \div Modulus, u % Modulus) /\ u % Modulus \in Word
<1> DEFINE M == Modulus
<1>1. M \in Nat \ {0}
  BY Sizes
<1> HIDE DEF M
<1>2. Divided(u, M, u \div M, u % M) /\ u % M \in 0 .. M - 1
  BY <1>1 DEF Divided
<1> QED
  BY <1>2 DEF M, Word

LEMMA AddExact ==
  ASSUME machine \in Machines, NEW x \in Word, NEW y \in Word
  PROVE  add_sub("ADD", x, y) = {(x + y) % Modulus}
<1> DEFINE s == add_words(x, y)   M == Modulus
<1>1. s.sum \in Word /\ s.carry \in {0, 1} /\ x + y = s.sum + s.carry * M
  BY AddWords DEF IsSum
<1>2. add_sub("ADD", x, y) = {c \in Word : s.sum = c}
  BY DEF add_sub
<1> HIDE DEF s
<1>3. (x + y) % M = s.sum
  <2> DEFINE u == x + y
  <2>1. M \in Nat \ {0} /\ u \in Int
    BY Sizes DEF Word
  <2>2. Divided(u, M, s.carry, s.sum)
    BY <1>1 DEF Divided, Word
  <2> HIDE DEF u, M
  <2> QED
    BY <2>1, <2>2, DivMod DEF u
<1> QED
  BY <1>1, <1>2, <1>3

LEMMA SubExact ==
  ASSUME machine \in Machines, NEW x \in Word, NEW y \in Word
  PROVE  add_sub("SUB", x, y) = {(x - y) % Modulus}
<1> DEFINE M == Modulus   u == x - y   r == u % M   q == u \div M
<1>1. M \in Nat \ {0} /\ u \in Int /\ x \in Int /\ y \in Int
  BY Sizes DEF Word
<1>2. Divided(u, M, q, r) /\ r \in Word
  BY <1>1, ModWord
<1>3. ASSUME NEW c \in Word
      PROVE  add_words(c, y).sum = x <=> c = r
  <2> DEFINE s == add_words(c, y)   k == s.carry   t == s.sum
  <2>1. t \in Word /\ k \in {0, 1} /\ c + y = t + k * M
    BY AddWords DEF IsSum
  <2>2. c \in Int /\ t \in Int /\ r \in Int /\ q \in Int /\ u = r + q * M
    BY <1>1, <1>2, <2>1 DEF Word, Divided
  <2> HIDE DEF s, k, t, q, r
  <2>3. ASSUME t = x PROVE c = r
    <3> DEFINE j == q + k
    <3>1. j \in Int /\ c = r + j * M
      <4>1. (q + k) * M = q * M + k * M /\ q * M \in Int /\ k * M \in Int
        BY <1>1, <2>1, <2>2
      <4> QED
        BY <1>1, <2>1, <2>2, <2>3, <4>1
    <3> HIDE DEF j
    <3> QED
      BY <1>2, <3>1, SameWord
  <2>4. ASSUME c = r PROVE t = x
    <3> DEFINE j == -(q + k)
    <3>1. j \in Int /\ t = x + j * M
      <4>1. j \in Int /\ j * M = -(q * M) - k * M /\ q * M \in Int /\ k * M \in Int
        BY <1>1, <2>1, <2>2
      <4> HIDE DEF j
      <4> QED
        BY <1>1, <2>1, <2>2, <2>4, <4>1
    <3> HIDE DEF j
    <3> QED
      BY <2>1, <3>1, SameWord
  <2> QED
    BY <2>3, <2>4 DEF s, t
<1>4. add_sub("SUB", x, y) = {c \in Word : add_words(c, y).sum = x}
  BY DEF add_sub
<1> HIDE DEF r
<1>5. add_sub("SUB", x, y) = {r}
  BY <1>2, <1>3, <1>4
<1> QED
  BY <1>5 DEF r

LEMMA MulExact ==
  ASSUME machine \in Machines, NEW x \in Word, NEW y \in Word
  PROVE  mul(x, y) = {(x * y) % Modulus}
<1> DEFINE M == Modulus   p == x * y   r == p % M   q == p \div M
<1>1. M \in Nat \ {0} /\ x \in Nat /\ y \in Nat /\ p \in Nat /\ 0 \in Word
  BY Sizes DEF Word
<1>2. Divided(p, M, q, r) /\ r \in Word
  <2>1. p \in Int
    BY <1>1
  <2> HIDE DEF p
  <2> QED
    BY <2>1, ModWord
<1>3. x * y + 0 = p
  BY <1>1
<1>4. ASSUME NEW d \in Word, mul_add_words(x, y, 0, d).holds
      PROVE  d = r
  <2>1. PICK t \in Nat : Exceeds(x * y + 0, d, t)
    BY <1>1, <1>4, MulAddHolds
  <2>2. p = d + t * M
    BY <1>3, <2>1 DEF Exceeds
  <2> HIDE DEF p
  <2>3. Divided(p, M, t, d)
    BY <2>2 DEF Divided, Word
  <2> HIDE DEF M
  <2> QED
    BY <1>1, <2>3, DivMod
<1>5. mul_add_words(x, y, 0, r).holds
  <2>1. q \in Nat /\ p = r + q * M
    BY <1>1, <1>2 DEF Divided
  <2> HIDE DEF r, q
  <2>2. Exceeds(x * y + 0, r, q)
    BY <1>3, <2>1 DEF Exceeds
  <2> QED
    BY <1>1, <1>2, <2>1, <2>2, MulAddAccepts
<1> HIDE DEF r
<1>6. mul(x, y) = {r}
  BY <1>2, <1>4, <1>5 DEF mul
<1> QED
  BY <1>6 DEF r

\* Without overflow, the gadget checks an equality of numbers.
ExactMulAdd(a, b, c, d) ==
  mul_add_words(a, b, c, d).holds /\ mul_add_words(a, b, c, d).overflow = 0

LEMMA ExactIs ==
  ASSUME machine \in Machines, NEW a \in Word, NEW b \in Word, NEW c \in Word, NEW d \in Word
  PROVE  ExactMulAdd(a, b, c, d) <=> d = c + a * b
<1>1. d \in Nat /\ a * b + c \in Nat /\ Modulus \in Nat /\ a * b + c = c + a * b
  <2>1. a \in Nat /\ b \in Nat /\ c \in Nat /\ d \in Nat /\ Modulus \in Nat
    BY Sizes DEF Word
  <2> QED
    BY <2>1
<1>2. Exceeds(a * b + c, d, 0) <=> d = c + a * b
  BY <1>1 DEF Exceeds
<1>3. ASSUME ExactMulAdd(a, b, c, d)
      PROVE  d = c + a * b
  <2>1. PICK t \in Nat : /\ Exceeds(a * b + c, d, t)
                         /\ mul_add_words(a, b, c, d).overflow = 0 => t = 0
    BY <1>3, MulAddHolds DEF ExactMulAdd
  <2>2. t = 0
    BY <1>3, <2>1 DEF ExactMulAdd
  <2> QED
    BY <1>2, <2>1, <2>2
<1>4. ASSUME d = c + a * b
      PROVE  ExactMulAdd(a, b, c, d)
  BY <1>2, <1>4, MulAddAccepts DEF ExactMulAdd
<1> QED
  BY <1>3, <1>4

\* Quotient and remainder are words, and the only ones there are.
LEMMA WordDivision ==
  ASSUME machine \in Machines, NEW d \in Word, NEW b \in Word, b # 0
  PROVE  /\ d \div b \in Word /\ d % b \in Word /\ d % b < b /\ d = (d % b) + (d \div b) * b
         /\ \A q, r \in Word : r < b /\ d = r + q * b => q = d \div b /\ r = d % b
<1> DEFINE q == d \div b   r == d % b
<1>1. d \in Nat /\ b \in Nat \ {0} /\ Modulus \in Nat /\ d < Modulus /\ b < Modulus
  BY Sizes DEF Word
<1>2. Divided(d, b, q, r)
  BY <1>1 DEF Divided
<1>3. q \in Nat /\ r \in 0 .. b - 1 /\ d = r + q * b
  BY <1>1, <1>2 DEF Divided
<1>4. q <= d
  <2> HIDE DEF q, r
  <2>1. q <= q * b
    BY <1>1, <1>3
  <2> QED
    BY <1>1, <1>3, <2>1
<1>5. ASSUME NEW s \in Word, NEW t \in Word, t < b, d = t + s * b
      PROVE  s = q /\ t = r
  <2>1. Divided(d, b, s, t)
    BY <1>1, <1>5 DEF Divided, Word
  <2> QED
    BY <1>1, <2>1, DivMod
<1> HIDE DEF q, r
<1>6. q \in Word /\ r \in Word
  BY <1>1, <1>3, <1>4 DEF Word
<1> QED
  BY <1>1, <1>3, <1>5, <1>6 DEF q, r

LEMMA DivModExact ==
  ASSUME machine \in Machines, NEW d \in Word, NEW b \in Word
  PROVE  /\ div_mod("DIV", d, b) = {IF b = 0 THEN 0 ELSE d \div b}
         /\ div_mod("MOD", d, b) = {IF b = 0 THEN 0 ELSE d % b}
<1> DEFINE W == {w \in Word \X Word : /\ b # 0 => compare_word_lt(w[2], b)
                                      /\ ExactMulAdd(w[1], b, w[2], d)}
<1>1. /\ div_mod("DIV", d, b) = {IF b = 0 THEN 0 ELSE w[1] : w \in W}
      /\ div_mod("MOD", d, b) = {IF b = 0 THEN 0 ELSE w[2] : w \in W}
  BY DEF div_mod, ExactMulAdd
<1>2. \A q, r \in Word : <<q, r>> \in W <=> (b # 0 => r < b) /\ d = r + q * b
  BY CompareIs, ExactIs
<1>3. \A w \in W : \E q, r \in Word : w = <<q, r>>
  OBVIOUS
<1>4. 0 \in Word /\ d \in Nat /\ b \in Nat
  BY Sizes DEF Word
<1> HIDE DEF W
<1>5. CASE b = 0
  <2>1. d = d + 0 * b
    BY <1>4, <1>5
  <2>2. <<0, d>> \in W
    BY <1>2, <1>4, <1>5, <2>1
  <2>3. W # {}
    BY <2>2
  <2>4. div_mod("DIV", d, b) = {0 : w \in W} /\ div_mod("MOD", d, b) = {0 : w \in W}
    BY <1>1, <1>5
  <2>5. {0 : w \in W} = {0}
    BY <2>3
  <2> QED
    BY <1>5, <2>4, <2>5
<1>6. CASE b # 0
  <2> DEFINE q == d \div b   r == d % b
  <2>1. /\ q \in Word /\ r \in Word /\ r < b /\ d = r + q * b
        /\ \A s, t \in Word : t < b /\ d = t + s * b => s = q /\ t = r
    BY <1>6, WordDivision
  <2> HIDE DEF q, r
  <2>2. <<q, r>> \in W
    BY <1>2, <2>1
  <2>3. \A w \in W : w = <<q, r>>
    BY <1>2, <1>3, <1>6, <2>1
  <2>4. W = {<<q, r>>}
    BY <2>2, <2>3
  <2>5. div_mod("DIV", d, b) = {w[1] : w \in W} /\ div_mod("MOD", d, b) = {w[2] : w \in W}
    BY <1>1, <1>6
  <2>6. div_mod("DIV", d, b) = {q} /\ div_mod("MOD", d, b) = {r}
    BY <2>4, <2>5
  <2> QED
    BY <1>6, <2>6 DEF q, r
<1> QED
  BY <1>5, <1>6

\* What ADDMOD's first word may be reduced to, and the results for one of them.
Reduction(a, n, x) == (n # 0 => compare_word_lt(x, n)) /\ \E k \in Word : ExactMulAdd(k, n, x, a)
Reduced(b, n, r, x) ==
  \E d \in Word :
    mul_add_words_512(d, n, r, IF n = 0 THEN 0 ELSE add_words(x, b).carry, add_words(x, b).sum)

LEMMA AddmodIs ==
  ASSUME NEW a, NEW b, NEW n
  PROVE  addmod(a, b, n)
           = {IF n = 0 THEN 0 ELSE r :
                r \in {r \in Word : /\ n # 0 => compare_word_lt(r, n)
                                    /\ \E x \in {x \in Word : Reduction(a, n, x)} : Reduced(b, n, r, x)}}
BY DEF addmod, Reduction, Reduced, ExactMulAdd

LEMMA ReductionIs ==
  ASSUME machine \in Machines, NEW a \in Word, NEW n \in Word, NEW x \in Word
  PROVE  Reduction(a, n, x) <=> x = IF n = 0 THEN a ELSE a % n
<1>1. Reduction(a, n, x) <=> (n # 0 => x < n) /\ \E k \in Word : a = x + k * n
  BY CompareIs, ExactIs DEF Reduction
<1>2. a \in Nat /\ n \in Nat /\ x \in Nat /\ 0 \in Word /\ Word \subseteq Nat
  BY Sizes DEF Word
<1>3. CASE n = 0
  <2>1. \A k \in Word : x + k * n = x
    BY <1>2, <1>3
  <2> QED
    BY <1>1, <1>2, <1>3, <2>1
<1>4. CASE n # 0
  <2>1. /\ a \div n \in Word /\ a % n \in Word /\ a % n < n /\ a = (a % n) + (a \div n) * n
        /\ \A q, r \in Word : r < n /\ a = r + q * n => q = a \div n /\ r = a % n
    BY <1>4, WordDivision
  <2> DEFINE q == a \div n   r == a % n
  <2>2. /\ q \in Word /\ r \in Word /\ r < n /\ a = r + q * n
        /\ \A k \in Word : x < n /\ a = x + k * n => x = r
    BY <2>1
  <2> HIDE DEF q, r
  <2>3. Reduction(a, n, x) <=> x = r
    BY <1>1, <1>4, <2>2
  <2> QED
    BY <1>4, <2>3 DEF r
<1> QED
  BY <1>3, <1>4

LEMMA ReducedIs ==
  ASSUME machine \in Machines, NEW b \in Word, NEW n \in Word, NEW r \in Word, NEW x \in Word
  PROVE  /\ n # 0 => (Reduced(b, n, r, x) <=> \E d \in Word : x + b = r + d * n)
         /\ n = 0 => (Reduced(b, n, r, x) <=> r = add_words(x, b).sum)
<1> DEFINE s == add_words(x, b).sum   c == add_words(x, b).carry   M == Modulus
<1>1. s \in Word /\ c \in {0, 1} /\ x + b = s + c * M
  BY AddWords DEF IsSum
<1>2. M \in Nat /\ 0 \in Word /\ c \in Word /\ c \in Nat /\ s \in Nat /\ n \in Nat /\ r \in Nat
  <2>1. M \in Nat /\ 0 \in Word /\ 1 \in Word /\ Word \subseteq Nat
    BY Sizes DEF Word
  <2> HIDE DEF s, c, M
  <2> QED
    BY <1>1, <2>1
<1>3. \A d \in Word : d \in Nat
  BY Sizes DEF Word
<1>4. CASE n # 0
  <2>1. Reduced(b, n, r, x) <=> \E d \in Word : mul_add_words_512(d, n, r, c, s)
    BY <1>4 DEF Reduced
  <2>2. ASSUME NEW d \in Word
        PROVE  mul_add_words_512(d, n, r, c, s) <=> x + b = r + d * n
    <3>1. mul_add_words_512(d, n, r, c, s) <=> Exceeds(d * n + r, s, c)
      <4> HIDE DEF s, c
      <4> QED
        BY <1>1, <1>2, MulAdd512Is
    <3>2. Exceeds(d * n + r, s, c) <=> d * n + r = s + c * M
      BY DEF Exceeds
    <3>3. d * n + r = r + d * n
      BY <1>2, <1>3
    <3> QED
      BY <1>1, <3>1, <3>2, <3>3
  <2> QED
    BY <1>4, <2>1, <2>2
<1>5. CASE n = 0
  <2>1. Reduced(b, n, r, x) <=> \E d \in Word : mul_add_words_512(d, n, r, 0, s)
    BY <1>5 DEF Reduced
  <2>2. ASSUME NEW d \in Word
        PROVE  mul_add_words_512(d, n, r, 0, s) <=> r = s
    <3>1. mul_add_words_512(d, n, r, 0, s) <=> Exceeds(d * n + r, s, 0)
      <4> HIDE DEF s
      <4> QED
        BY <1>1, <1>2, MulAdd512Is
    <3>2. Exceeds(d * n + r, s, 0) <=> d * n + r = s + 0 * M
      BY DEF Exceeds
    <3>3. d * n + r = r /\ s + 0 * M = s
      <4> HIDE DEF s, M
      <4> QED
        BY <1>2, <1>3, <1>5
    <3> QED
      BY <3>1, <3>2, <3>3
  <2> QED
    BY <1>2, <1>5, <2>1, <2>2
<1> QED
  BY <1>4, <1>5

\* The remainder of a sum, of which one word is reduced before.
LEMMA ReducedFirst ==
  ASSUME machine \in Machines, NEW a \in Word, NEW b \in Word, NEW n \in Word, n # 0
  PROVE  LET r == (a + b) % n
         IN  /\ r \in Word /\ r < n
             /\ \E d \in Word : (a % n) + b = r + d * n
             /\ \A s, d \in Word : s < n /\ (a % n) + b = s + d * n => s = r
<1> DEFINE x == a % n   q == a \div n   u == a + b   v == x + b   r == u % n   M == Modulus
           d == v \div n
<1>1. x \in Word /\ x < n /\ a = x + q * n /\ q \in Word
  BY WordDivision
<1>2. a \in Nat /\ b \in Nat /\ n \in Nat /\ n >= 1 /\ M \in Nat /\ n < M /\ b < M
      /\ x \in Nat /\ q \in Nat
      /\ u \in Nat /\ v \in Nat
  BY <1>1, Sizes DEF Word
<1> HIDE DEF x, q
<1>3. Divided(u, n, u \div n, r)
  <2> HIDE DEF u
  <2> QED
    BY <1>2 DEF Divided
<1>4. Divided(v, n, d, v % n)
  <2> HIDE DEF v
  <2> QED
    BY <1>2 DEF Divided
<1>5. r \in Nat /\ r < n /\ r \in Word
  <2> HIDE DEF r
  <2> QED
    BY <1>2, <1>3 DEF Divided, Word
<1>6. v % n = r
  <2> DEFINE e == u \div n   f == e - q
  <2>1. e \in Nat /\ u = r + e * n /\ v = u - q * n
    <3>1. u = x + q * n + b /\ v = x + b
      BY <1>1
    <3>2. q * n \in Int /\ x \in Int /\ b \in Int
      BY <1>2
    <3>3. v = u - q * n
      <4> DEFINE qn == q * n
      <4>1. u = x + qn + b /\ v = x + b /\ qn \in Int
        BY <3>1, <3>2
      <4> HIDE DEF u, v, qn
      <4>2. v = u - qn
        BY <3>2, <4>1
      <4> QED
        BY <4>2 DEF qn
    <3> HIDE DEF u, v, e
    <3>4. e \in Nat /\ u = r + e * n
      BY <1>2, <1>3 DEF Divided, e
    <3> QED
      BY <3>3, <3>4
  <2> HIDE DEF u, v, e, r
  <2>2. f \in Int /\ v = r + f * n
    <3>1. (e - q) * n = e * n - q * n /\ e * n \in Int /\ q * n \in Int
      BY <1>2, <2>1
    <3> QED
      BY <1>2, <1>5, <2>1, <3>1
  <2> HIDE DEF f
  <2>3. Divided(v, n, f, r)
    BY <1>2, <1>5, <2>2 DEF Divided
  <2> QED
    BY <1>2, <2>3, DivMod
<1>7. v = r + d * n /\ d \in Nat
  BY <1>2, <1>4, <1>6 DEF Divided
<1>8. d \in Word
  <2>1. v < n + M - 1
    BY <1>1, <1>2
  <2> HIDE DEF v, d, r
  <2>2. ~(d >= M)
    <3> SUFFICES ASSUME d >= M PROVE FALSE
      OBVIOUS
    <3>1. d * n >= M * n
      BY <1>2, <1>7
    <3>2. (M - 1) * (n - 1) >= 0 /\ (M - 1) * (n - 1) = M * n - M - n + 1
      BY <1>2
    <3> DEFINE Mn == M * n   dn == d * n
    <3>3. Mn \in Int /\ dn \in Int
      BY <1>2, <1>7
    <3>4. dn >= Mn /\ Mn - M - n + 1 >= 0 /\ v = r + dn
      BY <1>7, <3>1, <3>2
    <3> HIDE DEF Mn, dn, M
    <3> QED
      BY <1>2, <1>5, <2>1, <3>3, <3>4
  <2> QED
    BY <1>2, <1>7, <2>2 DEF Word, M
<1>9. ASSUME NEW s \in Word, NEW e \in Word, s < n, v = s + e * n
      PROVE  s = r
  <2>1. s \in Nat /\ e \in Nat
    BY <1>9, Sizes DEF Word
  <2> HIDE DEF v
  <2>2. Divided(v, n, e, s)
    BY <1>2, <1>9, <2>1 DEF Divided
  <2>3. v % n = s
    BY <1>2, <2>2, DivMod
  <2> QED
    BY <1>6, <2>3
<1>10. \E e \in Word : v = r + e * n
  BY <1>7, <1>8
<1> QED
  BY <1>5, <1>9, <1>10 DEF v, x

LEMMA AddmodExact ==
  ASSUME machine \in Machines, NEW a \in Word, NEW b \in Word, NEW n \in Word
  PROVE  addmod(a, b, n) = {IF n = 0 THEN 0 ELSE (a + b) % n}
<1> DEFINE X == {x \in Word : Reduction(a, n, x)}
           R == {r \in Word : (n # 0 => compare_word_lt(r, n)) /\ \E x \in X : Reduced(b, n, r, x)}
<1>1. addmod(a, b, n) = {IF n = 0 THEN 0 ELSE r : r \in R}
  BY AddmodIs
<1>2. CASE n = 0
  <2>1. X = {a}
    <3>1. \A y \in Word : Reduction(a, n, y) <=> y = a
      BY <1>2, ReductionIs
    <3> QED
      BY <3>1
  <2> HIDE DEF X
  <2>2. add_words(a, b).sum \in Word
    BY AddWords DEF IsSum
  <2>3. add_words(a, b).sum \in R
    BY <1>2, <2>1, <2>2, ReducedIs
  <2>4. R # {}
    BY <2>3
  <2> HIDE DEF R
  <2>5. {0 : r \in R} = {0}
    BY <2>4
  <2>6. addmod(a, b, n) = {0 : r \in R}
    BY <1>1, <1>2
  <2> QED
    BY <1>2, <2>5, <2>6
<1>3. CASE n # 0
  <2> DEFINE x == a % n   t == (a + b) % n
  <2>1. X = {x} /\ x \in Word
    <3>1. x \in Word
      BY <1>3, WordDivision
    <3>2. \A y \in Word : Reduction(a, n, y) <=> y = x
      BY <1>3, ReductionIs
    <3> QED
      BY <3>1, <3>2
  <2> HIDE DEF X
  <2>2. /\ t \in Word /\ t < n
        /\ \E d \in Word : x + b = t + d * n
        /\ \A s, d \in Word : s < n /\ x + b = s + d * n => s = t
    BY <1>3, ReducedFirst
  <2> HIDE DEF x, t
  <2>3. \A r \in Word : r \in R <=> r < n /\ \E d \in Word : x + b = r + d * n
    BY <1>3, <2>1, CompareIs, ReducedIs
  <2>4. t \in R
    BY <2>2, <2>3
  <2>5. \A r \in R : r = t
    <3>1. \A r \in R : r \in Word
      OBVIOUS
    <3> HIDE DEF R
    <3> QED
      BY <2>2, <2>3, <3>1
  <2> HIDE DEF R
  <2>6. R = {t}
    BY <2>4, <2>5
  <2>7. addmod(a, b, n) = {r : r \in R}
    BY <1>1, <1>3
  <2> QED
    BY <1>3, <2>6, <2>7 DEF t
<1> QED
  BY <1>2, <1>3

-----------------------------------------------------------------------------
(* Comparisons.                                                            *)

LEMMA CmpExact ==
  ASSUME machine \in Machines, NEW a \in Word, NEW b \in Word
  PROVE  /\ cmp("LT", a, b) = {Bool(a < b)} /\ cmp("GT", a, b) = {Bool(a > b)}
         /\ cmp("EQ", a, b) = {Bool(a = b)}
<1>1. cmp("LT", a, b) = {Bool(compare_word_lt(a, b))} /\ cmp("GT", a, b) = {Bool(compare_word_lt(b, a))}
  BY DEF cmp
<1>2. cmp("EQ", a, b) = {Bool(Hi(a) = Hi(b) /\ Lo(a) = Lo(b))}
  BY DEF cmp
<1>3. a \in Int /\ b \in Int
  BY Sizes DEF Word
<1>4. a = Lo(a) + Hi(a) * HalfBase /\ b = Lo(b) + Hi(b) * HalfBase
  BY Halves
<1>5. (Hi(a) = Hi(b) /\ Lo(a) = Lo(b)) <=> a = b
  BY <1>4
<1>6. (compare_word_lt(a, b) <=> a < b) /\ (compare_word_lt(b, a) <=> a > b)
  BY <1>3, CompareIs
<1> QED
  BY <1>1, <1>2, <1>5, <1>6 DEF Bool

LEMMA IszeroExact ==
  ASSUME machine \in Machines, NEW a \in Word
  PROVE  iszero(a) = {Bool(a = 0)}
<1> DEFINE l == Lo(a)   h == Hi(a)   H == HalfBase
<1>1. l \in Nat /\ h \in Nat /\ a = l + h * H /\ H \in Nat \ {0}
  BY Halves, Sizes
<1>2. iszero(a) = {Bool(l + h = 0)}
  BY DEF iszero
<1> HIDE DEF l, h, H
<1>3. l + h = 0 <=> a = 0
  <2>1. h # 0 => h * H # 0
    BY <1>1
  <2>2. h * H \in Nat
    BY <1>1
  <2>3. h = 0 => h * H = 0
    BY <1>1
  <2> QED
    BY <1>1, <2>1, <2>2, <2>3
<1> QED
  BY <1>2, <1>3 DEF Bool

-----------------------------------------------------------------------------
(* Bytes and signs.                                                        *)

LEMMA BytesFit ==
  ASSUME machine \in Machines
  PROVE  NBytes \in 1 .. Bits /\ Evm!Power(ByteBase, NBytes) = Modulus
<1>1. \E n \in 1 .. Bits : Evm!Power(ByteBase, n) = Evm!Modulus
  BY MachinesAssumption DEF MachinesAssumption, Bits, ByteBase, Evm!Modulus, Evm!Bits
<1>2. NBytes = CHOOSE n \in 1 .. Bits : Evm!Power(ByteBase, n) = Evm!Modulus
  BY DEF NBytes, Evm!NBytes, Evm!Bits, Evm!ByteBase, Bits, ByteBase
<1>3. NBytes \in 1 .. Bits /\ Evm!Power(ByteBase, NBytes) = Evm!Modulus
  BY <1>1, <1>2
<1> QED
  BY <1>3, Sizes

\* A word is negative when its highest byte has its highest bit.
LEMMA SignIs ==
  ASSUME machine \in Machines, NEW x \in Word
  PROVE  TopByteIsNegative(x) <=> ~(x < Modulus \div 2)
<1> DEFINE n == NBytes - 1   P == Evm!Power(ByteBase, n)   b == ByteBase   h == b \div 2
           t == x \div P
<1>1. n \in Nat /\ b \in Nat /\ b >= 4 /\ b = 2 * h /\ h \in Nat /\ Modulus \in Nat
  BY BytesFit, Sizes DEF ByteBase
<1>2. P \in Nat \ {0} /\ Modulus = b * P
  <2>1. P \in Nat \ {0}
    <3> HIDE DEF n
    <3> QED
      BY <1>1, PowerPositive
  <2>2. Evm!Power(b, n + 1) = b * Evm!Power(b, n)
    <3> HIDE DEF n, b
    <3> QED
      BY <1>1, PowerSteps
  <2>3. n + 1 = NBytes
    BY BytesFit, Sizes
  <2> QED
    BY <2>1, <2>2, <2>3, BytesFit
<1>3. x \in Nat /\ x < b * P
  BY <1>1, <1>2 DEF Word
<1> HIDE DEF n, P, b, h
<1>4. t \in 0 .. b - 1
  BY <1>1, <1>2, <1>3, DivLess
<1>5. Divided(x, P, t, x % P)
  BY <1>2, <1>3 DEF Divided
<1>6. t % b = t
  <2> HIDE DEF t
  <2>1. Divided(t, b, 0, t)
    BY <1>1, <1>4 DEF Divided
  <2> QED
    BY <1>1, <1>4, <2>1, DivMod
<1>7. TopByteIsNegative(x) <=> t >= h
  <2>1. TopByteIsNegative(x) <=> t % b >= h
    BY DEF TopByteIsNegative, Byte, P, n, b, h
  <2> QED
    BY <1>6, <2>1
<1>8. Modulus \div 2 = h * P
  <2> DEFINE k == h * P
  <2>1. k \in Nat /\ Modulus = 2 * k
    BY <1>1, <1>2
  <2> HIDE DEF k
  <2>2. Modulus \div 2 = k
    BY <2>1
  <2> QED
    BY <2>2 DEF k
<1> HIDE DEF t
<1>9. t >= h <=> ~(x < h * P)
  <2> DEFINE r == x % P
  <2>1. x = r + t * P /\ r \in 0 .. P - 1 /\ t \in Nat
    BY <1>4, <1>5 DEF Divided
  <2> HIDE DEF r
  <2>2. ASSUME t >= h PROVE ~(x < h * P)
    <3>1. h * P <= t * P
      BY <1>1, <1>2, <2>1, <2>2
    <3> QED
      BY <1>1, <1>2, <2>1, <3>1
  <2>3. ASSUME t < h PROVE x < h * P
    <3>1. t * P + P <= h * P
      BY <1>1, <1>2, <2>1, <2>3
    <3> QED
      BY <1>1, <1>2, <2>1, <3>1
  <2> QED
    BY <1>1, <2>1, <2>2, <2>3
<1> QED
  BY <1>7, <1>8, <1>9

LEMMA ScmpExact ==
  ASSUME machine \in Machines, NEW a \in Word, NEW b \in Word
  PROVE  /\ scmp("SLT", a, b) = {Bool(Evm!ToSigned(a) < Evm!ToSigned(b))}
         /\ scmp("SGT", a, b) = {Bool(Evm!ToSigned(a) > Evm!ToSigned(b))}
<1> DEFINE Less_(x, y) == IF TopByteIsNegative(x) # TopByteIsNegative(y)
                          THEN TopByteIsNegative(x) ELSE compare_word_lt(x, y)
<1>1. scmp("SLT", a, b) = {Bool(Less_(a, b))} /\ scmp("SGT", a, b) = {Bool(Less_(b, a))}
  BY DEF scmp
<1>2. /\ TopByteIsNegative(a) <=> ~(a < Modulus \div 2)
      /\ TopByteIsNegative(b) <=> ~(b < Modulus \div 2)
  BY SignIs
<1>3. (compare_word_lt(a, b) <=> a < b) /\ (compare_word_lt(b, a) <=> b < a)
  BY CompareIs
<1>4. /\ Evm!ToSigned(a) = (IF a < Modulus \div 2 THEN a ELSE a - Modulus)
      /\ Evm!ToSigned(b) = (IF b < Modulus \div 2 THEN b ELSE b - Modulus)
  BY Sizes DEF Evm!ToSigned
<1> DEFINE g == Modulus \div 2
<1>5. /\ a \in Int /\ b \in Int /\ Modulus \in Int /\ g \in Int
      /\ 0 <= a /\ a < Modulus /\ 0 <= b /\ b < Modulus
  BY Sizes DEF Word
<1> HIDE DEF g
<1>6. (Less_(a, b) <=> Evm!ToSigned(a) < Evm!ToSigned(b))
      /\ (Less_(b, a) <=> Evm!ToSigned(a) > Evm!ToSigned(b))
  <2>1. CASE a < g /\ b < g
    <3>1. ~TopByteIsNegative(a) /\ ~TopByteIsNegative(b)
      BY <1>2, <2>1 DEF g
    <3>2. TopByteIsNegative(a) \in BOOLEAN /\ TopByteIsNegative(b) \in BOOLEAN
      BY DEF TopByteIsNegative
    <3>3. TopByteIsNegative(a) = TopByteIsNegative(b)
      BY <3>1, <3>2
    <3>4. (Less_(a, b) <=> a < b) /\ (Less_(b, a) <=> b < a)
      BY <1>3, <3>3, Zenon
    <3>5. Evm!ToSigned(a) = a /\ Evm!ToSigned(b) = b
      BY <1>4, <2>1 DEF g
    <3> HIDE DEF Less_
    <3> QED
      BY <1>5, <2>1, <3>4, <3>5
  <2>2. CASE a < g /\ ~(b < g)
    <3>1. ~TopByteIsNegative(a) /\ TopByteIsNegative(b)
      BY <1>2, <2>2 DEF g
    <3>2. (Less_(a, b) <=> FALSE) /\ (Less_(b, a) <=> TRUE)
      BY <1>3, <3>1
    <3>3. Evm!ToSigned(a) = a /\ Evm!ToSigned(b) = b - Modulus
      BY <1>4, <2>2 DEF g
    <3> HIDE DEF Less_
    <3> QED
      BY <1>5, <2>2, <3>2, <3>3
  <2>3. CASE ~(a < g) /\ b < g
    <3>1. TopByteIsNegative(a) /\ ~TopByteIsNegative(b)
      BY <1>2, <2>3 DEF g
    <3>2. (Less_(a, b) <=> TRUE) /\ (Less_(b, a) <=> FALSE)
      BY <1>3, <3>1
    <3>3. Evm!ToSigned(a) = a - Modulus /\ Evm!ToSigned(b) = b
      BY <1>4, <2>3 DEF g
    <3> HIDE DEF Less_
    <3> QED
      BY <1>5, <2>3, <3>2, <3>3
  <2>4. CASE ~(a < g) /\ ~(b < g)
    <3>1. TopByteIsNegative(a) /\ TopByteIsNegative(b)
      BY <1>2, <2>4 DEF g
    <3>2. TopByteIsNegative(a) \in BOOLEAN /\ TopByteIsNegative(b) \in BOOLEAN
      BY DEF TopByteIsNegative
    <3>3. TopByteIsNegative(a) = TopByteIsNegative(b)
      BY <3>1, <3>2
    <3>4. (Less_(a, b) <=> a < b) /\ (Less_(b, a) <=> b < a)
      BY <1>3, <3>3, Zenon
    <3>5. Evm!ToSigned(a) = a - Modulus /\ Evm!ToSigned(b) = b - Modulus
      BY <1>4, <2>4 DEF g
    <3> HIDE DEF Less_
    <3> QED
      BY <1>5, <2>4, <3>4, <3>5
  <2> QED
    BY <2>1, <2>2, <2>3, <2>4
<1> HIDE DEF Less_
<1> QED
  BY <1>1, <1>6 DEF Bool

LEMMA LowByteIs ==
  ASSUME machine \in Machines, NEW x \in Word
  PROVE  (AboveLowByte(x) = 0 <=> x < Bits) /\ (x < Bits => Byte(x, 0) = x)
<1> DEFINE b == ByteBase   q == x \div b   r == x % b
<1>1. b = Bits /\ b \in Nat \ {0} /\ x \in Nat
  BY Sizes DEF ByteBase, Word
<1>2. AboveLowByte(x) = q
  BY DEF AboveLowByte
<1>3. Byte(x, 0) = r
  <2>1. Evm!Power(b, 0) = 1
    BY <1>1, PowerSteps
  <2>2. x \div 1 = x
    BY <1>1
  <2> QED
    BY <2>1, <2>2 DEF Byte
<1> HIDE DEF b
<1>4. Divided(x, b, q, r)
  BY <1>1 DEF Divided
<1>5. q \in Nat /\ r \in 0 .. b - 1 /\ x = r + q * b
  BY <1>1, <1>4 DEF Divided
<1> HIDE DEF q, r
<1>6. CASE q = 0
  <2>1. x = r
    BY <1>1, <1>5, <1>6
  <2> QED
    BY <1>1, <1>2, <1>3, <1>5, <1>6, <2>1
<1>7. CASE q # 0
  <2>1. b <= q * b
    BY <1>1, <1>5, <1>7
  <2>2. ~(x < b)
    BY <1>1, <1>5, <2>1
  <2> QED
    BY <1>1, <1>2, <1>7, <2>2
<1> QED
  BY <1>6, <1>7

LEMMA ByteExact ==
  ASSUME machine \in Machines, NEW a \in Word, NEW b \in Word
  PROVE  byte(a, b) = {IF a < Evm!NBytes THEN Evm!ByteOf(b, Evm!NBytes - 1 - a) ELSE 0}
<1>1. a < NBytes => AboveLowByte(a) = 0
  <2>1. NBytes \in Nat /\ NBytes <= Bits /\ Bits \in Nat /\ a \in Nat
    BY BytesFit, Sizes DEF Word
  <2> QED
    BY <2>1, LowByteIs
<1>2. \A i : Byte(b, i) = Evm!ByteOf(b, i)
  BY DEF Byte, Evm!ByteOf, ByteBase, Bits, Evm!ByteBase, Evm!Bits
<1>3. NBytes = Evm!NBytes
  BY DEF NBytes
<1> HIDE DEF NBytes
<1> QED
  BY <1>1, <1>2, <1>3 DEF byte

-----------------------------------------------------------------------------
(* Shifts.                                                                 *)

\* The word a shift multiplies or divides by.
Divisor(s) == IF s < Bits THEN Evm!Power(2, s) ELSE 0

\* A number and its halves.
LEMMA HalvesAre ==
  ASSUME machine \in Machines, NEW l \in 0 .. HalfBase - 1, NEW h \in 0 .. HalfBase - 1
  PROVE  /\ l + h * HalfBase \in Word
         /\ \A w \in Word : Lo(w) = l /\ Hi(w) = h <=> w = l + h * HalfBase
<1> DEFINE H == HalfBase   v == l + h * H
<1>1. H \in Nat \ {0} /\ Modulus = H * H
  BY Sizes
<1>2. v \in Word
  <2> HIDE DEF H
  <2>1. h * H + H <= H * H /\ h * H \in Nat
    BY <1>1, Sizes DEF H
  <2>2. v \in 0 .. H * H - 1
    BY <1>1, <2>1 DEF H
  <2> QED
    BY <1>1, <2>2 DEF Word
<1>3. Lo(v) = l /\ Hi(v) = h
  <2>1. Divided(v, H, h, l) /\ v \in Int
    BY <1>1 DEF Divided
  <2> HIDE DEF v
  <2>2. v % H = l /\ v \div H = h
    BY <1>1, <2>1, DivMod
  <2> QED
    BY <2>2 DEF Lo, Hi
<1>4. ASSUME NEW w \in Word, Lo(w) = l, Hi(w) = h
      PROVE  w = v
  BY <1>4, Halves
<1> QED
  BY <1>2, <1>3, <1>4

\* The table of powers has the halves of the power for every shift below a word.
LEMMA Pow2Is ==
  ASSUME machine \in Machines, NEW s \in 0 .. Bits - 1
  PROVE  /\ Evm!Power(2, s) \in Word \ {0}
         /\ \A w \in Word : <<s, Lo(w), Hi(w)>> \in Pow2 <=> w = Evm!Power(2, s)
<1> DEFINE m == 2 * machine.limb   H == HalfBase   D == Evm!Power(2, s)
<1>1. m \in Nat /\ Bits = m + m /\ H = Evm!Power(2, m) /\ H \in Nat \ {0} /\ s \in Nat
      /\ D \in Nat \ {0} /\ Modulus = H * H
  <2>1. s \in Nat
    OBVIOUS
  <2> QED
    <3>1. machine.limb \in Nat /\ HalfBase \in Nat /\ HalfBase >= 4
      BY Sizes
    <3>2. m \in Nat /\ Bits = m + m
      BY <3>1 DEF Bits
    <3>3. H = Evm!Power(2, m) /\ H \in Nat \ {0} /\ Modulus = H * H
      BY <3>1, Sizes
    <3>4. D \in Nat \ {0}
      BY <2>1, PowerPositive
    <3> QED
      BY <2>1, <3>2, <3>3, <3>4
\* A power of a smaller number is smaller.
<1>2. \A i \in Nat : i < m => Evm!Power(2, i) \in 0 .. H - 1 /\ Evm!Power(2, i) # 0
  <2> SUFFICES ASSUME NEW i \in Nat, i < m
               PROVE  Evm!Power(2, i) \in 0 .. H - 1 /\ Evm!Power(2, i) # 0
    OBVIOUS
  <2> DEFINE k == m - i - 1   x == Evm!Power(2, i)   y == Evm!Power(2, k)
  <2>1. k \in Nat /\ m = (i + k) + 1
    BY <1>1
  <2> HIDE DEF k
  <2>2. x \in Nat \ {0} /\ y \in Nat \ {0}
    BY <2>1, PowerPositive
  <2>3. Evm!Power(2, i + k) = x * y
    BY <2>1, PowerAdd
  <2> DEFINE j == i + k
  <2>4. j \in Nat /\ m = j + 1 /\ Evm!Power(2, j) = x * y
    BY <2>1, <2>3
  <2> HIDE DEF j, x, y
  <2>5. Evm!Power(2, j + 1) = 2 * Evm!Power(2, j)
    BY <2>4, PowerSteps
  <2>6. H = 2 * (x * y)
    BY <1>1, <2>4, <2>5
  <2>7. x <= x * y /\ x * y \in Nat
    BY <2>2
  <2> QED
    BY <1>1, <2>2, <2>6, <2>7 DEF x
<1>3. CASE s < m
  <2>1. D \in 0 .. H - 1
    BY <1>1, <1>2, <1>3
  <2>2. D + 0 * H = D /\ 0 \in 0 .. H - 1
    <3> HIDE DEF D, H
    <3> QED
      BY <1>1
  <2>3. D \in Word /\ \A w \in Word : Lo(w) = D /\ Hi(w) = 0 <=> w = D
    <3> HIDE DEF D
    <3> QED
      BY <2>1, <2>2, HalvesAre
  <2>4. \A l, h : <<s, l, h>> \in Pow2 <=> l = D /\ h = 0
    BY <1>3 DEF Pow2
  <2> QED
    BY <1>1, <2>3, <2>4
<1>4. CASE ~(s < m)
  <2> DEFINE i == s - m   x == Evm!Power(2, i)
  <2>1. i \in Nat /\ i < m /\ s = i + m
    BY <1>1, <1>4
  <2>2. D = x * H
    <3> HIDE DEF i
    <3>1. Evm!Power(2, i + m) = Evm!Power(2, i) * Evm!Power(2, m)
      BY <1>1, <2>1, PowerAdd, ZenonT(60)
    <3> QED
      BY <1>1, <2>1, <3>1
  <2>3. x \in 0 .. H - 1 /\ x # 0
    BY <1>2, <2>1
  <2>4. D = 0 + x * H /\ 0 \in 0 .. H - 1
    <3> HIDE DEF D, H, x
    <3> QED
      BY <1>1, <2>2
  <2>5. D \in Word /\ \A w \in Word : Lo(w) = 0 /\ Hi(w) = x <=> w = D
    <3> HIDE DEF D, x
    <3> QED
      BY <2>3, <2>4, HalvesAre
  <2>6. \A l, h : <<s, l, h>> \in Pow2 <=> l = 0 /\ h = x
    BY <1>4 DEF Pow2
  <2> QED
    BY <1>1, <2>5, <2>6
<1> QED
  BY <1>3, <1>4

LEMMA DivisorIs ==
  ASSUME machine \in Machines, NEW s \in Word
  PROVE  /\ Divisor(s) \in Word
         /\ \A w \in Word :
              /\ (w # 0) = (AboveLowByte(s) = 0)
              /\ w # 0 => <<Byte(s, 0), Lo(w), Hi(w)>> \in Pow2
              <=> w = Divisor(s)
<1>1. s \in Nat /\ Bits \in Nat /\ 0 \in Word
  BY Sizes DEF Word
<1>2. (AboveLowByte(s) = 0 <=> s < Bits) /\ (s < Bits => Byte(s, 0) = s)
  BY LowByteIs
<1>3. CASE s < Bits
  <2>1. s \in 0 .. Bits - 1
    BY <1>1, <1>3
  <2>2. /\ Evm!Power(2, s) \in Word \ {0}
        /\ \A w \in Word : <<s, Lo(w), Hi(w)>> \in Pow2 <=> w = Evm!Power(2, s)
    BY <2>1, Pow2Is
  <2> QED
    BY <1>2, <1>3, <2>2 DEF Divisor
<1>4. CASE ~(s < Bits)
  BY <1>1, <1>2, <1>4 DEF Divisor
<1> QED
  BY <1>3, <1>4

LEMMA ShlExact ==
  ASSUME machine \in Machines, NEW s \in Word, NEW a \in Word
  PROVE  shl_shr("SHL", s, a) = {IF s < Bits THEN (a * Evm!Power(2, s)) % Modulus ELSE 0}
<1> DEFINE D == Divisor(s)   z == (a * D) % Modulus
           W == {w \in [divisor : Word, push : Word] : \E remainder \in Word :
                   check_shift("SHL", s, a, w.divisor, remainder, w.push)}
<1>1. D \in Word /\ 0 \in Word /\ Word \subseteq Nat
  BY DivisorIs, Sizes DEF Word
<1>2. ASSUME NEW v \in Word, NEW r \in Word, NEW p \in Word
      PROVE  check_shift("SHL", s, a, v, r, p) <=> v = D /\ r = 0 /\ p = z
  <2>1. check_shift("SHL", s, a, v, r, p) <=>
          /\ (v # 0) = (AboveLowByte(s) = 0)
          /\ v # 0 => <<Byte(s, 0), Lo(v), Hi(v)>> \in Pow2
          /\ v # 0 => compare_word_lt(r, v)
          /\ r = 0
          /\ mul_add_words(a, v, r, p).holds
    BY DEF check_shift
  <2>2. check_shift("SHL", s, a, v, r, p) <=>
          /\ v = D
          /\ v # 0 => compare_word_lt(r, v)
          /\ r = 0
          /\ mul_add_words(a, v, r, p).holds
    BY <2>1, DivisorIs
  <2>3. ASSUME r = 0 PROVE v # 0 => compare_word_lt(r, v)
    BY <1>1, <2>3, CompareIs
  <2>4. mul_add_words(a, D, 0, p).holds <=> p = z
    <3>1. mul(a, D) = {z}
      <4> HIDE DEF D
      <4> QED
        BY <1>1, MulExact
    <3> HIDE DEF D, z
    <3> QED
      BY <3>1 DEF mul
  <2> QED
    BY <2>2, <2>3, <2>4
<1>3. shl_shr("SHL", s, a) = {w.push : w \in W}
  BY DEF shl_shr
<1>4. z \in Word
  <2> DEFINE p == a * D
  <2>1. p \in Int
    <3> HIDE DEF D
    <3> QED
      BY <1>1
  <2> HIDE DEF p
  <2>2. p % Modulus \in Word
    BY <2>1, ModWord
  <2> QED
    BY <2>2 DEF p
<1> HIDE DEF D, z
<1>5. W = {[divisor |-> D, push |-> z]}
  <2>1. [divisor |-> D, push |-> z] \in W
    BY <1>1, <1>2, <1>4
  <2>2. ASSUME NEW w \in W PROVE w = [divisor |-> D, push |-> z]
    <3>1. w \in [divisor : Word, push : Word] /\ w.divisor = D /\ w.push = z
      BY <1>2
    <3> QED
      BY <3>1
  <2> HIDE DEF W
  <2> QED
    BY <2>1, <2>2
<1> HIDE DEF W
<1>6. shl_shr("SHL", s, a) = {z}
  BY <1>3, <1>5
<1>7. z = IF s < Bits THEN (a * Evm!Power(2, s)) % Modulus ELSE 0
  <2>1. CASE s < Bits
    BY <2>1 DEF z, D, Divisor
  <2>2. CASE ~(s < Bits)
    <3>1. D = 0 /\ z = (a * D) % Modulus
      BY <2>2 DEF D, z, Divisor
    <3>2. a * D = 0 /\ Modulus \in Nat \ {0}
      BY <1>1, <3>1, Sizes
    <3>3. 0 % Modulus = 0
      BY <3>2
    <3> QED
      BY <2>2, <3>1, <3>2, <3>3
  <2> QED
    BY <2>1, <2>2
<1> QED
  BY <1>6, <1>7

LEMMA ShrExact ==
  ASSUME machine \in Machines, NEW s \in Word, NEW a \in Word
  PROVE  shl_shr("SHR", s, a) = {IF s < Bits THEN a \div Evm!Power(2, s) ELSE 0}
<1> DEFINE D == Divisor(s)
           W == {w \in [divisor : Word, push : Word] : \E remainder \in Word :
                   check_shift("SHR", s, w.push, w.divisor, remainder, a)}
<1>1. D \in Word /\ 0 \in Word /\ Word \subseteq Nat
  BY DivisorIs, Sizes DEF Word
<1>2. ASSUME NEW v \in Word, NEW r \in Word, NEW p \in Word
      PROVE  check_shift("SHR", s, p, v, r, a) <=> v = D /\ (v # 0 => r < v) /\ a = r + p * v
  <2>1. check_shift("SHR", s, p, v, r, a) <=>
          /\ (v # 0) = (AboveLowByte(s) = 0)
          /\ v # 0 => <<Byte(s, 0), Lo(v), Hi(v)>> \in Pow2
          /\ v # 0 => compare_word_lt(r, v)
          /\ ExactMulAdd(p, v, r, a)
    BY DEF check_shift, ExactMulAdd
  <2> QED
    BY <2>1, DivisorIs, CompareIs, ExactIs
<1>3. shl_shr("SHR", s, a) = {IF w.divisor = 0 THEN 0 ELSE w.push : w \in W}
  BY DEF shl_shr
<1>4. \A w \in W : /\ w \in [divisor : Word, push : Word] /\ w.divisor = D
                   /\ \E r \in Word : (D # 0 => r < D) /\ a = r + w.push * D
  BY <1>2
<1>5. \A p, r \in Word : (D # 0 => r < D) /\ a = r + p * D => [divisor |-> D, push |-> p] \in W
  BY <1>1, <1>2
<1> HIDE DEF W
<1>6. CASE D = 0
  <2>1. [divisor |-> D, push |-> 0] \in W
    <3>1. a = a + 0 * D
      BY <1>1, <1>6
    <3> QED
      BY <1>1, <1>5, <1>6, <3>1
  <2>2. shl_shr("SHR", s, a) = {0 : w \in W}
    BY <1>3, <1>4, <1>6
  <2>3. W # {}
    BY <2>1
  <2>4. shl_shr("SHR", s, a) = {0}
    BY <2>2, <2>3
  <2>5. ~(s < Bits)
    <3>1. s < Bits => s \in 0 .. Bits - 1
      BY Sizes DEF Word
    <3> QED
      BY <1>6, <3>1, Pow2Is DEF Divisor
  <2> QED
    BY <2>4, <2>5
<1>7. CASE D # 0
  <2>1. s < Bits /\ D = Evm!Power(2, s)
    BY <1>7 DEF Divisor
  <2> HIDE DEF D
  <2> DEFINE q == a \div D   r == a % D
  <2>2. /\ q \in Word /\ r \in Word /\ r < D /\ a = r + q * D
        /\ \A u, v \in Word : v < D /\ a = v + u * D => u = q /\ v = r
    BY <1>1, <1>7, WordDivision
  <2> HIDE DEF q, r
  <2>3. [divisor |-> D, push |-> q] \in W
    BY <1>5, <2>2
  <2>4. \A w \in W : w.divisor = D /\ w.push = q
    <3> SUFFICES ASSUME NEW w \in W PROVE w.divisor = D /\ w.push = q
      OBVIOUS
    <3>1. w.push \in Word /\ w.divisor = D
      BY <1>4
    <3>2. PICK v \in Word : v < D /\ a = v + w.push * D
      BY <1>4, <1>7
    <3> QED
      BY <2>2, <3>1, <3>2
  <2>5. shl_shr("SHR", s, a) = {q}
    <3>1. ASSUME NEW z PROVE z \in shl_shr("SHR", s, a) <=> z = q
      BY <1>3, <1>7, <2>3, <2>4
    <3> QED
      BY <3>1
  <2> QED
    BY <2>1, <2>5 DEF q
<1> QED
  BY <1>6, <1>7

-----------------------------------------------------------------------------
(* The arithmetic shift to the right.                                      *)

\* The only split of a limb at a power of two.
LEMMA SplitIs ==
  ASSUME machine \in Machines, NEW P \in Nat \ {0}, NEW Q \in Nat \ {0}, P * Q = Base,
         NEW l \in 0 .. Base - 1
  PROVE  /\ SplitsOf(l, P, Q) = {<<l % P, l \div P>>}
         /\ l % P \in 0 .. P - 1 /\ l \div P \in 0 .. Q - 1 /\ l = (l % P) + (l \div P) * P
<1> DEFINE u == l % P   v == l \div P   B == Base
<1>1. B \in Nat \ {0} /\ l \in Nat /\ l < Q * P /\ P <= B /\ Q <= B
  <2>1. P * Q = Q * P /\ P <= P * Q /\ Q <= P * Q
    OBVIOUS
  <2> QED
    BY <2>1, Sizes
<1>2. Divided(l, P, v, u)
  BY <1>1 DEF Divided
<1>3. v \in 0 .. Q - 1
  BY <1>1, DivLess
<1>4. u \in 0 .. P - 1 /\ l = u + v * P
  BY <1>2 DEF Divided
<1>5. u \in 0 .. B - 1 /\ v \in 0 .. B - 1
  BY <1>1, <1>3, <1>4
<1>6. ASSUME NEW s \in (0 .. B - 1) \X (0 .. B - 1), l = s[1] + s[2] * P, s[1] < P
      PROVE  s = <<u, v>>
  <2>1. Divided(l, P, s[2], s[1])
    BY <1>6 DEF Divided
  <2>2. s[1] = u /\ s[2] = v
    BY <1>1, <2>1, DivMod
  <2> QED
    BY <2>2
<1> HIDE DEF u, v, B
<1>7. <<u, v>> \in SplitsOf(l, P, Q)
  BY <1>1, <1>3, <1>4, <1>5 DEF SplitsOf, B
<1>8. \A s \in SplitsOf(l, P, Q) : s = <<u, v>>
  BY <1>6 DEF SplitsOf, B
<1> QED
  BY <1>3, <1>4, <1>7, <1>8 DEF u, v

\* How a shift by n bits is made of limbs and bits, and the powers it splits limbs by.
IsShift(n, limbs, bits, P, Q) ==
  /\ limbs \in 0 .. 3 /\ bits \in 0 .. machine.limb - 1 /\ n = bits + limbs * machine.limb
  /\ P \in Nat \ {0} /\ Q \in Nat \ {0} /\ P * Q = Base
  /\ P = Evm!Power(2, bits) /\ Q = Evm!Power(2, machine.limb - bits)

LEMMA ShiftIs ==
  ASSUME machine \in Machines, NEW n \in 0 .. Bits - 1
  PROVE  LET limbs == n \div machine.limb
             bits == n % machine.limb
         IN  IsShift(n, limbs, bits, Evm!Power(2, bits), Evm!Power(2, machine.limb - bits))
<1> DEFINE l == machine.limb   limbs == n \div l   bits == n % l   k == l - bits
           P == Evm!Power(2, bits)   Q == Evm!Power(2, k)
<1>1. l \in Nat \ {0} /\ n \in Nat /\ n < 4 * l
  BY Sizes DEF Bits
<1>2. limbs \in 0 .. 3 /\ bits \in 0 .. l - 1 /\ n = bits + limbs * l
  <2> HIDE DEF l
  <2>1. limbs \in 0 .. 4 - 1
    BY <1>1, DivLess
  <2>2. Divided(n, l, limbs, bits)
    BY <1>1 DEF Divided
  <2> QED
    BY <2>1, <2>2 DEF Divided
<1> HIDE DEF bits
<1>3. k \in Nat /\ bits \in Nat /\ bits + k = l
  <2> HIDE DEF l
  <2> QED
    BY <1>1, <1>2
<1> HIDE DEF k
<1>4. P \in Nat \ {0} /\ Q \in Nat \ {0}
  BY <1>3, PowerPositive
<1>5. P * Q = Base
  BY <1>3, PowerAdd DEF Base
<1> QED
  BY <1>2, <1>4, <1>5 DEF IsShift, bits, k

LEMMA ShiftUnique ==
  ASSUME machine \in Machines, NEW n, NEW d, NEW m, NEW P, NEW Q, IsShift(n, d, m, P, Q),
         NEW e \in 0 .. 3, NEW k \in 0 .. machine.limb - 1, n = k + e * machine.limb
  PROVE  e = d /\ k = m
<1> DEFINE l == machine.limb
<1>1. l \in Nat \ {0}
  BY Sizes
<1>2. n = m + d * l /\ m \in 0 .. l - 1 /\ d \in 0 .. 3 /\ n = k + e * l /\ k \in 0 .. l - 1
  BY DEF IsShift
<1> HIDE DEF l
<1>3. n \in Int /\ Divided(n, l, d, m) /\ Divided(n, l, e, k)
  BY <1>1, <1>2 DEF Divided
<1>4. n % l = m /\ n \div l = d
  BY <1>1, <1>3, DivMod
<1>5. n % l = k /\ n \div l = e
  BY <1>1, <1>3, DivMod
<1> QED
  BY <1>4, <1>5

\* The power of two of a shift.
LEMMA ShiftPower ==
  ASSUME machine \in Machines, NEW n \in Nat, NEW d, NEW m, NEW P, NEW Q, IsShift(n, d, m, P, Q)
  PROVE  /\ d = 0 => Evm!Power(2, n) = P
         /\ d = 1 => Evm!Power(2, n) = P * Base
         /\ d = 2 => Evm!Power(2, n) = P * HalfBase
         /\ d = 3 => Evm!Power(2, n) = P * (HalfBase * Base)
<1> DEFINE l == machine.limb
<1>1. l \in Nat /\ m \in Nat /\ n = m + d * l /\ d \in 0 .. 3 /\ P = Evm!Power(2, m)
      /\ Base = Evm!Power(2, l) /\ P \in Nat /\ Base \in Nat
  BY Sizes DEF IsShift, Base
<1> HIDE DEF l
<1>2. CASE d = 0
  BY <1>1, <1>2
<1>3. CASE d = 1
  <2>1. n = m + l
    BY <1>1, <1>3
  <2>2. Evm!Power(2, m + l) = P * Base
    BY <1>1, PowerAdd
  <2> QED
    BY <1>3, <2>1, <2>2
<1> DEFINE k == l + l
<1>4. k \in Nat /\ Evm!Power(2, k) = HalfBase
  BY <1>1, PowerAdd DEF HalfBase
<1>5. CASE d = 2
  <2>1. n = m + k
    BY <1>1, <1>5
  <2> HIDE DEF k
  <2>2. Evm!Power(2, m + k) = P * HalfBase
    BY <1>1, <1>4, PowerAdd
  <2> QED
    BY <1>5, <2>1, <2>2
<1>6. CASE d = 3
  <2> DEFINE j == k + l
  <2>1. n = m + j /\ j \in Nat
    BY <1>1, <1>6
  <2>2. Evm!Power(2, j) = HalfBase * Base
    <3> HIDE DEF k
    <3> QED
      BY <1>1, <1>4, PowerAdd
  <2> HIDE DEF j
  <2>3. Evm!Power(2, m + j) = P * (HalfBase * Base)
    BY <1>1, <2>1, <2>2, PowerAdd
  <2> QED
    BY <1>6, <2>1, <2>3
<1> QED
  BY <1>1, <1>2, <1>3, <1>5, <1>6

\* The powers the constraints allow are these.
ShiftPowers(s) ==
  {p \in [div : 0 .. 3, mod : 0 .. machine.limb - 1, lo : 0 .. Base, hi : 0 .. Base] :
     /\ Byte(s, 0) = p.mod + p.div * machine.limb
     /\ <<p.mod, p.lo, 0>> \in Pow2
     /\ <<machine.limb - p.mod, p.hi, 0>> \in Pow2}

LEMMA ShiftPowersAre ==
  ASSUME machine \in Machines, NEW s, NEW n, Byte(s, 0) = n,
         NEW d, NEW m, NEW P, NEW Q, IsShift(n, d, m, P, Q)
  PROVE  ShiftPowers(s) = {[div |-> d, mod |-> m, lo |-> P, hi |-> Q]}
<1> DEFINE l == machine.limb   p == [div |-> d, mod |-> m, lo |-> P, hi |-> Q]
<1>1. /\ d \in 0 .. 3 /\ m \in 0 .. l - 1 /\ n = m + d * l
      /\ P \in Nat \ {0} /\ Q \in Nat \ {0} /\ P * Q = Base
      /\ P = Evm!Power(2, m) /\ Q = Evm!Power(2, l - m)
  BY DEF IsShift
<1>2. l \in Nat \ {0} /\ Bits = 4 * l
  BY Sizes DEF Bits
<1>3. \A i \in 0 .. l : \A x : <<i, x, 0>> \in Pow2 <=> x = Evm!Power(2, i)
  <2>1. \A i \in 0 .. l : i < 2 * l /\ i \in 0 .. Bits - 1
    BY <1>2
  <2> QED
    BY <2>1 DEF Pow2
<1>4. P \in 0 .. Base /\ Q \in 0 .. Base
  <2>1. P <= P * Q /\ Q <= P * Q
    BY <1>1
  <2> QED
    BY <1>1, <2>1
<1>5. m \in 0 .. l /\ l - m \in 0 .. l
  <2> HIDE DEF l
  <2> QED
    BY <1>1, <1>2
<1>6. p \in ShiftPowers(s)
  <2>1. p \in [div : 0 .. 3, mod : 0 .. l - 1, lo : 0 .. Base, hi : 0 .. Base]
    BY <1>1, <1>4
  <2>2. <<m, P, 0>> \in Pow2 /\ <<l - m, Q, 0>> \in Pow2
    BY <1>1, <1>3, <1>5
  <2> QED
    BY <1>1, <2>1, <2>2 DEF ShiftPowers
<1>7. ASSUME NEW q \in ShiftPowers(s) PROVE q = p
  <2>1. /\ q \in [div : 0 .. 3, mod : 0 .. l - 1, lo : 0 .. Base, hi : 0 .. Base]
        /\ n = q.mod + q.div * l
        /\ <<q.mod, q.lo, 0>> \in Pow2 /\ <<l - q.mod, q.hi, 0>> \in Pow2
    BY DEF ShiftPowers
  <2>2. q.div = d /\ q.mod = m
    <3>1. q.div \in 0 .. 3 /\ q.mod \in 0 .. machine.limb - 1
      BY <2>1
    <3> QED
      BY <2>1, <3>1, ShiftUnique
  <2>3. q.lo = P /\ q.hi = Q
    BY <1>1, <1>3, <1>5, <2>1, <2>2
  <2> QED
    BY <2>1, <2>2, <2>3
<1> HIDE DEF p
<1>8. ShiftPowers(s) = {p}
  BY <1>6, <1>7
<1> QED
  BY <1>8 DEF p

\* The word of the merged limbs.
Merge(m1, m2, m3, m4) == m1 + m2 * Base + m3 * HalfBase + m4 * HalfBase * Base

MergedWord(s, split, d, Q, neg) ==
  Merge(MergedLimb(1, s, split, d, Q, neg), MergedLimb(2, s, split, d, Q, neg),
        MergedLimb(3, s, split, d, Q, neg), MergedLimb(4, s, split, d, Q, neg))

\* Powers and splits the only ones allowed.
PowersAre(s, d, m, P, Q) == ShiftPowers(s) = {[div |-> d, mod |-> m, lo |-> P, hi |-> Q]}
SplitsAre(a, P, Q, c0, c1, c2, c3) ==
  /\ SplitsOf(Limb(a, 0), P, Q) = {c0} /\ SplitsOf(Limb(a, 1), P, Q) = {c1}
  /\ SplitsOf(Limb(a, 2), P, Q) = {c2} /\ SplitsOf(Limb(a, 3), P, Q) = {c3}

LEMMA SarIs ==
  ASSUME NEW s, NEW a, NEW d, NEW m, NEW P, NEW Q, PowersAre(s, d, m, P, Q),
         NEW c0, NEW c1, NEW c2, NEW c3, SplitsAre(a, P, Q, c0, c1, c2, c3)
  PROVE  sar(s, a) = {MergedWord(s, <<c0, c1, c2, c3>>, d, Q, Bool(TopByteIsNegative(a)))} \cap Word
<1> DEFINE neg == Bool(TopByteIsNegative(a))
           p == [div |-> d, mod |-> m, lo |-> P, hi |-> Q]
           All(q) == {MergedWord(s, split, q.div, q.hi, neg) :
                        split \in SplitsOf(Limb(a, 0), q.lo, q.hi) \X SplitsOf(Limb(a, 1), q.lo, q.hi)
                                  \X SplitsOf(Limb(a, 2), q.lo, q.hi)
                                  \X SplitsOf(Limb(a, 3), q.lo, q.hi)}
<1>1. sar(s, a) = UNION {All(q) \cap Word : q \in ShiftPowers(s)}
  BY DEF sar, ShiftPowers, MergedWord, Merge
<1>2. p.div = d /\ p.lo = P /\ p.hi = Q
  OBVIOUS
<1>3. {c0} \X {c1} \X {c2} \X {c3} = {<<c0, c1, c2, c3>>}
  OBVIOUS
<1>4. All(p) = {MergedWord(s, <<c0, c1, c2, c3>>, d, Q, neg)}
  <2>1. All(p) = {MergedWord(s, split, d, Q, neg) : split \in {c0} \X {c1} \X {c2} \X {c3}}
    BY <1>2 DEF SplitsAre
  <2> QED
    BY <1>3, <2>1
<1> HIDE DEF All, p
<1>5. sar(s, a) = All(p) \cap Word
  BY <1>1 DEF p, PowersAre
<1> QED
  BY <1>4, <1>5

\* The limbs of the shifted word, from splits <<u, v>> of the limbs of the word.
LEMMA MergedLimbs ==
  ASSUME NEW s, AboveLowByte(s) = 0, NEW Q, NEW neg,
         NEW u0, NEW u1, NEW u2, NEW u3, NEW v0, NEW v1, NEW v2, NEW v3
  PROVE  LET split == << <<u0, v0>>, <<u1, v1>>, <<u2, v2>>, <<u3, v3>> >>
             L(i, d) == MergedLimb(i, s, split, d, Q, neg)
         IN  /\ L(1, 0) = v0 + u1 * Q /\ L(2, 0) = v1 + u2 * Q /\ L(3, 0) = v2 + u3 * Q
             /\ L(4, 0) = v3 + neg * (Base - Q)
             /\ L(1, 1) = v1 + u2 * Q /\ L(2, 1) = v2 + u3 * Q
             /\ L(3, 1) = v3 + neg * (Base - Q) /\ L(4, 1) = neg * (Base - 1)
             /\ L(1, 2) = v2 + u3 * Q /\ L(2, 2) = v3 + neg * (Base - Q)
             /\ L(3, 2) = neg * (Base - 1) /\ L(4, 2) = neg * (Base - 1)
             /\ L(1, 3) = v3 + neg * (Base - Q) /\ L(2, 3) = neg * (Base - 1)
             /\ L(3, 3) = neg * (Base - 1) /\ L(4, 3) = neg * (Base - 1)
BY DEF MergedLimb

\* The merged word times the power of two, for each number of whole limbs.
LEMMA MergedTimes ==
  ASSUME NEW B \in Int, NEW H \in Int, NEW M \in Int, H = B * B, M = H * H,
         NEW P \in Int, NEW Q \in Int, P * Q = B, NEW n \in Int,
         NEW u0 \in Int, NEW u1 \in Int, NEW u2 \in Int, NEW u3 \in Int,
         NEW v0 \in Int, NEW v1 \in Int, NEW v2 \in Int, NEW v3 \in Int,
         NEW a \in Int,
         a = ((u0 + v0 * P) + (u1 + v1 * P) * B) + ((u2 + v2 * P) + (u3 + v3 * P) * B) * H
  PROVE  LET top == v3 + n * (B - Q)
             ones == n * (B - 1)
             W(m1, m2, m3, m4) == m1 + m2 * B + m3 * H + m4 * H * B
         IN  /\ a - n * M = u0 + (W(v0 + u1 * Q, v1 + u2 * Q, v2 + u3 * Q, top) - n * M) * P
             /\ a - n * M = ((u0 + v0 * P) + u1 * B)
                            + (W(v1 + u2 * Q, v2 + u3 * Q, top, ones) - n * M) * (P * B)
             /\ a - n * M = ((u0 + v0 * P) + (u1 + v1 * P) * B + u2 * H)
                            + (W(v2 + u3 * Q, top, ones, ones) - n * M) * (P * H)
             /\ a - n * M = ((u0 + v0 * P) + (u1 + v1 * P) * B + (u2 + v2 * P) * H + u3 * (H * B))
                            + (W(top, ones, ones, ones) - n * M) * (P * (H * B))
OBVIOUS
\* Limbs that are in range make a word.
LEMMA MergeWord ==
  ASSUME machine \in Machines, NEW m1 \in 0 .. Base - 1, NEW m2 \in 0 .. Base - 1,
         NEW m3 \in 0 .. Base - 1, NEW m4 \in 0 .. Base - 1
  PROVE  Merge(m1, m2, m3, m4) \in Word
<1> DEFINE B == Base   H == HalfBase   l == m1 + m2 * B   h == m3 + m4 * B
<1>1. B \in Nat /\ H = B * B /\ H \in Nat
  BY Sizes
<1>2. ASSUME NEW x \in 0 .. B - 1, NEW y \in 0 .. B - 1
      PROVE  x + y * B \in 0 .. H - 1
  <2> HIDE DEF B, H
  <2>1. y * B + B <= B * B /\ y * B \in Nat
    BY <1>1
  <2> QED
    BY <1>1, <2>1
<1>3. l \in 0 .. H - 1 /\ h \in 0 .. H - 1
  BY <1>2
<1> HIDE DEF l, h
<1>4. l + h * H \in Word
  BY <1>3, HalvesAre
<1>5. Merge(m1, m2, m3, m4) = l + h * H
  <2>1. Merge(m1, m2, m3, m4) = m1 + m2 * B + m3 * H + m4 * H * B
    BY DEF Merge
  <2> HIDE DEF B, H
  <2>2. h * H = m3 * H + m4 * H * B /\ m1 \in Int /\ m2 * B \in Int /\ m3 * H \in Int
        /\ m4 * H * B \in Int
    BY <1>1 DEF h
  <2> QED
    BY <2>1, <2>2 DEF l
<1> QED
  BY <1>4, <1>5

\* The limbs that are merged are in range.
LEMMA MergedInRange ==
  ASSUME machine \in Machines, NEW P \in Nat \ {0}, NEW Q \in Nat \ {0}, P * Q = Base,
         NEW u \in 0 .. P - 1, NEW v \in 0 .. Q - 1, NEW n \in {0, 1}
  PROVE  /\ v + u * Q \in 0 .. Base - 1 /\ v + n * (Base - Q) \in 0 .. Base - 1
         /\ n * (Base - 1) \in 0 .. Base - 1
<1>1. Base \in Nat \ {0}
  BY Sizes
<1>2. v + u * Q \in 0 .. Base - 1
  <2>1. u * Q + Q <= P * Q /\ u * Q \in Nat
    OBVIOUS
  <2> QED
    BY <1>1, <2>1
<1>3. Q <= Base
  <2>1. Q <= P * Q
    OBVIOUS
  <2> QED
    BY <2>1
<1>4. v + n * (Base - Q) \in 0 .. Base - 1
  <2>1. CASE n = 0
    BY <1>1, <1>3, <2>1
  <2>2. CASE n = 1
    BY <1>1, <1>3, <2>2
  <2> QED
    BY <2>1, <2>2
<1>5. n * (Base - 1) \in 0 .. Base - 1
  BY <1>1
<1> QED
  BY <1>2, <1>4, <1>5

\* What a word of either sign is, less the words it stands for.
LEMMA SignedIs ==
  ASSUME machine \in Machines, NEW a \in Word
  PROVE  LET n == Bool(TopByteIsNegative(a))
         IN  /\ n \in {0, 1} /\ Evm!ToSigned(a) = a - n * Modulus
             /\ Evm!ToSigned(a) < 0 <=> n = 1
<1> DEFINE n == Bool(TopByteIsNegative(a))
<1>1. Modulus \in Nat /\ a \in Nat /\ a < Modulus /\ Modulus \div 2 \in Nat
  BY Sizes DEF Word
<1>2. TopByteIsNegative(a) <=> ~(a < Modulus \div 2)
  BY SignIs
<1>3. Evm!ToSigned(a) = IF a < Modulus \div 2 THEN a ELSE a - Modulus
  BY Sizes DEF Evm!ToSigned
<1>4. CASE a < Modulus \div 2
  <2>1. n = 0
    BY <1>2, <1>4 DEF Bool
  <2>2. Evm!ToSigned(a) = a
    BY <1>3, <1>4
  <2> HIDE DEF n
  <2> QED
    BY <1>1, <2>1, <2>2 DEF n
<1>5. CASE ~(a < Modulus \div 2)
  <2>1. n = 1
    BY <1>2, <1>5 DEF Bool
  <2>2. Evm!ToSigned(a) = a - Modulus
    BY <1>3, <1>5
  <2> HIDE DEF n
  <2> QED
    BY <1>1, <2>1, <2>2 DEF n
<1> QED
  BY <1>4, <1>5

\* A word that, moduli apart, is the quotient of the division is its result.
LEMMA SignedQuotient ==
  ASSUME machine \in Machines, NEW x \in Int, NEW D \in Nat \ {0}, NEW W \in Word, NEW n \in Int,
         NEW r \in 0 .. D - 1, x = r + (W - n * Modulus) * D
  PROVE  (x \div D) % Modulus = W
<1> DEFINE M == Modulus   q == W - n * M   k == -n
<1>1. M \in Nat \ {0} /\ W \in 0 .. M - 1 /\ W \in Int /\ q \in Int /\ x = r + q * D
  BY Sizes DEF Word
<1> HIDE DEF M
<1>2. Divided(q, M, k, W)
  BY <1>1 DEF Divided
<1> HIDE DEF q, k
<1>3. Divided(x, D, q, r)
  BY <1>1 DEF Divided
<1>4. x \div D = q
  BY <1>3, DivMod
<1>5. q % M = W
  BY <1>1, <1>2, DivMod
<1> QED
  BY <1>4, <1>5 DEF M

\* The remainders of a shift, for each number of whole limbs.
LEMMA RemaindersFit ==
  ASSUME machine \in Machines, NEW P \in Nat \ {0}, NEW l0 \in 0 .. Base - 1,
         NEW l1 \in 0 .. Base - 1, NEW l2 \in 0 .. Base - 1, NEW u \in 0 .. P - 1
  PROVE  /\ l0 + u * Base \in 0 .. P * Base - 1
         /\ l0 + l1 * Base + u * HalfBase \in 0 .. P * HalfBase - 1
         /\ l0 + l1 * Base + l2 * HalfBase + u * (HalfBase * Base)
              \in 0 .. P * (HalfBase * Base) - 1
<1> DEFINE B == Base   H == HalfBase   K == H * B
<1>1. B \in Nat \ {0} /\ H = B * B /\ H \in Nat \ {0} /\ K \in Nat \ {0}
  BY Sizes
<1>2. ASSUME NEW N \in Nat \ {0}, NEW x \in 0 .. N - 1
      PROVE  x + u * N \in 0 .. P * N - 1
  <2>1. u * N + N <= P * N /\ u * N \in Nat
    BY <1>2
  <2> QED
    BY <1>2, <2>1
<1> HIDE DEF B, H
<1>3. l0 + l1 * B \in 0 .. H - 1
  <2>1. l1 * B + B <= B * B /\ l1 * B \in Nat
    BY <1>1 DEF B
  <2> QED
    BY <1>1, <2>1 DEF B
<1>4. l0 + l1 * B + l2 * H \in 0 .. K - 1
  <2>1. l2 * H + H <= B * H /\ l2 * H \in Nat /\ B * H = K
    BY <1>1 DEF B
  <2> DEFINE y == l2 * H   x == l0 + l1 * B
  <2>2. y + H <= K /\ y \in Nat /\ x \in 0 .. H - 1
    BY <1>3, <2>1
  <2> HIDE DEF x, y, K
  <2>3. x + y \in 0 .. K - 1
    BY <1>1, <2>2
  <2> QED
    BY <2>3 DEF x, y
<1> DEFINE x == l0 + l1 * B   y == l0 + l1 * B + l2 * H
<1>5. x \in 0 .. H - 1 /\ y \in 0 .. K - 1 /\ l0 \in 0 .. B - 1
  BY <1>3, <1>4 DEF B
<1> HIDE DEF x, y, K
<1>6. /\ l0 + u * B \in 0 .. P * B - 1 /\ x + u * H \in 0 .. P * H - 1
      /\ y + u * K \in 0 .. P * K - 1
  BY <1>1, <1>2, <1>5
<1> QED
  BY <1>6 DEF x, y, B, H, K

LEMMA SarExact ==
  ASSUME machine \in Machines, NEW s \in Word, NEW a \in Word
  PROVE  sar(s, a) = {IF s < Bits THEN (Evm!ToSigned(a) \div Evm!Power(2, s)) % Modulus
                      ELSE IF Evm!ToSigned(a) < 0 THEN Modulus - 1 ELSE 0}
<1> DEFINE n == Bool(TopByteIsNegative(a))   b == Byte(s, 0)
           d == b \div machine.limb   m == b % machine.limb
           P == Evm!Power(2, m)   Q == Evm!Power(2, machine.limb - m)
           l0 == Limb(a, 0)   l1 == Limb(a, 1)   l2 == Limb(a, 2)   l3 == Limb(a, 3)
           u0 == l0 % P   u1 == l1 % P   u2 == l2 % P   u3 == l3 % P
           v0 == l0 \div P   v1 == l1 \div P   v2 == l2 \div P   v3 == l3 \div P
           B == Base   H == HalfBase   M == Modulus
           split == << <<u0, v0>>, <<u1, v1>>, <<u2, v2>>, <<u3, v3>> >>
           W == MergedWord(s, split, d, Q, n)
<1>1. b \in 0 .. Bits - 1
  <2> DEFINE y == s \div Evm!Power(ByteBase, 0)
  <2>1. y \in Int
    <3>1. Evm!Power(ByteBase, 0) = 1
      BY Sizes, PowerSteps DEF ByteBase
    <3> QED
      BY <3>1, Sizes DEF Word
  <2>2. b = y % Bits /\ Bits \in Nat \ {0}
    BY Sizes DEF Byte, ByteBase
  <2> HIDE DEF y, b
  <2> QED
    BY <2>1, <2>2
<1>2. IsShift(b, d, m, P, Q)
  <2> HIDE DEF b
  <2> QED
    BY <1>1, ShiftIs
<1> HIDE DEF b, d, m, P, Q
<1>3. ShiftPowers(s) = {[div |-> d, mod |-> m, lo |-> P, hi |-> Q]}
  BY <1>2, ShiftPowersAre DEF b
<1>4. P \in Nat \ {0} /\ Q \in Nat \ {0} /\ P * Q = B /\ d \in 0 .. 3
  BY <1>2 DEF IsShift
<1>5. /\ l0 \in 0 .. B - 1 /\ l1 \in 0 .. B - 1 /\ l2 \in 0 .. B - 1 /\ l3 \in 0 .. B - 1
      /\ a = (l0 + l1 * B) + (l2 + l3 * B) * H
  BY Limbs, Halves
<1> HIDE DEF l0, l1, l2, l3
<1>6. ASSUME NEW l \in 0 .. B - 1
      PROVE  /\ SplitsOf(l, P, Q) = {<<l % P, l \div P>>}
             /\ l % P \in 0 .. P - 1 /\ l \div P \in 0 .. Q - 1 /\ l = (l % P) + (l \div P) * P
  BY <1>4, SplitIs
<1>7. sar(s, a) = {W} \cap Word
  <2>1. /\ SplitsOf(l0, P, Q) = {<<u0, v0>>} /\ SplitsOf(l1, P, Q) = {<<u1, v1>>}
        /\ SplitsOf(l2, P, Q) = {<<u2, v2>>} /\ SplitsOf(l3, P, Q) = {<<u3, v3>>}
    BY <1>5, <1>6
  <2> DEFINE c0 == <<u0, v0>>   c1 == <<u1, v1>>   c2 == <<u2, v2>>   c3 == <<u3, v3>>
  <2>2. /\ SplitsOf(l0, P, Q) = {c0} /\ SplitsOf(l1, P, Q) = {c1}
        /\ SplitsOf(l2, P, Q) = {c2} /\ SplitsOf(l3, P, Q) = {c3}
    BY <2>1
  <2> HIDE DEF c0, c1, c2, c3
  <2>3. SplitsAre(a, P, Q, c0, c1, c2, c3)
    BY <2>2 DEF l0, l1, l2, l3, SplitsAre
  <2>4. PowersAre(s, d, m, P, Q)
    BY <1>3 DEF PowersAre
  <2>5. sar(s, a) = {MergedWord(s, <<c0, c1, c2, c3>>, d, Q, Bool(TopByteIsNegative(a)))} \cap Word
    BY <2>3, <2>4, SarIs
  <2> QED
    BY <2>5 DEF c0, c1, c2, c3
<1>8. /\ u0 \in 0 .. P - 1 /\ u1 \in 0 .. P - 1 /\ u2 \in 0 .. P - 1 /\ u3 \in 0 .. P - 1
      /\ v0 \in 0 .. Q - 1 /\ v1 \in 0 .. Q - 1 /\ v2 \in 0 .. Q - 1 /\ v3 \in 0 .. Q - 1
      /\ l0 = u0 + v0 * P /\ l1 = u1 + v1 * P /\ l2 = u2 + v2 * P /\ l3 = u3 + v3 * P
  BY <1>5, <1>6
<1>9. n \in {0, 1} /\ Evm!ToSigned(a) = a - n * M /\ (Evm!ToSigned(a) < 0 <=> n = 1)
  BY SignedIs
<1>10. /\ B \in Nat \ {0} /\ H \in Nat \ {0} /\ M \in Nat \ {0} /\ H = B * B /\ M = H * H
       /\ a \in Nat /\ s \in Nat
  BY Sizes DEF Word
<1> HIDE DEF n, u0, u1, u2, u3, v0, v1, v2, v3
<1>11. CASE s < Bits
  <2> DEFINE top == v3 + n * (B - Q)   ones == n * (B - 1)   x == a - n * M   D == Evm!Power(2, s)
             w1 == v0 + u1 * Q   w2 == v1 + u2 * Q   w3 == v2 + u3 * Q
  <2>1. AboveLowByte(s) = 0 /\ b = s
    BY <1>11, LowByteIs DEF b
  <2>2. /\ top \in 0 .. B - 1 /\ ones \in 0 .. B - 1
        /\ w1 \in 0 .. B - 1 /\ w2 \in 0 .. B - 1 /\ w3 \in 0 .. B - 1
    BY <1>4, <1>8, <1>9, MergedInRange
  <2> DEFINE W0 == Merge(w1, w2, w3, top)   W1 == Merge(w2, w3, top, ones)
             W2 == Merge(w3, top, ones, ones)   W3 == Merge(top, ones, ones, ones)
  <2>3. W0 \in Word /\ W1 \in Word /\ W2 \in Word /\ W3 \in Word
    <3> HIDE DEF w1, w2, w3, top, ones
    <3> QED
      BY <2>2, MergeWord
  <2>4. /\ d = 0 => W = W0
        /\ d = 1 => W = W1
        /\ d = 2 => W = W2
        /\ d = 3 => W = W3
    <3> DEFINE L(i, e) == MergedLimb(i, s, split, e, Q, n)
    <3>1. /\ L(1, 0) = w1 /\ L(2, 0) = w2 /\ L(3, 0) = w3 /\ L(4, 0) = top
          /\ L(1, 1) = w2 /\ L(2, 1) = w3 /\ L(3, 1) = top /\ L(4, 1) = ones
          /\ L(1, 2) = w3 /\ L(2, 2) = top /\ L(3, 2) = ones /\ L(4, 2) = ones
          /\ L(1, 3) = top /\ L(2, 3) = ones /\ L(3, 3) = ones /\ L(4, 3) = ones
      BY <2>1, MergedLimbs
    <3>2. W = Merge(L(1, d), L(2, d), L(3, d), L(4, d))
      BY DEF MergedWord
    <3> HIDE DEF W, L, w1, w2, w3, top, ones
    <3> QED
      BY <3>1, <3>2
  <2>5. /\ x = u0 + (W0 - n * M) * P
        /\ x = (l0 + u1 * B) + (W1 - n * M) * (P * B)
        /\ x = (l0 + l1 * B + u2 * H) + (W2 - n * M) * (P * H)
        /\ x = (l0 + l1 * B + l2 * H + u3 * (H * B)) + (W3 - n * M) * (P * (H * B))
    <3>1. /\ B \in Int /\ H \in Int /\ M \in Int /\ P \in Int /\ Q \in Int /\ n \in Int /\ a \in Int
          /\ u0 \in Int /\ u1 \in Int /\ u2 \in Int /\ u3 \in Int
          /\ v0 \in Int /\ v1 \in Int /\ v2 \in Int /\ v3 \in Int
      BY <1>4, <1>8, <1>9, <1>10
    <3>2. a = ((u0 + v0 * P) + (u1 + v1 * P) * B) + ((u2 + v2 * P) + (u3 + v3 * P) * B) * H
      BY <1>5, <1>8
    <3> HIDE DEF B, H, M
    <3> DEFINE V(m1, m2, m3, m4) == m1 + m2 * B + m3 * H + m4 * H * B
    <3>3. /\ x = u0 + (V(w1, w2, w3, top) - n * M) * P
          /\ x = ((u0 + v0 * P) + u1 * B) + (V(w2, w3, top, ones) - n * M) * (P * B)
          /\ x = ((u0 + v0 * P) + (u1 + v1 * P) * B + u2 * H)
                 + (V(w3, top, ones, ones) - n * M) * (P * H)
          /\ x = ((u0 + v0 * P) + (u1 + v1 * P) * B + (u2 + v2 * P) * H + u3 * (H * B))
                 + (V(top, ones, ones, ones) - n * M) * (P * (H * B))
      BY <1>4, <1>10, <3>1, <3>2, MergedTimes
    <3>4. \A m1, m2, m3, m4 : V(m1, m2, m3, m4) = Merge(m1, m2, m3, m4)
      BY DEF Merge, B, H
    <3> HIDE DEF V, x, w1, w2, w3, top, ones
    <3> QED
      BY <1>8, <3>3, <3>4
  <2>6. Evm!ToSigned(a) = x /\ x \in Int /\ n \in Int
    BY <1>9, <1>10
  <2>7. /\ d = 0 => D = P
        /\ d = 1 => D = P * B
        /\ d = 2 => D = P * H
        /\ d = 3 => D = P * (H * B)
    BY <1>2, <1>10, <2>1, ShiftPower
  <2>8. /\ l0 + u1 * B \in 0 .. P * B - 1
        /\ l0 + l1 * B + u2 * H \in 0 .. P * H - 1
        /\ l0 + l1 * B + l2 * H + u3 * (H * B) \in 0 .. P * (H * B) - 1
    BY <1>4, <1>5, <1>8, RemaindersFit
  <2>9. D \in Nat \ {0}
    BY <1>10, PowerPositive
  <2> DEFINE r1 == l0 + u1 * B   r2 == l0 + l1 * B + u2 * H
             r3 == l0 + l1 * B + l2 * H + u3 * (H * B)
  <2> HIDE DEF W, W0, W1, W2, W3, x, D, r1, r2, r3
  <2>10. \E r \in 0 .. D - 1 : W \in Word /\ x = r + (W - n * M) * D
    <3>1. CASE d = 0
      <4>1. D = P /\ W = W0 /\ u0 \in 0 .. D - 1
        BY <1>8, <2>4, <2>7, <3>1
      <4> QED
        BY <2>3, <2>5, <4>1
    <3>2. CASE d = 1
      <4>1. D = P * B /\ W = W1 /\ r1 \in 0 .. D - 1
        BY <2>4, <2>7, <2>8, <3>2 DEF r1
      <4>2. x = r1 + (W1 - n * M) * (P * B)
        BY <2>5 DEF r1
      <4> QED
        BY <2>3, <4>1, <4>2
    <3>3. CASE d = 2
      <4>1. D = P * H /\ W = W2 /\ r2 \in 0 .. D - 1
        BY <2>4, <2>7, <2>8, <3>3 DEF r2
      <4>2. x = r2 + (W2 - n * M) * (P * H)
        BY <2>5 DEF r2
      <4> QED
        BY <2>3, <4>1, <4>2
    <3>4. CASE d = 3
      <4>1. D = P * (H * B) /\ W = W3 /\ r3 \in 0 .. D - 1
        BY <2>4, <2>7, <2>8, <3>4 DEF r3
      <4>2. x = r3 + (W3 - n * M) * (P * (H * B))
        BY <2>5 DEF r3
      <4> QED
        BY <2>3, <4>1, <4>2
    <3> QED
      BY <1>4, <3>1, <3>2, <3>3, <3>4
  <2>11. (x \div D) % M = W /\ W \in Word
    <3>1. PICK r \in 0 .. D - 1 : W \in Word /\ x = r + (W - n * M) * D
      BY <2>10
    <3> QED
      BY <2>6, <2>9, <3>1, SignedQuotient
  <2> QED
    BY <1>7, <1>11, <2>6, <2>11 DEF D
<1>12. CASE ~(s < Bits)
  <2> DEFINE ones == n * (B - 1)
  <2>1. AboveLowByte(s) # 0
    BY <1>12, LowByteIs
  <2>2. \A i : MergedLimb(i, s, split, d, Q, n) = ones
    BY <2>1 DEF MergedLimb
  <2>3. W = Merge(ones, ones, ones, ones)
    BY <2>2 DEF MergedWord
  <2> HIDE DEF W
  <2>4. Merge(ones, ones, ones, ones) = n * (M - 1)
    <3>1. Merge(ones, ones, ones, ones) = ones + ones * B + ones * H + ones * H * B
      BY DEF Merge
    <3>2. n \in Int
      BY <1>9
    <3> HIDE DEF B, H, M
    <3>3. ones + ones * B + ones * H + ones * H * B = n * (M - 1)
      BY <1>10, <3>2
    <3> QED
      BY <3>1, <3>3
  <2> HIDE DEF ones
  <2>5. n * (M - 1) \in Word /\ n * (M - 1) = IF n = 1 THEN M - 1 ELSE 0
    <3> HIDE DEF M
    <3> QED
      BY <1>9, <1>10 DEF Word, M
  <2> QED
    BY <1>7, <1>9, <1>12, <2>3, <2>4, <2>5
<1> QED
  BY <1>11, <1>12

-----------------------------------------------------------------------------
(* The bits of a number.                                                   *)

Bit(x, j) == (x \div Evm!Power(2, j)) % 2

LEMMA TwoIs ==
  ASSUME NEW n \in Nat
  PROVE  /\ Evm!Power(2, n) \in Nat \ {0} /\ Evm!Power(2, 0) = 1
         /\ Evm!Power(2, n + 1) = 2 * Evm!Power(2, n)
<1>1. 2 \in Nat \ {0}
  OBVIOUS
<1> QED
  BY <1>1, PowerPositive, PowerSteps

\* A quotient of a quotient is a quotient by the product.
Nested(x, m, n) == (x \div m) \div n = x \div (m * n)

LEMMA NestedDivision ==
  ASSUME NEW x \in Nat, NEW m \in Nat \ {0}, NEW n \in Nat \ {0}
  PROVE  Nested(x, m, n)
BY DivDiv DEF Nested

LEMMA TwoApart ==
  ASSUME NEW j \in Nat, NEW k \in Nat, j < k
  PROVE  \E E \in Nat \ {0} : Evm!Power(2, k) = (2 * E) * Evm!Power(2, j)
<1> DEFINE i == k - j - 1
           l == i + 1
<1>1. i \in Nat /\ l \in Nat /\ k = j + l
  OBVIOUS
<1>2. Evm!Power(2, l) = 2 * Evm!Power(2, i) /\ Evm!Power(2, i) \in Nat \ {0}
  <2> HIDE DEF i
  <2> QED
    BY <1>1, TwoIs
<1> HIDE DEF l
<1>3. Evm!Power(2, j + l) = Evm!Power(2, j) * Evm!Power(2, l)
  BY <1>1, PowerAdd
<1> DEFINE D == Evm!Power(2, j)
           E == Evm!Power(2, i)
<1>4. D \in Nat
  BY TwoIs
<1>5. Evm!Power(2, k) = D * (2 * E)
  BY <1>1, <1>2, <1>3
<1>6. E \in Nat \ {0}
  BY <1>2
<1> HIDE DEF D, E
<1>7. D * (2 * E) = (2 * E) * D
  BY <1>4, <1>6
<1> QED
  BY <1>5, <1>6, <1>7 DEF D

\* Adding a multiple of a higher power leaves a bit.
LEMMA BitsBelow ==
  ASSUME NEW x \in Nat, NEW c \in Nat, NEW k \in Nat, NEW j \in Nat, j < k
  PROVE  Bit(x + c * Evm!Power(2, k), j) = Bit(x, j)
<1>1. PICK E \in Nat \ {0} : Evm!Power(2, k) = (2 * E) * Evm!Power(2, j)
  BY TwoApart
<1> DEFINE D == Evm!Power(2, j)
           q == x \div D
           r == x % D
           y == x + c * Evm!Power(2, k)
           F == c * E
<1>2. D \in Nat \ {0}
  BY TwoIs
<1>3. q \in Nat /\ r \in 0 .. D - 1 /\ x = r + q * D
  <2> HIDE DEF D
  <2> QED
    BY <1>2
<1>4. y = x + c * ((2 * E) * D)
  BY <1>1
<1>5. F \in Nat
  OBVIOUS
<1>6. Bit(x, j) = q % 2 /\ Bit(y, j) = (y \div D) % 2
  BY DEF Bit
<1> HIDE DEF D, y, q, r
<1>7. c * ((2 * E) * D) = (2 * F) * D
  BY <1>2
<1> HIDE DEF F
<1>8. y = r + (q + 2 * F) * D /\ y \in Nat
  <2>1. (q + 2 * F) * D = q * D + (2 * F) * D
    BY <1>2, <1>3, <1>5
  <2>2. (2 * F) * D \in Nat /\ q * D \in Nat
    BY <1>2, <1>3, <1>5
  <2> QED
    BY <1>3, <1>4, <1>7, <2>1, <2>2
<1>9. y \div D = q + 2 * F
  <2> DEFINE p == q + 2 * F
  <2>1. p \in Nat
    BY <1>3, <1>5
  <2>2. y = r + p * D
    BY <1>8
  <2> HIDE DEF p
  <2>3. Divided(y, D, p, r) /\ y \in Int
    BY <1>2, <1>3, <1>8, <2>1, <2>2 DEF Divided
  <2>4. y \div D = p
    BY <1>2, <2>3, DivMod
  <2> QED
    BY <2>4 DEF p
<1>10. (q + 2 * F) % 2 = q % 2
  BY <1>3, <1>5
<1> QED
  BY <1>9, <1>6, <1>10 DEF y

LEMMA BitsAbove ==
  ASSUME NEW j \in Nat, NEW k \in Nat, k <= j, NEW x \in 0 .. Evm!Power(2, k) - 1
  PROVE  Bit(x, j) = 0
<1> DEFINE i == j - k
           D == Evm!Power(2, k)
           E == Evm!Power(2, i)
<1>1. i \in Nat /\ j = k + i
  OBVIOUS
<1>2. D \in Nat \ {0} /\ E \in Nat \ {0} /\ x \in 0 .. D - 1
  <2> HIDE DEF i
  <2> QED
    BY <1>1, TwoIs
<1>3. Evm!Power(2, j) = D * E
  <2> HIDE DEF i
  <2>1. Evm!Power(2, k + i) = Evm!Power(2, k) * Evm!Power(2, i)
    BY <1>1, PowerAdd
  <2> QED
    BY <1>1, <2>1
<1>4. Bit(x, j) = (x \div (D * E)) % 2
  BY <1>3 DEF Bit
<1> HIDE DEF D, E
<1>5. (x \div D) \div E = x \div (D * E)
  <2>1. x \in Nat
    BY <1>2
  <2>2. Nested(x, D, E)
    BY <1>2, <2>1, NestedDivision
  <2> QED
    BY <2>2 DEF Nested
<1>6. x \div D = 0
  BY <1>2
<1> QED
  BY <1>2, <1>4, <1>5, <1>6

LEMMA HalfBits ==
  ASSUME NEW x \in Nat
  PROVE  /\ Bit(x, 0) = x % 2
         /\ \A j \in Nat : Bit(x \div 2, j) = Bit(x, j + 1)
<1>1. Bit(x, 0) = x % 2
  <2>1. x \div 1 = x
    OBVIOUS
  <2> QED
    BY <2>1, TwoIs DEF Bit
<1>2. ASSUME NEW j \in Nat PROVE Bit(x \div 2, j) = Bit(x, j + 1)
  <2> DEFINE D == Evm!Power(2, j)
  <2>1. D \in Nat \ {0} /\ Evm!Power(2, j + 1) = 2 * D
    BY TwoIs
  <2>2. Bit(x \div 2, j) = ((x \div 2) \div D) % 2 /\ Bit(x, j + 1) = (x \div (2 * D)) % 2
    BY <2>1 DEF Bit
  <2> HIDE DEF D
  <2>3. (x \div 2) \div D = x \div (2 * D)
    <3>1. Nested(x, 2, D)
      BY <2>1, NestedDivision
    <3> QED
      BY <3>1 DEF Nested
  <2> QED
    BY <2>2, <2>3
<1> QED
  BY <1>1, <1>2

\* Numbers with the same bits are the same.
LEMMA SameBits ==
  ASSUME NEW n \in Nat, NEW u \in 0 .. Evm!Power(2, n) - 1, NEW v \in 0 .. Evm!Power(2, n) - 1,
         \A j \in 0 .. n - 1 : Bit(u, j) = Bit(v, j)
  PROVE  u = v
<1> DEFINE Determined(k) ==
             \A x, y \in 0 .. Evm!Power(2, k) - 1 :
               (\A j \in 0 .. k - 1 : Bit(x, j) = Bit(y, j)) => x = y
           S == {k \in Nat : Determined(k)}
<1>1. 0 \in S
  <2>1. Evm!Power(2, 0) = 1
    BY TwoIs
  <2>2. 0 .. 1 - 1 = {0}
    OBVIOUS
  <2> QED
    BY <2>1, <2>2
<1>2. ASSUME NEW k \in Nat, k \in S PROVE k + 1 \in S
  <2> DEFINE D == Evm!Power(2, k)
  <2>1. D \in Nat \ {0} /\ Evm!Power(2, k + 1) = 2 * D
    BY TwoIs
  <2> SUFFICES ASSUME NEW x \in 0 .. 2 * D - 1, NEW y \in 0 .. 2 * D - 1,
                      \A j \in 0 .. k : Bit(x, j) = Bit(y, j)
               PROVE  x = y
    <3>1. (k + 1) - 1 = k
      OBVIOUS
    <3> QED
      BY <2>1, <3>1
  <2> DEFINE p == x \div 2
             q == y \div 2
  <2>2. x \in Nat /\ y \in Nat /\ x % 2 = y % 2
    <3>1. x \in Nat /\ y \in Nat
      OBVIOUS
    <3>2. Bit(x, 0) = Bit(y, 0)
      OBVIOUS
    <3> QED
      BY <3>1, <3>2, HalfBits
  <2>3. p \in 0 .. D - 1 /\ q \in 0 .. D - 1
    <3> HIDE DEF D
    <3> QED
      BY <2>1
  <2>4. \A j \in 0 .. k - 1 : Bit(p, j) = Bit(q, j)
    <3> SUFFICES ASSUME NEW j \in 0 .. k - 1 PROVE Bit(p, j) = Bit(q, j)
      OBVIOUS
    <3>1. j \in Nat /\ j + 1 \in 0 .. k
      OBVIOUS
    <3>2. Bit(x, j + 1) = Bit(y, j + 1)
      BY <3>1
    <3> QED
      BY <2>2, <3>1, <3>2, HalfBits
  <2>5. p = q
    <3> HIDE DEF p, q
    <3> QED
      BY <1>2, <2>3, <2>4
  <2> QED
    BY <2>2, <2>5
<1> HIDE DEF S
<1>3. n \in S
  BY <1>1, <1>2, Induct
<1> QED
  BY <1>3 DEF S

\* A bit that is not set can be added.
LEMMA BitAdded ==
  ASSUME NEW n \in Nat, NEW p \in 0 .. n - 1, NEW x \in 0 .. Evm!Power(2, n) - 1, Bit(x, p) = 0
  PROVE  LET y == Evm!Power(2, p) + x
         IN  /\ y \in 0 .. Evm!Power(2, n) - 1
             /\ \A j \in Nat : Bit(y, j) = IF j = p THEN 1 ELSE Bit(x, j)
<1> DEFINE D == Evm!Power(2, p)
           N == Evm!Power(2, n)
           q == x \div D
           r == x % D
           y == D + x
           h == q \div 2
<1>0. p \in Nat /\ p < n
  OBVIOUS
<1>1. D \in Nat \ {0} /\ N \in Nat \ {0} /\ x \in 0 .. N - 1 /\ x \in Nat
  BY <1>0, TwoIs
<1>2. PICK E \in Nat \ {0} : N = (2 * E) * D
  BY <1>0, TwoApart
<1>3. q % 2 = 0
  BY DEF Bit
<1> HIDE DEF D, N
<1>4. q \in Nat /\ r \in 0 .. D - 1 /\ x = r + q * D
  BY <1>1
<1>5. h \in Nat /\ q = 2 * h
  <2> HIDE DEF q
  <2> QED
    BY <1>3, <1>4
<1> HIDE DEF q, r
<1>6. y = r + (q + 1) * D /\ y \in Nat
  <2>1. (q + 1) * D = q * D + D
    BY <1>1, <1>4
  <2>2. q * D \in Nat
    BY <1>1, <1>4
  <2> QED
    BY <1>1, <1>4, <2>1, <2>2
<1> HIDE DEF h, y
<1>7. y \div D = q + 1
  <2> DEFINE s == q + 1
  <2>1. s \in Nat /\ y = r + s * D
    BY <1>4, <1>6
  <2> HIDE DEF s
  <2>2. Divided(y, D, s, r) /\ y \in Int
    BY <1>1, <1>4, <1>6, <2>1 DEF Divided
  <2>3. y \div D = s
    BY <1>1, <2>2, DivMod
  <2> QED
    BY <2>3 DEF s
<1>8. y \in 0 .. N - 1
  <2> DEFINE F == 2 * E
  <2>1. F \in Nat \ {0} /\ x < F * D /\ N = F * D
    BY <1>1, <1>2
  <2> HIDE DEF F
  <2>2. q \in 0 .. F - 1
    BY <1>1, <2>1, DivLess DEF q
  <2>3. q + 1 < F
    <3> USE DEF F
    <3> QED
      BY <1>5, <2>2
  <2>4. (q + 1) * D + D <= F * D
    <3> DEFINE s == q + 1
    <3>1. s \in Int /\ F \in Int /\ D \in Nat /\ s < F
      BY <1>1, <1>4, <2>1, <2>3
    <3> HIDE DEF s
    <3>2. s * D + D <= F * D
      BY <3>1, ProductsOrdered
    <3> QED
      BY <3>2 DEF s
  <2>5. (q + 1) * D \in Int
    BY <1>1, <1>4
  <2> QED
    BY <1>1, <1>4, <1>6, <2>1, <2>4, <2>5
<1>9. ASSUME NEW j \in Nat PROVE Bit(y, j) = IF j = p THEN 1 ELSE Bit(x, j)
  <2>1. CASE j = p
    <3>1. Bit(y, j) = (q + 1) % 2
      BY <1>7, <2>1 DEF Bit, D
    <3>2. (q + 1) % 2 = 1
      BY <1>5
    <3> QED
      BY <2>1, <3>1, <3>2
  <2>2. CASE j < p
    <3>1. Bit(x + 1 * Evm!Power(2, p), j) = Bit(x, j)
      BY <1>0, <1>1, <2>2, BitsBelow
    <3>2. x + 1 * D = y
      BY <1>1 DEF y
    <3> QED
      BY <2>2, <3>1, <3>2 DEF D
  <2>3. CASE j > p
    <3> DEFINE i == j - p - 1
               l == p + 1
               G == Evm!Power(2, i)
    <3>1. i \in Nat /\ l \in Nat /\ j = l + i
      BY <1>0, <2>3
    <3>2. Evm!Power(2, l) = 2 * D
      BY <1>0, TwoIs DEF D
    <3> HIDE DEF l, i
    <3>3. Evm!Power(2, l + i) = Evm!Power(2, l) * Evm!Power(2, i)
      BY <3>1, PowerAdd
    <3>4. G \in Nat \ {0}
      BY <3>1, TwoIs
    <3>5. Evm!Power(2, j) = (2 * D) * G
      BY <3>1, <3>2, <3>3
    <3>6. Bit(y, j) = (y \div ((2 * D) * G)) % 2 /\ Bit(x, j) = (x \div ((2 * D) * G)) % 2
      BY <3>5 DEF Bit
    <3> HIDE DEF G
    <3>7. y \div (2 * D) = h /\ x \div (2 * D) = h
      <4>1. (y \div D) \div 2 = y \div (D * 2) /\ (x \div D) \div 2 = x \div (D * 2)
        <5>1. Nested(y, D, 2) /\ Nested(x, D, 2)
          BY <1>1, <1>6, NestedDivision
        <5> QED
          BY <5>1 DEF Nested
      <4>2. (q + 1) \div 2 = h /\ q \div 2 = h
        BY <1>5
      <4>3. D * 2 = 2 * D
        BY <1>1
      <4>4. x \div D = q
        BY DEF q
      <4> QED
        BY <1>7, <4>1, <4>2, <4>3, <4>4
    <3>8. y \div ((2 * D) * G) = h \div G /\ x \div ((2 * D) * G) = h \div G
      <4> DEFINE T == 2 * D
      <4>1. T \in Nat \ {0}
        BY <1>1
      <4>2. y \div T = h /\ x \div T = h
        BY <3>7
      <4> HIDE DEF T
      <4>3. (y \div T) \div G = y \div (T * G) /\ (x \div T) \div G = x \div (T * G)
        <5>1. Nested(y, T, G) /\ Nested(x, T, G)
          BY <1>1, <1>6, <3>4, <4>1, NestedDivision
        <5> QED
          BY <5>1 DEF Nested
      <4>4. y \div (T * G) = h \div G /\ x \div (T * G) = h \div G
        BY <4>2, <4>3
      <4> QED
        BY <4>4 DEF T
    <3> QED
      BY <2>3, <3>6, <3>8
  <2> QED
    BY <1>0, <2>1, <2>2, <2>3
<1> QED
  BY <1>8, <1>9 DEF y, N, D

\* The bits that a number has not are those of its complement.
LEMMA BitsOfComplement ==
  ASSUME NEW n \in Nat, NEW x \in 0 .. Evm!Power(2, n) - 1, NEW j \in 0 .. n - 1
  PROVE  /\ Bit(x, j) \in {0, 1}
         /\ Bit(Evm!Power(2, n) - 1 - x, j) = 1 - Bit(x, j)
<1> DEFINE D == Evm!Power(2, j)
           N == Evm!Power(2, n)
           q == x \div D
           r == x % D
           y == N - 1 - x
<1>0. j \in Nat /\ j < n
  OBVIOUS
<1>1. D \in Nat \ {0} /\ N \in Nat \ {0} /\ x \in 0 .. N - 1 /\ x \in Nat
  BY <1>0, TwoIs
<1>2. PICK E \in Nat \ {0} : N = (2 * E) * D
  BY <1>0, TwoApart
<1>3. Bit(x, j) = q % 2 /\ Bit(y, j) = (y \div D) % 2
  BY DEF Bit
<1> HIDE DEF D, N
<1>4. q \in Nat /\ r \in 0 .. D - 1 /\ x = r + q * D
  BY <1>1
<1> HIDE DEF q, r
<1> DEFINE s == (2 * E) - 1 - q
           t == D - 1 - r
<1>5. s \in Int /\ t \in 0 .. D - 1
  BY <1>1, <1>4
<1>6. y = t + s * D
  <2>1. s * D = (2 * E) * D - D - q * D
    BY <1>1, <1>4
  <2>2. (2 * E) * D \in Int /\ q * D \in Int
    BY <1>1, <1>4
  <2> QED
    BY <1>1, <1>2, <1>4, <2>1, <2>2
<1>7. s % 2 = 1 - (q % 2)
  BY <1>4
<1> HIDE DEF s, t
<1>8. y \in Nat
  BY <1>1
<1> HIDE DEF y
<1>9. y \div D = s
  <2>0. s \in Nat
    <3> DEFINE F == 2 * E
    <3>1. F \in Nat \ {0} /\ x < F * D
      BY <1>1, <1>2
    <3> HIDE DEF F
    <3>2. q \in 0 .. F - 1
      BY <1>1, <3>1, DivLess DEF q
    <3> QED
      BY <3>2 DEF s, F
  <2>1. Divided(y, D, s, t) /\ y \in Int
    BY <1>1, <1>5, <1>6, <1>8, <2>0 DEF Divided
  <2> QED
    BY <1>1, <2>1, DivMod
<1>10. q % 2 \in {0, 1}
  BY <1>4
<1> QED
  BY <1>3, <1>7, <1>9, <1>10 DEF y, N

-----------------------------------------------------------------------------
(* The number with given bits.  MapThenSumSet takes the elements of a set  *)
(* out one after the other, in an order of its own.                        *)

Pick(s) == CHOOSE j \in s : TRUE

\* g gives the sum of the powers of two of each of the sets in D.
OnesSums(g, D) ==
  g = [s \in D |-> IF s = {} THEN 0 ELSE Evm!Power(2, Pick(s)) + g[s \ {Pick(s)}]]

Small(T, k) == {s \in SUBSET T : Cardinality(s) <= k}

LEMMA TakenOut ==
  ASSUME NEW T, IsFiniteSet(T), NEW s \in SUBSET T, s # {}
  PROVE  /\ Pick(s) \in s /\ Pick(s) \in T
         /\ \A k \in Nat : s \in Small(T, k + 1) => s \ {Pick(s)} \in Small(T, k)
         /\ Cardinality(s) \in Nat \ {0}
<1>1. Pick(s) \in s /\ Pick(s) \in T
  BY DEF Pick
<1>2. IsFiniteSet(s)
  BY FS_Subset
<1>3. Cardinality(s) \in Nat /\ Cardinality(s) # 0
  BY <1>2, FS_CardinalityType, FS_EmptySet
<1>4. Cardinality(s \ {Pick(s)}) = Cardinality(s) - 1
  BY <1>1, <1>2, FS_RemoveElement
<1> QED
  BY <1>1, <1>3, <1>4 DEF Small

LEMMA SubsetsCounted ==
  ASSUME NEW T, IsFiniteSet(T)
  PROVE  /\ Cardinality(T) \in Nat /\ Small(T, Cardinality(T)) = SUBSET T
         /\ \A s \in Small(T, 0) : s = {}
<1>1. Cardinality(T) \in Nat
  BY FS_CardinalityType
<1>2. \A s \in SUBSET T : Cardinality(s) <= Cardinality(T)
  BY FS_Subset
<1>3. ASSUME NEW s \in Small(T, 0), s # {} PROVE FALSE
  <2>1. s \in SUBSET T /\ Cardinality(s) <= 0
    BY DEF Small
  <2>2. Cardinality(s) \in Nat \ {0}
    BY <1>3, <2>1, TakenOut
  <2> QED
    BY <2>1, <2>2
<1> QED
  BY <1>1, <1>2, <1>3 DEF Small

LEMMA OnesSumsExist ==
  ASSUME NEW T, IsFiniteSet(T)
  PROVE  \E g : OnesSums(g, SUBSET T)
<1> DEFINE S == {k \in Nat : \E g : OnesSums(g, Small(T, k))}
<1>1. 0 \in S
  <2>1. OnesSums([s \in Small(T, 0) |-> 0], Small(T, 0))
    BY SubsetsCounted DEF OnesSums
  <2> QED
    BY <2>1
<1>2. ASSUME NEW k \in Nat, k \in S PROVE k + 1 \in S
  <2>1. PICK g : OnesSums(g, Small(T, k))
    BY <1>2
  <2> DEFINE Value(s) == IF s = {} THEN 0 ELSE Evm!Power(2, Pick(s)) + g[s \ {Pick(s)}]
             h == [s \in Small(T, k + 1) |-> Value(s)]
  <2>2. \A s \in Small(T, k) : s \in Small(T, k + 1) /\ g[s] = Value(s)
    <3>1. \A s \in Small(T, k) : s \in Small(T, k + 1)
      <4> SUFFICES ASSUME NEW s \in Small(T, k) PROVE s \in Small(T, k + 1)
        OBVIOUS
      <4>1. s \in SUBSET T /\ Cardinality(s) <= k
        BY DEF Small
      <4>2. Cardinality(s) \in Nat
        BY <4>1, FS_Subset, FS_CardinalityType
      <4> QED
        BY <4>1, <4>2 DEF Small
    <3>2. \A s \in Small(T, k) : g[s] = Value(s)
      BY <2>1 DEF OnesSums
    <3> QED
      BY <3>1, <3>2
  <2>3. \A s \in Small(T, k) : h[s] = g[s]
    <3> HIDE DEF Value
    <3> QED
      BY <2>2
  <2>4. \A s \in Small(T, k + 1) : s # {} => s \ {Pick(s)} \in Small(T, k)
    BY TakenOut DEF Small
  <2>5. \A s \in Small(T, k + 1) :
          Value(s) = IF s = {} THEN 0 ELSE Evm!Power(2, Pick(s)) + h[s \ {Pick(s)}]
    BY <2>3, <2>4
  <2> HIDE DEF Value
  <2>6. OnesSums(h, Small(T, k + 1))
    BY <2>5 DEF OnesSums
  <2> QED
    BY <2>6
<1> HIDE DEF S
<1>3. Cardinality(T) \in S
  BY <1>1, <1>2, Induct, SubsetsCounted
<1>4. \E g : OnesSums(g, Small(T, Cardinality(T)))
  BY <1>3 DEF S
<1>5. Small(T, Cardinality(T)) = SUBSET T
  BY SubsetsCounted
<1> QED
  BY <1>4, <1>5

Places == 0 .. Bits - 1

\* x is the word whose bits are set in the places of T.
HasBits(x, T) == x \in Word /\ \A j \in Places : Bit(x, j) = IF j \in T THEN 1 ELSE 0

LEMMA WordsAre ==
  ASSUME machine \in Machines
  PROVE  /\ Word = 0 .. Evm!Power(2, Bits) - 1 /\ Modulus = Evm!Power(2, Bits)
         /\ Bits \in Nat \ {0}
<1>1. Modulus = Evm!Power(2, Bits) /\ Bits \in Nat \ {0}
  BY Sizes DEF Evm!Modulus, Evm!Bits, Bits
<1> QED
  BY <1>1 DEF Word

LEMMA SumsHaveBits ==
  ASSUME machine \in Machines, NEW T \in SUBSET Places, NEW g, OnesSums(g, SUBSET T)
  PROVE  \A s \in SUBSET T : HasBits(g[s], s)
<1> DEFINE S == {k \in Nat : \A s \in Small(T, k) : HasBits(g[s], s)}
<1>0. Word = 0 .. Evm!Power(2, Bits) - 1 /\ Bits \in Nat \ {0} /\ Evm!Power(2, Bits) \in Nat \ {0}
  BY WordsAre, TwoIs
<1>1. IsFiniteSet(T)
  <2>1. IsFiniteSet(Places)
    BY <1>0, FS_Interval DEF Places
  <2> QED
    BY <2>1, FS_Subset
<1>2. \A s \in SUBSET T : g[s] = IF s = {} THEN 0 ELSE Evm!Power(2, Pick(s)) + g[s \ {Pick(s)}]
  BY DEF OnesSums
<1>3. HasBits(g[{}], {})
  <2>0. {} \in SUBSET T
    OBVIOUS
  <2>1. g[{}] = 0 /\ 0 \in Word
    <3>1. g[{}] = 0
      BY <1>2, <2>0
    <3> QED
      BY <1>0, <3>1
  <2>2. \A j \in Places : Bit(0, j) = 0
    <3> SUFFICES ASSUME NEW j \in Places PROVE Bit(0, j) = 0
      OBVIOUS
    <3>1. j \in Nat /\ 0 \in Nat /\ 0 <= j
      BY <1>0 DEF Places
    <3>2. 0 \in 0 .. Evm!Power(2, 0) - 1
      BY TwoIs
    <3> QED
      BY <3>1, <3>2, BitsAbove
  <2> QED
    BY <2>1, <2>2 DEF HasBits
<1>4. 0 \in S
  BY <1>1, <1>3, SubsetsCounted
<1>5. ASSUME NEW k \in Nat, k \in S PROVE k + 1 \in S
  <2> SUFFICES ASSUME NEW s \in Small(T, k + 1) PROVE HasBits(g[s], s)
    OBVIOUS
  <2>1. CASE s = {}
    BY <1>3, <2>1
  <2>2. CASE s # {}
    <3> DEFINE p == Pick(s)
               t == s \ {p}
               x == g[t]
               y == Evm!Power(2, p) + x
    <3>1. s \in SUBSET T
      BY DEF Small
    <3>2. p \in s /\ p \in Places /\ t \in Small(T, k)
      BY <1>1, <2>2, <3>1, TakenOut
    <3>3. g[s] = y
      BY <1>2, <2>2, <3>1
    <3>4. HasBits(x, t)
      BY <1>5, <3>2
    <3>5. p \notin t
      OBVIOUS
    <3>6. t = s \ {p}
      OBVIOUS
    <3> HIDE DEF p, x, t
    <3>7. Bit(x, p) = 0 /\ x \in 0 .. Evm!Power(2, Bits) - 1
      BY <1>0, <3>2, <3>4, <3>5 DEF HasBits
    <3>8. y \in 0 .. Evm!Power(2, Bits) - 1 /\ \A j \in Nat : Bit(y, j) = IF j = p THEN 1 ELSE Bit(x, j)
      <4>1. p \in 0 .. Bits - 1 /\ Bits \in Nat
        BY <1>0, <3>2 DEF Places
      <4> QED
        BY <3>7, <4>1, BitAdded
    <3> HIDE DEF y
    <3>9. \A j \in Places : Bit(y, j) = IF j \in s THEN 1 ELSE 0
      <4> SUFFICES ASSUME NEW j \in Places PROVE Bit(y, j) = IF j \in s THEN 1 ELSE 0
        OBVIOUS
      <4>1. j \in Nat
        BY <1>0 DEF Places
      <4>2. Bit(y, j) = IF j = p THEN 1 ELSE Bit(x, j)
        BY <3>8, <4>1
      <4>3. Bit(x, j) = IF j \in t THEN 1 ELSE 0
        BY <3>4 DEF HasBits
      <4> QED
        BY <3>2, <3>6, <4>2, <4>3
    <3> QED
      BY <1>0, <3>3, <3>8, <3>9 DEF HasBits
  <2> QED
    BY <2>1, <2>2
<1> HIDE DEF S
<1>6. Cardinality(T) \in S
  BY <1>1, <1>4, <1>5, Induct, SubsetsCounted
<1> QED
  BY <1>1, <1>6, SubsetsCounted DEF S

LEMMA OfOnesIs ==
  ASSUME NEW T
  PROVE  Evm!OfOnes(T) = (CHOOSE g : OnesSums(g, SUBSET T))[T]
<1>1. \A g : OnesSums(g, SUBSET T) <=>
         g = [s \in SUBSET T |->
                IF s = {} THEN 0
                ELSE Evm!Power(2, CHOOSE x \in s : TRUE) + g[s \ {CHOOSE x \in s : TRUE}]]
  BY DEF OnesSums, Pick
<1>2. Evm!OfOnes(T)
        = (CHOOSE g : g = [s \in SUBSET T |->
             IF s = {} THEN 0
             ELSE Evm!Power(2, CHOOSE x \in s : TRUE) + g[s \ {CHOOSE x \in s : TRUE}]])[T]
  BY DEF Evm!OfOnes, Evm!MapThenSumSet, Evm!MapThenFoldSet
<1>3. (CHOOSE g : OnesSums(g, SUBSET T))
        = CHOOSE g : g = [s \in SUBSET T |->
             IF s = {} THEN 0
             ELSE Evm!Power(2, CHOOSE x \in s : TRUE) + g[s \ {CHOOSE x \in s : TRUE}]]
  BY <1>1
<1> QED
  BY <1>2, <1>3

LEMMA OfOnesHas ==
  ASSUME machine \in Machines, NEW T \in SUBSET Places
  PROVE  HasBits(Evm!OfOnes(T), T)
<1> DEFINE g == CHOOSE h : OnesSums(h, SUBSET T)
<1>1. IsFiniteSet(T)
  <2>1. IsFiniteSet(Places)
    BY WordsAre, FS_Interval DEF Places
  <2> QED
    BY <2>1, FS_Subset
<1>2. OnesSums(g, SUBSET T)
  BY <1>1, OnesSumsExist
<1>3. Evm!OfOnes(T) = g[T]
  BY OfOnesIs
<1> HIDE DEF g
<1>4. HasBits(g[T], T)
  BY <1>2, SumsHaveBits
<1> QED
  BY <1>3, <1>4

LEMMA BitsTell ==
  ASSUME machine \in Machines, NEW x, NEW y, NEW T, NEW U
  PROVE  /\ HasBits(x, T) /\ HasBits(y, T) => x = y
         /\ HasBits(x, T) /\ HasBits(x, U) => T \cap Places = U \cap Places
<1>1. ASSUME HasBits(x, T), HasBits(y, T) PROVE x = y
  <2>1. \A j \in 0 .. Bits - 1 : Bit(x, j) = Bit(y, j)
    BY <1>1 DEF HasBits, Places
  <2>2. x \in 0 .. Evm!Power(2, Bits) - 1 /\ y \in 0 .. Evm!Power(2, Bits) - 1 /\ Bits \in Nat
    BY <1>1, WordsAre DEF HasBits
  <2> QED
    BY <2>1, <2>2, SameBits
<1>2. ASSUME HasBits(x, T), HasBits(x, U) PROVE T \cap Places = U \cap Places
  <2>1. \A j \in Places : j \in T <=> j \in U
    BY <1>2 DEF HasBits
  <2> QED
    BY <2>1
<1> QED
  BY <1>1, <1>2

LEMMA OnesHas ==
  ASSUME machine \in Machines, NEW x \in Word
  PROVE  HasBits(x, Evm!OnesOf(x)) /\ Evm!OnesOf(x) \subseteq Places
<1>1. Evm!OnesOf(x) = {j \in Places : Bit(x, j) = 1}
  BY DEF Evm!OnesOf, Bit, Places, Evm!Bits, Bits
<1>2. \A j \in Places : Bit(x, j) \in {0, 1}
  <2> SUFFICES ASSUME NEW j \in Places PROVE Bit(x, j) \in {0, 1}
    OBVIOUS
  <2>1. j \in 0 .. Bits - 1 /\ Bits \in Nat /\ x \in 0 .. Evm!Power(2, Bits) - 1
    BY WordsAre DEF Places
  <2> QED
    BY <2>1, BitsOfComplement
<1> QED
  BY <1>1, <1>2 DEF HasBits

-----------------------------------------------------------------------------
(* A byte has a whole number of bits.                                      *)

LEMMA PowerOfPower ==
  ASSUME NEW k \in Nat, NEW i \in Nat
  PROVE  Evm!Power(Evm!Power(2, k), i) = Evm!Power(2, k * i)
<1> DEFINE B == Evm!Power(2, k)
           S == {n \in Nat : Evm!Power(B, n) = Evm!Power(2, k * n)}
<1>1. B \in Nat
  BY TwoIs
<1>2. 0 \in S
  <2>1. k * 0 = 0
    OBVIOUS
  <2>2. Evm!Power(B, 0) = 1 /\ Evm!Power(2, 0) = 1
    <3> HIDE DEF B
    <3> QED
      BY <1>1, PowerSteps, TwoIs
  <2> QED
    BY <2>1, <2>2
<1>3. ASSUME NEW n \in Nat, n \in S PROVE n + 1 \in S
  <2> DEFINE kn == k * n
  <2>1. kn \in Nat /\ k * (n + 1) = kn + k
    OBVIOUS
  <2>2. Evm!Power(B, n) = Evm!Power(2, kn)
    BY <1>3
  <2> HIDE DEF kn
  <2>3. Evm!Power(2, kn + k) = Evm!Power(2, kn) * Evm!Power(2, k)
    BY <2>1, PowerAdd
  <2>4. Evm!Power(B, n + 1) = B * Evm!Power(B, n)
    <3> HIDE DEF B
    <3> QED
      BY <1>1, PowerSteps
  <2> DEFINE P == Evm!Power(2, kn)
  <2>5. P \in Nat
    BY <2>1, TwoIs
  <2>6. Evm!Power(B, n + 1) = B * P /\ Evm!Power(2, k * (n + 1)) = P * B
    BY <2>1, <2>2, <2>3, <2>4
  <2>7. B * P = P * B
    <3> HIDE DEF B, P
    <3> QED
      BY <1>1, <2>5
  <2> QED
    BY <2>6, <2>7
<1> HIDE DEF S
<1>4. i \in S
  BY <1>2, <1>3, Induct
<1> QED
  BY <1>4 DEF S

LEMMA ExponentIs ==
  ASSUME NEW i \in Nat, NEW j \in Nat, Evm!Power(2, i) = Evm!Power(2, j)
  PROVE  i = j
<1>1. ASSUME NEW m \in Nat, NEW n \in Nat, m < n, Evm!Power(2, m) = Evm!Power(2, n)
      PROVE  FALSE
  <2>1. PICK E \in Nat \ {0} : Evm!Power(2, n) = (2 * E) * Evm!Power(2, m)
    BY <1>1, TwoApart
  <2> DEFINE D == Evm!Power(2, m)
  <2>2. D \in Nat \ {0} /\ D = (2 * E) * D
    BY <1>1, <2>1, TwoIs
  <2> HIDE DEF D
  <2> DEFINE F == E * D
  <2>3. F \in Nat \ {0} /\ (2 * E) * D = 2 * F /\ F >= D
    BY <2>2
  <2> HIDE DEF F
  <2> QED
    BY <2>2, <2>3
<1> QED
  BY <1>1

\* The factors of a power of two are powers of two.
LEMMA FactorOfPower ==
  ASSUME NEW n \in Nat, NEW u \in Nat, NEW v \in Nat, u * v = Evm!Power(2, n)
  PROVE  \E k \in Nat : u = Evm!Power(2, k)
<1> DEFINE Good(m) == \A x, y \in Nat : x * y = Evm!Power(2, m) => \E k \in Nat : x = Evm!Power(2, k)
           S == {m \in Nat : Good(m)}
<1>1. 0 \in S
  <2> SUFFICES ASSUME NEW x \in Nat, NEW y \in Nat, x * y = Evm!Power(2, 0)
               PROVE  \E k \in Nat : x = Evm!Power(2, k)
    OBVIOUS
  <2>1. x * y = 1 /\ Evm!Power(2, 0) = 1
    BY TwoIs
  <2>2. x = 1
    BY <2>1
  <2> QED
    BY <2>1, <2>2
<1>2. ASSUME NEW m \in Nat, m \in S PROVE m + 1 \in S
  <2> DEFINE D == Evm!Power(2, m)
  <2> SUFFICES ASSUME NEW x \in Nat, NEW y \in Nat, x * y = Evm!Power(2, m + 1)
               PROVE  \E k \in Nat : x = Evm!Power(2, k)
    OBVIOUS
  <2>1. D \in Nat /\ x * y = 2 * D
    BY TwoIs
  <2>2. Good(m)
    BY <1>2
  <2>3. CASE x % 2 = 0
    <3> DEFINE h == x \div 2
    <3>1. h \in Nat /\ x = 2 * h
      BY <2>3
    <3> HIDE DEF h
    <3>2. h * y = D
      <4> HIDE DEF D
      <4> DEFINE p == h * y
      <4>1. p \in Nat /\ x * y = 2 * p
        BY <3>1
      <4> HIDE DEF p
      <4>2. p = D
        BY <2>1, <4>1
      <4> QED
        BY <4>2 DEF p
    <3>3. PICK k \in Nat : h = Evm!Power(2, k)
      BY <2>2, <3>1, <3>2
    <3>4. x = Evm!Power(2, k + 1)
      BY <3>1, <3>3, TwoIs
    <3>5. k + 1 \in Nat
      OBVIOUS
    <3> QED
      BY <3>4, <3>5
  <2>4. CASE x % 2 = 1
    <3> DEFINE h == y \div 2
               g == x \div 2
               e == y % 2
    <3>1. h \in Nat /\ g \in Nat /\ e \in {0, 1} /\ x = 2 * g + 1 /\ y = 2 * h + e
      BY <2>4
    <3> HIDE DEF h, g, e
    <3>2. e = 0
      <4> HIDE DEF D
      <4> SUFFICES ASSUME e = 1 PROVE FALSE
        BY <3>1
      <4> DEFINE p == g * y
      <4>1. p \in Nat /\ x * y = 2 * p + y
        BY <3>1
      <4> HIDE DEF p
      <4> QED
        BY <2>1, <3>1, <4>1
    <3>3. x * h = D
      <4> HIDE DEF D
      <4> DEFINE p == x * h
      <4>1. p \in Nat /\ x * y = 2 * p
        BY <3>1, <3>2
      <4> HIDE DEF p
      <4>2. p = D
        BY <2>1, <4>1
      <4> QED
        BY <4>2 DEF p
    <3> QED
      BY <2>2, <3>1, <3>3
  <2>5. x % 2 \in {0, 1}
    OBVIOUS
  <2> QED
    BY <2>3, <2>4, <2>5
<1> HIDE DEF S
<1>3. n \in S
  BY <1>1, <1>2, Induct
<1> QED
  BY <1>3 DEF S

\* K bits make a byte.
BitsOfByte(K) ==
  /\ K \in Nat \ {0} /\ ByteBase = Evm!Power(2, K) /\ K * NBytes = Bits
  /\ \A i \in Nat : Evm!Power(ByteBase, i) = Evm!Power(2, K * i)

LEMMA BytesHaveBits ==
  ASSUME machine \in Machines
  PROVE  \E K : BitsOfByte(K)
<1> DEFINE n == NBytes - 1
           m == Evm!Power(Bits, n)
<1>1. NBytes \in 1 .. Bits /\ Evm!Power(Bits, NBytes) = Modulus /\ Bits \in Nat /\ Bits >= 4
      /\ Modulus = Evm!Power(2, Bits)
  BY BytesFit, Sizes, WordsAre DEF ByteBase
<1>2. n \in Nat /\ NBytes = n + 1
  BY <1>1
<1>3. m \in Nat /\ Evm!Power(Bits, n + 1) = Bits * m
  <2> HIDE DEF n
  <2> QED
    BY <1>1, <1>2, PowerSteps
<1> HIDE DEF n
<1>4. Bits * m = Evm!Power(2, Bits)
  BY <1>1, <1>2, <1>3
<1> HIDE DEF m
<1>5. PICK K \in Nat : Bits = Evm!Power(2, K)
  <2> DEFINE u == Bits
  <2>1. u \in Nat /\ u * m = Evm!Power(2, Bits)
    BY <1>1, <1>4
  <2> HIDE DEF u
  <2>2. \E k \in Nat : u = Evm!Power(2, k)
    BY <1>1, <1>3, <2>1, FactorOfPower
  <2> QED
    BY <2>2 DEF u
<1>6. K # 0
  BY <1>1, <1>5, TwoIs
<1>7. \A i \in Nat : Evm!Power(Bits, i) = Evm!Power(2, K * i)
  BY <1>5, PowerOfPower
<1>8. K * NBytes = Bits
  <2>1. NBytes \in Nat
    BY <1>1
  <2> DEFINE j == K * NBytes
  <2>2. j \in Nat /\ Evm!Power(2, j) = Evm!Power(2, Bits)
    BY <1>1, <1>7, <2>1
  <2> HIDE DEF j
  <2>3. j = Bits
    BY <1>1, <2>2, ExponentIs
  <2> QED
    BY <2>3 DEF j
<1> QED
  BY <1>5, <1>6, <1>7, <1>8 DEF BitsOfByte, ByteBase

\* The places of a word in its bytes.
Within(K, i, j) == K * i + j

LEMMA PlacesAre ==
  ASSUME machine \in Machines, NEW K, BitsOfByte(K)
  PROVE  /\ K \in Nat \ {0} /\ K <= Bits
         /\ \A i \in 0 .. NBytes - 1 : \A j \in 0 .. K - 1 : Within(K, i, j) \in Places
         /\ \A p \in Places : \E i \in 0 .. NBytes - 1, j \in 0 .. K - 1 : p = Within(K, i, j)
<1> DEFINE N == NBytes
           M == Bits
<1>1. K \in Nat \ {0} /\ N \in Nat \ {0} /\ M \in Nat /\ K * N = M
  BY BytesFit, Sizes DEF BitsOfByte
<1>2. Places = 0 .. M - 1
  BY DEF Places
<1> HIDE DEF N, M
<1>3. K <= M
  BY <1>1
<1>4. ASSUME NEW i \in 0 .. N - 1, NEW j \in 0 .. K - 1 PROVE K * i + j \in 0 .. M - 1
  <2>1. i * K + K <= N * K
    <3>1. i \in Int /\ N \in Int /\ K \in Nat /\ i < N
      BY <1>1, <1>4
    <3> QED
      BY <3>1, ProductsOrdered
  <2>2. i * K = K * i /\ N * K = M /\ K * i \in Nat
    BY <1>1, <1>4
  <2> QED
    BY <1>1, <1>4, <2>1, <2>2
<1>5. ASSUME NEW p \in 0 .. M - 1
      PROVE  \E i \in 0 .. N - 1, j \in 0 .. K - 1 : p = K * i + j
  <2> DEFINE i == p \div K
             j == p % K
  <2>1. j \in 0 .. K - 1 /\ p = K * i + j /\ i \in Nat
    BY <1>1
  <2>2. p \in Nat /\ p < N * K
    <3>1. N * K = M
      BY <1>1
    <3> QED
      BY <1>1, <1>5, <3>1
  <2>3. i \in 0 .. N - 1
    BY <1>1, <2>2, DivLess
  <2> QED
    BY <2>1, <2>3
<1> QED
  BY <1>1, <1>3, <1>4, <1>5, <1>2 DEF Within, N, M

LEMMA ByteHasBits ==
  ASSUME machine \in Machines, NEW K, BitsOfByte(K), NEW x \in Word, NEW i \in 0 .. NBytes - 1
  PROVE  /\ Byte(x, i) \in Word
         /\ \A j \in 0 .. K - 1 : Bit(Byte(x, i), j) = Bit(x, Within(K, i, j))
         /\ \A j \in Places : j \notin 0 .. K - 1 => Bit(Byte(x, i), j) = 0
<1> DEFINE Ki == K * i
           A == Evm!Power(2, Ki)
           B == Evm!Power(2, K)
           y == x \div A
           b == y % B
           c == y \div B
<1>1. K \in Nat /\ i \in Nat /\ Ki \in Nat /\ K <= Bits
  <2>1. K \in Nat \ {0} /\ K <= Bits
    BY PlacesAre
  <2>2. i \in Nat
    BY BytesFit
  <2> QED
    BY <2>1, <2>2
<1>2. Byte(x, i) = b
  <2>1. Evm!Power(ByteBase, i) = A /\ ByteBase = B
    BY <1>1 DEF BitsOfByte
  <2> QED
    BY <2>1 DEF Byte
<1>3. x \in Nat
  BY WordsAre, TwoIs
<1> HIDE DEF Ki
<1>4. A \in Nat \ {0} /\ B \in Nat \ {0}
  BY <1>1, TwoIs
<1>5. y \in Nat
  <2> HIDE DEF A
  <2> QED
    BY <1>3, <1>4
<1>6. b \in 0 .. B - 1 /\ c \in Nat /\ y = b + c * B
  <2> HIDE DEF B, y
  <2> QED
    BY <1>4, <1>5
<1> HIDE DEF b, c
<1>7. b \in Word
  <2>1. Word = 0 .. Evm!Power(2, Bits) - 1 /\ Bits \in Nat
    BY WordsAre
  <2>2. CASE K = Bits
    BY <1>6, <2>1, <2>2
  <2>3. CASE K < Bits
    <3>1. PICK E \in Nat \ {0} : Evm!Power(2, Bits) = (2 * E) * B
      BY <1>1, <2>1, <2>3, TwoApart
    <3>2. B <= (2 * E) * B /\ (2 * E) * B \in Nat
      <4> HIDE DEF B
      <4> DEFINE F == 2 * E
      <4>1. F \in Nat /\ F >= 1
        OBVIOUS
      <4> HIDE DEF F
      <4>2. F * B \in Nat /\ B <= F * B
        BY <1>4, <4>1
      <4> QED
        BY <4>2 DEF F
    <3> DEFINE G == (2 * E) * B
    <3>3. Evm!Power(2, Bits) = G /\ B <= G /\ G \in Nat
      BY <3>1, <3>2
    <3> HIDE DEF G, B
    <3> QED
      BY <1>4, <1>6, <2>1, <3>3
  <2> QED
    BY <1>1, <2>1, <2>2, <2>3
<1>8. ASSUME NEW j \in 0 .. K - 1 PROVE Bit(b, j) = Bit(x, Within(K, i, j))
  <2> DEFINE D == Evm!Power(2, j)
  <2>1. j \in Nat /\ j < K
    BY <1>1
  <2>2. Bit(b + c * B, j) = Bit(b, j)
    <3>1. b \in Nat
      BY <1>4, <1>6
    <3> QED
      BY <1>1, <1>6, <2>1, <3>1, BitsBelow
  <2>3. Bit(y, j) = Bit(b, j)
    BY <1>6, <2>2
  <2>4. Bit(y, j) = (y \div D) % 2
    BY DEF Bit
  <2>5. Evm!Power(2, Ki + j) = A * D
    BY <1>1, <2>1, PowerAdd
  <2>6. Bit(x, Within(K, i, j)) = (x \div (A * D)) % 2
    BY <2>5 DEF Bit, Within, Ki
  <2>7. D \in Nat \ {0}
    BY <2>1, TwoIs
  <2> HIDE DEF D, A
  <2>8. Nested(x, A, D)
    BY <1>3, <1>4, <2>7, NestedDivision
  <2> QED
    BY <2>3, <2>4, <2>6, <2>8 DEF Nested
<1>9. ASSUME NEW j \in Places, j \notin 0 .. K - 1 PROVE Bit(b, j) = 0
  <2>1. j \in Nat /\ K <= j
    BY <1>1, <1>9, WordsAre DEF Places
  <2> QED
    BY <1>1, <1>6, <2>1, BitsAbove
<1> QED
  BY <1>2, <1>7, <1>8, <1>9

\* The part of a set of places that lies in byte i.
InByte(K, i, T) == {j \in 0 .. K - 1 : Within(K, i, j) \in T}

\* A word has its bits in its bytes.
LEMMA BitsInBytes ==
  ASSUME machine \in Machines, NEW K, BitsOfByte(K), NEW x \in Word, NEW T
  PROVE  HasBits(x, T) <=> \A i \in 0 .. NBytes - 1 : HasBits(Byte(x, i), InByte(K, i, T))
<1> DEFINE Has(j) == Bit(x, j) = IF j \in T THEN 1 ELSE 0
<1>1. HasBits(x, T) <=> \A p \in Places : Has(p)
  BY DEF HasBits
<1>2. ASSUME NEW i \in 0 .. NBytes - 1
      PROVE  HasBits(Byte(x, i), InByte(K, i, T)) <=> \A j \in 0 .. K - 1 : Has(Within(K, i, j))
  <2> DEFINE b == Byte(x, i)
  <2>1. /\ b \in Word
        /\ \A j \in 0 .. K - 1 : Bit(b, j) = Bit(x, Within(K, i, j))
        /\ \A j \in Places : j \notin 0 .. K - 1 => Bit(b, j) = 0
    BY ByteHasBits
  <2>2. \A j \in 0 .. K - 1 : j \in Places
    BY PlacesAre, WordsAre DEF Places
  <2>3. HasBits(b, InByte(K, i, T))
          <=> \A j \in Places : Bit(b, j) = IF j \in InByte(K, i, T) THEN 1 ELSE 0
    BY <2>1 DEF HasBits
  <2> HIDE DEF b
  <2>4. \A j \in 0 .. K - 1 : (j \in InByte(K, i, T) <=> Within(K, i, j) \in T)
    BY DEF InByte
  <2>5. \A j \in Places : j \notin 0 .. K - 1 => j \notin InByte(K, i, T)
    BY DEF InByte
  <2>6. ASSUME \A j \in Places : Bit(b, j) = IF j \in InByte(K, i, T) THEN 1 ELSE 0
        PROVE  \A j \in 0 .. K - 1 : Has(Within(K, i, j))
    BY <2>1, <2>2, <2>4, <2>6
  <2>7. ASSUME \A j \in 0 .. K - 1 : Has(Within(K, i, j))
        PROVE  \A j \in Places : Bit(b, j) = IF j \in InByte(K, i, T) THEN 1 ELSE 0
    <3> SUFFICES ASSUME NEW j \in Places PROVE Bit(b, j) = IF j \in InByte(K, i, T) THEN 1 ELSE 0
      OBVIOUS
    <3>1. CASE j \in 0 .. K - 1
      BY <2>1, <2>4, <2>7, <3>1
    <3>2. CASE j \notin 0 .. K - 1
      BY <2>1, <2>5, <3>2
    <3> QED
      BY <3>1, <3>2
  <2> QED
    BY <2>3, <2>6, <2>7 DEF b
<1> HIDE DEF Has
<1>3. (\A p \in Places : Has(p))
        <=> \A i \in 0 .. NBytes - 1 : \A j \in 0 .. K - 1 : Has(Within(K, i, j))
  <2>1. /\ \A i \in 0 .. NBytes - 1 : \A j \in 0 .. K - 1 : Within(K, i, j) \in Places
        /\ \A p \in Places : \E i \in 0 .. NBytes - 1, j \in 0 .. K - 1 : p = Within(K, i, j)
    BY PlacesAre
  <2>2. ASSUME \A p \in Places : Has(p), NEW i \in 0 .. NBytes - 1, NEW j \in 0 .. K - 1
        PROVE  Has(Within(K, i, j))
    BY <2>1, <2>2
  <2>3. ASSUME \A i \in 0 .. NBytes - 1 : \A j \in 0 .. K - 1 : Has(Within(K, i, j)), NEW p \in Places
        PROVE  Has(p)
    <3>1. PICK i \in 0 .. NBytes - 1, j \in 0 .. K - 1 : p = Within(K, i, j)
      BY <2>1
    <3> QED
      BY <2>3, <3>1
  <2> QED
    BY <2>2, <2>3
<1> QED
  BY <1>1, <1>2, <1>3

\* Looking every byte up picks the word with the bits of the results.
LEMMA ByBytes ==
  ASSUME machine \in Machines, NEW K, BitsOfByte(K), NEW T \in SUBSET Places
  PROVE  {c \in Word : \A i \in 0 .. NBytes - 1 : Byte(c, i) = Evm!OfOnes(InByte(K, i, T))}
           = {Evm!OfOnes(T)}
<1> DEFINE w == Evm!OfOnes(T)
           Fits(c) == \A i \in 0 .. NBytes - 1 : Byte(c, i) = Evm!OfOnes(InByte(K, i, T))
<1>1. HasBits(w, T) /\ w \in Word
  BY OfOnesHas DEF HasBits
<1>2. \A i \in 0 .. NBytes - 1 : HasBits(Evm!OfOnes(InByte(K, i, T)), InByte(K, i, T))
  <2> SUFFICES ASSUME NEW i \in 0 .. NBytes - 1
               PROVE  HasBits(Evm!OfOnes(InByte(K, i, T)), InByte(K, i, T))
    OBVIOUS
  <2>1. InByte(K, i, T) \in SUBSET Places
    BY PlacesAre, WordsAre DEF Places, InByte
  <2> QED
    BY <2>1, OfOnesHas
<1> HIDE DEF w
<1>3. ASSUME NEW c \in Word PROVE Fits(c) <=> c = w
  <2>1. Fits(c) <=> \A i \in 0 .. NBytes - 1 : HasBits(Byte(c, i), InByte(K, i, T))
    <3>1. ASSUME NEW i \in 0 .. NBytes - 1
          PROVE  Byte(c, i) = Evm!OfOnes(InByte(K, i, T)) <=> HasBits(Byte(c, i), InByte(K, i, T))
      <4> DEFINE b == Byte(c, i)
                 o == Evm!OfOnes(InByte(K, i, T))
                 U == InByte(K, i, T)
      <4>1. HasBits(o, U)
        BY <1>2
      <4> HIDE DEF b, o, U
      <4>2. HasBits(b, U) => b = o
        BY <4>1, BitsTell
      <4>3. b = o <=> HasBits(b, U)
        BY <4>1, <4>2
      <4> QED
        BY <4>3 DEF b, o, U
    <3> QED
      BY <3>1
  <2>2. Fits(c) <=> HasBits(c, T)
    BY <2>1, BitsInBytes
  <2>3. HasBits(c, T) => c = w
    BY <1>1, BitsTell
  <2>4. c = w => HasBits(c, T)
    BY <1>1
  <2> HIDE DEF Fits
  <2> QED
    BY <2>2, <2>3, <2>4
<1>4. {c \in Word : Fits(c)} = {w}
  <2> HIDE DEF Fits
  <2> QED
    BY <1>1, <1>3
<1> QED
  BY <1>4 DEF w

LEMMA OnesOfByte ==
  ASSUME machine \in Machines, NEW K, BitsOfByte(K), NEW x \in Word, NEW i \in 0 .. NBytes - 1
  PROVE  Evm!OnesOf(Byte(x, i)) = InByte(K, i, Evm!OnesOf(x)) /\ Byte(x, i) \in Word
<1> DEFINE b == Byte(x, i)
           U == InByte(K, i, Evm!OnesOf(x))
           O == Evm!OnesOf(b)
<1>1. HasBits(x, Evm!OnesOf(x))
  BY OnesHas
<1>2. b \in Word /\ HasBits(b, U)
  BY <1>1, BitsInBytes, ByteHasBits
<1>3. HasBits(b, O) /\ O \subseteq Places
  BY <1>2, OnesHas
<1>4. U \subseteq Places
  BY PlacesAre, WordsAre DEF Places, InByte
<1> HIDE DEF U, O, b
<1>5. O \cap Places = U \cap Places
  BY <1>2, <1>3, BitsTell
<1>6. O = U
  BY <1>3, <1>4, <1>5
<1> QED
  BY <1>2, <1>6 DEF O, U, b

\* What the fixed tables hold.
LEMMA ByteTableIs ==
  ASSUME NEW x, NEW y, NEW P, NEW Q, Evm!OnesOf(x) = P, Evm!OnesOf(y) = Q
  PROVE  /\ ByteTable("AND", x, y) = Evm!OfOnes(P \cap Q)
         /\ ByteTable("OR", x, y) = Evm!OfOnes(P \cup Q)
         /\ ByteTable("XOR", x, y) = Evm!OfOnes((P \ Q) \cup (Q \ P))
BY DEF ByteTable

LEMMA BitwiseExact ==
  ASSUME machine \in Machines, NEW a \in Word, NEW b \in Word
  PROVE  LET A == Evm!OnesOf(a)
             B == Evm!OnesOf(b)
         IN  /\ bitwise("AND", a, b) = {Evm!OfOnes(A \cap B)}
             /\ bitwise("OR", a, b) = {Evm!OfOnes(A \cup B)}
             /\ bitwise("XOR", a, b) = {Evm!OfOnes((A \ B) \cup (B \ A))}
<1> DEFINE A == Evm!OnesOf(a)
           B == Evm!OnesOf(b)
<1>1. PICK K : BitsOfByte(K)
  BY BytesHaveBits
<1>2. A \subseteq Places /\ B \subseteq Places
  BY OnesHas
<1>3. \A i \in 0 .. NBytes - 1 :
        /\ Evm!OnesOf(Byte(a, i)) = InByte(K, i, A)
        /\ Evm!OnesOf(Byte(b, i)) = InByte(K, i, B)
  BY <1>1, OnesOfByte
<1> HIDE DEF A, B
<1>4. \A i : /\ InByte(K, i, A) \cap InByte(K, i, B) = InByte(K, i, A \cap B)
             /\ InByte(K, i, A) \cup InByte(K, i, B) = InByte(K, i, A \cup B)
             /\ (InByte(K, i, A) \ InByte(K, i, B)) \cup (InByte(K, i, B) \ InByte(K, i, A))
                  = InByte(K, i, (A \ B) \cup (B \ A))
  BY DEF InByte
<1>5. \A i \in 0 .. NBytes - 1 :
        /\ ByteTable("AND", Byte(a, i), Byte(b, i)) = Evm!OfOnes(InByte(K, i, A \cap B))
        /\ ByteTable("OR", Byte(a, i), Byte(b, i)) = Evm!OfOnes(InByte(K, i, A \cup B))
        /\ ByteTable("XOR", Byte(a, i), Byte(b, i)) = Evm!OfOnes(InByte(K, i, (A \ B) \cup (B \ A)))
  <2> SUFFICES ASSUME NEW i \in 0 .. NBytes - 1
               PROVE
        /\ ByteTable("AND", Byte(a, i), Byte(b, i)) = Evm!OfOnes(InByte(K, i, A \cap B))
        /\ ByteTable("OR", Byte(a, i), Byte(b, i)) = Evm!OfOnes(InByte(K, i, A \cup B))
        /\ ByteTable("XOR", Byte(a, i), Byte(b, i)) = Evm!OfOnes(InByte(K, i, (A \ B) \cup (B \ A)))
    OBVIOUS
  <2> DEFINE x == Byte(a, i)
             y == Byte(b, i)
             P == InByte(K, i, A)
             Q == InByte(K, i, B)
  <2>1. Evm!OnesOf(x) = P /\ Evm!OnesOf(y) = Q
    BY <1>3
  <2>2. /\ P \cap Q = InByte(K, i, A \cap B) /\ P \cup Q = InByte(K, i, A \cup B)
        /\ (P \ Q) \cup (Q \ P) = InByte(K, i, (A \ B) \cup (B \ A))
    BY <1>4
  <2> HIDE DEF x, y, P, Q
  <2>3. /\ ByteTable("AND", x, y) = Evm!OfOnes(P \cap Q)
        /\ ByteTable("OR", x, y) = Evm!OfOnes(P \cup Q)
        /\ ByteTable("XOR", x, y) = Evm!OfOnes((P \ Q) \cup (Q \ P))
    BY <2>1, ByteTableIs
  <2> QED
    BY <2>2, <2>3 DEF x, y
<1>6. ASSUME NEW op, NEW T \in SUBSET Places,
             \A i \in 0 .. NBytes - 1 :
               ByteTable(op, Byte(a, i), Byte(b, i)) = Evm!OfOnes(InByte(K, i, T))
      PROVE  bitwise(op, a, b) = {Evm!OfOnes(T)}
  <2>1. bitwise(op, a, b)
          = {c \in Word : \A i \in 0 .. NBytes - 1 : Byte(c, i) = Evm!OfOnes(InByte(K, i, T))}
    BY <1>6 DEF bitwise
  <2> QED
    BY <1>1, <2>1, ByBytes
<1>7. bitwise("AND", a, b) = {Evm!OfOnes(A \cap B)}
  <2> DEFINE T == A \cap B
  <2>1. T \in SUBSET Places /\ \A i \in 0 .. NBytes - 1 :
          ByteTable("AND", Byte(a, i), Byte(b, i)) = Evm!OfOnes(InByte(K, i, T))
    BY <1>2, <1>5
  <2> HIDE DEF T
  <2>2. bitwise("AND", a, b) = {Evm!OfOnes(T)}
    BY <1>6, <2>1
  <2> QED
    BY <2>2 DEF T
<1>8. bitwise("OR", a, b) = {Evm!OfOnes(A \cup B)}
  <2> DEFINE T == A \cup B
  <2>1. T \in SUBSET Places /\ \A i \in 0 .. NBytes - 1 :
          ByteTable("OR", Byte(a, i), Byte(b, i)) = Evm!OfOnes(InByte(K, i, T))
    BY <1>2, <1>5
  <2> HIDE DEF T
  <2>2. bitwise("OR", a, b) = {Evm!OfOnes(T)}
    BY <1>6, <2>1
  <2> QED
    BY <2>2 DEF T
<1>9. bitwise("XOR", a, b) = {Evm!OfOnes((A \ B) \cup (B \ A))}
  <2> DEFINE T == (A \ B) \cup (B \ A)
  <2>1. T \in SUBSET Places /\ \A i \in 0 .. NBytes - 1 :
          ByteTable("XOR", Byte(a, i), Byte(b, i)) = Evm!OfOnes(InByte(K, i, T))
    BY <1>2, <1>5
  <2> HIDE DEF T
  <2>2. bitwise("XOR", a, b) = {Evm!OfOnes(T)}
    BY <1>6, <2>1
  <2> QED
    BY <2>2 DEF T
<1> QED
  BY <1>7, <1>8, <1>9 DEF A, B

LEMMA NotExact ==
  ASSUME machine \in Machines, NEW a \in Word
  PROVE  not_opcode(a) = {Modulus - 1 - a}
<1> DEFINE A == Evm!OnesOf(a)
           n == Modulus - 1 - a
           Fits(b) == \A i \in 0 .. NBytes - 1 : ByteTable("XOR", Byte(a, i), Byte(b, i)) = ByteBase - 1
<1>1. PICK K : BitsOfByte(K)
  BY BytesHaveBits
<1>2. A \subseteq Places /\ HasBits(a, A)
  BY OnesHas
<1>3. K \in Nat \ {0} /\ K <= Bits /\ ByteBase = Evm!Power(2, K) /\ Bits \in Nat
      /\ Modulus = Evm!Power(2, Bits)
      /\ Word = 0 .. Modulus - 1 /\ Modulus \in Nat \ {0}
  BY <1>1, PlacesAre, WordsAre, TwoIs DEF BitsOfByte
<1>4. n \in Word /\ \A j \in Places : Bit(n, j) = 1 - Bit(a, j)
  <2>1. \A j \in 0 .. Bits - 1 : Bit(Evm!Power(2, Bits) - 1 - a, j) = 1 - Bit(a, j)
    <3>1. a \in 0 .. Evm!Power(2, Bits) - 1
      BY <1>3
    <3> QED
      BY <1>3, <3>1, BitsOfComplement
  <2> QED
    BY <1>3, <2>1 DEF Places
<1>5. HasBits(n, Places \ A)
  <2> HIDE DEF n, A
  <2>1. \A j \in Places : Bit(a, j) = IF j \in A THEN 1 ELSE 0
    BY <1>2 DEF HasBits
  <2>2. \A j \in Places : Bit(n, j) = IF j \in Places \ A THEN 1 ELSE 0
    BY <1>4, <2>1
  <2> QED
    BY <1>4, <2>2 DEF HasBits
\* The greatest byte has all its bits.
<1>6. HasBits(ByteBase - 1, 0 .. K - 1)
  <2> DEFINE B == Evm!Power(2, K)
             t == B - 1
  <2>1. B \in Nat \ {0} /\ 0 \in 0 .. B - 1 /\ B - 1 - 0 = t
    <3>1. B \in Nat \ {0}
      BY <1>3, TwoIs
    <3> HIDE DEF B
    <3> QED
      BY <3>1
  <2>2. \A j \in 0 .. K - 1 : Bit(t, j) = 1
    <3> SUFFICES ASSUME NEW j \in 0 .. K - 1 PROVE Bit(t, j) = 1
      OBVIOUS
    <3>1. Bit(B - 1 - 0, j) = 1 - Bit(0, j)
      BY <1>3, <2>1, BitsOfComplement
    <3>2. Bit(0, j) = 0
      <4>1. 0 \in 0 .. Evm!Power(2, 0) - 1 /\ j \in Nat /\ 0 \in Nat /\ 0 <= j
        BY <1>3, TwoIs
      <4> QED
        BY <4>1, BitsAbove
    <3>3. Bit(t, j) = 1 - Bit(0, j)
      BY <2>1, <3>1
    <3> HIDE DEF t
    <3> QED
      BY <3>2, <3>3
  <2>3. t \in 0 .. B - 1 /\ t \in Nat
    BY <2>1
  <2>4. \A j \in Places : j \notin 0 .. K - 1 => Bit(t, j) = 0
    <3> SUFFICES ASSUME NEW j \in Places, j \notin 0 .. K - 1 PROVE Bit(t, j) = 0
      OBVIOUS
    <3>1. j \in Nat /\ K <= j /\ K \in Nat
      BY <1>3 DEF Places
    <3> HIDE DEF t
    <3> QED
      BY <2>3, <3>1, BitsAbove
  <2>5. t \in Word
    <3> DEFINE U == 0 .. K - 1
    <3>1. K <= Bits
      BY <1>3
    <3>2. CASE K = Bits
      BY <1>3, <2>3, <3>2
    <3>3. CASE K < Bits
      <4>1. PICK E \in Nat \ {0} : Evm!Power(2, Bits) = (2 * E) * B
        BY <1>3, <3>3, TwoApart
      <4> HIDE DEF B, t
      <4> DEFINE F == 2 * E
      <4>2. F \in Nat /\ F >= 1 /\ Modulus = F * B
        BY <1>3, <4>1
      <4> HIDE DEF F
      <4>3. B <= F * B
        BY <2>1, <4>2
      <4> QED
        BY <1>3, <2>1, <2>3, <4>2, <4>3
    <3> QED
      BY <1>3, <3>2, <3>3
  <2> HIDE DEF t
  <2>6. HasBits(t, 0 .. K - 1)
    BY <2>2, <2>4, <2>5 DEF HasBits
  <2>7. ByteBase - 1 = t
    BY <1>3 DEF t
  <2> QED
    BY <2>6, <2>7
<1> HIDE DEF n
<1>7. ASSUME NEW b \in Word PROVE Fits(b) <=> b = n
  <2> DEFINE B == Evm!OnesOf(b)
             X == (A \ B) \cup (B \ A)
  <2>1. B \subseteq Places /\ HasBits(b, B)
    BY OnesHas
  <2>2. \A i \in 0 .. NBytes - 1 :
          ByteTable("XOR", Byte(a, i), Byte(b, i)) = Evm!OfOnes(InByte(K, i, X))
    <3>1. \A i \in 0 .. NBytes - 1 :
            /\ Evm!OnesOf(Byte(a, i)) = InByte(K, i, A)
            /\ Evm!OnesOf(Byte(b, i)) = InByte(K, i, B)
      BY <1>1, OnesOfByte
    <3> HIDE DEF A, B
    <3>2. \A i : (InByte(K, i, A) \ InByte(K, i, B)) \cup (InByte(K, i, B) \ InByte(K, i, A))
                   = InByte(K, i, X)
      BY DEF InByte
    <3> SUFFICES ASSUME NEW i \in 0 .. NBytes - 1
                 PROVE  ByteTable("XOR", Byte(a, i), Byte(b, i)) = Evm!OfOnes(InByte(K, i, X))
      OBVIOUS
    <3> DEFINE x == Byte(a, i)
               y == Byte(b, i)
               P == InByte(K, i, A)
               Q == InByte(K, i, B)
    <3>3. Evm!OnesOf(x) = P /\ Evm!OnesOf(y) = Q /\ (P \ Q) \cup (Q \ P) = InByte(K, i, X)
      BY <3>1, <3>2
    <3> HIDE DEF x, y, P, Q, X
    <3>4. /\ ByteTable("AND", x, y) = Evm!OfOnes(P \cap Q)
          /\ ByteTable("OR", x, y) = Evm!OfOnes(P \cup Q)
          /\ ByteTable("XOR", x, y) = Evm!OfOnes((P \ Q) \cup (Q \ P))
      BY <3>3, ByteTableIs, SMTT(30)
    <3> QED
      BY <3>3, <3>4 DEF x, y
  <2> HIDE DEF A, B
  <2>3. ASSUME NEW i \in 0 .. NBytes - 1
        PROVE  Evm!OfOnes(InByte(K, i, X)) = ByteBase - 1 <=> InByte(K, i, X) = 0 .. K - 1
    <3> DEFINE U == InByte(K, i, X)
    <3>1. U \in SUBSET Places /\ 0 .. K - 1 \subseteq Places
      BY <1>3, SMTT(30) DEF InByte, Places
    <3>2. HasBits(Evm!OfOnes(U), U)
      BY <3>1, OfOnesHas
    <3> HIDE DEF U
    <3>3. Evm!OfOnes(U) = ByteBase - 1 => U \cap Places = (0 .. K - 1) \cap Places
      <4> SUFFICES ASSUME Evm!OfOnes(U) = ByteBase - 1
                   PROVE  U \cap Places = (0 .. K - 1) \cap Places
        OBVIOUS
      <4> DEFINE V == 0 .. K - 1
                 t == ByteBase - 1
      <4>1. HasBits(t, U) /\ HasBits(t, V)
        BY <1>6, <3>2
      <4> HIDE DEF V, t
      <4>2. U \cap Places = V \cap Places
        BY <4>1, BitsTell
      <4> QED
        BY <4>2 DEF V
    <3>4. U = 0 .. K - 1 => Evm!OfOnes(U) = ByteBase - 1
      <4> SUFFICES ASSUME U = 0 .. K - 1 PROVE Evm!OfOnes(U) = ByteBase - 1
        OBVIOUS
      <4> DEFINE t == ByteBase - 1
      <4>1. HasBits(t, U)
        BY <1>6
      <4> HIDE DEF t
      <4>2. Evm!OfOnes(U) = t
        BY <3>2, <4>1, BitsTell
      <4> QED
        BY <4>2 DEF t
    <3>5. Evm!OfOnes(U) = ByteBase - 1 <=> U = 0 .. K - 1
      BY <3>1, <3>3, <3>4
    <3> QED
      BY <3>5 DEF U
  <2>4. Fits(b) <=> \A i \in 0 .. NBytes - 1 : InByte(K, i, X) = 0 .. K - 1
    BY <2>2, <2>3
  <2> HIDE DEF X
  <2>5. (\A i \in 0 .. NBytes - 1 : InByte(K, i, X) = 0 .. K - 1) <=> Places \subseteq X
    <3>1. /\ \A i \in 0 .. NBytes - 1 : \A j \in 0 .. K - 1 : Within(K, i, j) \in Places
          /\ \A p \in Places : \E i \in 0 .. NBytes - 1, j \in 0 .. K - 1 : p = Within(K, i, j)
      BY <1>1, PlacesAre
    <3>2. ASSUME \A i \in 0 .. NBytes - 1 : InByte(K, i, X) = 0 .. K - 1, NEW p \in Places
          PROVE  p \in X
      <4>1. PICK i \in 0 .. NBytes - 1, j \in 0 .. K - 1 : p = Within(K, i, j)
        BY <3>1
      <4>2. j \in InByte(K, i, X)
        BY <3>2
      <4> QED
        BY <4>1, <4>2 DEF InByte
    <3>3. ASSUME Places \subseteq X, NEW i \in 0 .. NBytes - 1
          PROVE  InByte(K, i, X) = 0 .. K - 1
      BY <3>1, <3>3 DEF InByte
    <3> QED
      BY <3>2, <3>3
  <2>6. Places \subseteq X <=> B = Places \ A
    BY <1>2, <2>1 DEF X
  <2>7. B = Places \ A => b = n
    <3> SUFFICES ASSUME B = Places \ A PROVE b = n
      OBVIOUS
    <3> DEFINE U == Places \ A
    <3>1. HasBits(b, U) /\ HasBits(n, U)
      BY <1>5, <2>1
    <3> HIDE DEF U
    <3> QED
      BY <3>1, BitsTell
  <2>8. b = n => B = Places \ A
    <3> SUFFICES ASSUME b = n PROVE B = Places \ A
      OBVIOUS
    <3> DEFINE U == Places \ A
    <3>1. HasBits(b, U) /\ HasBits(b, B) /\ U \subseteq Places
      BY <1>5, <2>1
    <3> HIDE DEF U
    <3>2. B \cap Places = U \cap Places
      BY <3>1, BitsTell
    <3>3. B = U
      BY <2>1, <3>1, <3>2
    <3> QED
      BY <3>3 DEF U
  <2> HIDE DEF Fits
  <2> QED
    BY <2>4, <2>5, <2>6, <2>7, <2>8
<1>8. {b \in Word : Fits(b)} = {n}
  <2>1. n \in Word
    BY <1>4
  <2> HIDE DEF Fits
  <2> QED
    BY <1>7, <2>1
<1> QED
  BY <1>8 DEF not_opcode, n

-----------------------------------------------------------------------------
(* Signed division.                                                        *)

Half == Modulus \div 2

LEMMA HalfIs ==
  ASSUME machine \in Machines
  PROVE  /\ Half \in Nat \ {0} /\ Modulus = 2 * Half
         /\ HalfBase \div 2 \in Nat \ {0} /\ Half = (HalfBase \div 2) * HalfBase
<1> DEFINE n == 2 * machine.limb   k == n - 1   H == HalfBase
           h == Evm!Power(2, k)
<1>1. k \in Nat /\ n = k + 1
  BY Sizes
<1> HIDE DEF n, k
<1>2. Evm!Power(2, k + 1) = 2 * h /\ h \in Nat \ {0}
  BY <1>1, PowerSteps, PowerPositive
<1>3. H = 2 * h
  <2>1. H = Evm!Power(2, n)
    BY Sizes DEF n
  <2> QED
    BY <1>1, <1>2, <2>1
<1>4. H \in Nat \ {0} /\ Modulus = H * H
  BY Sizes
<1> HIDE DEF h, H
<1>5. H \div 2 = h
  BY <1>2, <1>3
<1> DEFINE g == h * H
<1>6. g \in Nat \ {0} /\ Modulus = 2 * g
  BY <1>2, <1>3, <1>4
<1> HIDE DEF g
<1>7. Half = g
  BY <1>6 DEF Half
<1> QED
  BY <1>2, <1>5, <1>6, <1>7 DEF g, H

\* x is the word for z, and u its absolute value.
Stands(x, z, u) ==
  /\ z \in Int /\ -Half <= z /\ z < Half
  /\ (z >= 0 => x = z /\ u = z) /\ (z < 0 => x = z + Modulus /\ u = -z)
  /\ is_neg_word(x) <=> z < 0

LEMMA SignedWord ==
  ASSUME machine \in Machines, NEW x \in Word
  PROVE  Stands(x, Evm!ToSigned(x), abs_word(x))
<1> DEFINE H == HalfBase   h == H \div 2   l == Lo(x)   k == Hi(x)   g == Half   M == Modulus
           z == Evm!ToSigned(x)
<1>1. /\ g \in Nat \ {0} /\ M = 2 * g /\ h \in Nat \ {0} /\ g = h * H /\ H \in Nat
      /\ l \in 0 .. H - 1 /\ k \in Nat /\ x = l + k * H /\ x \in Nat /\ x < M
  BY HalfIs, Halves, Sizes DEF Word
<1>2. is_neg_word(x) <=> h - 1 < k
  BY DEF is_neg_word
<1>3. z = IF x < g THEN x ELSE x - M
  BY Sizes DEF Evm!ToSigned, Half
<1>4. abs_word(x) = IF is_neg_word(x) THEN M - x ELSE x
  BY DEF abs_word
<1> HIDE DEF H, h, l, k, g, M, z
<1>5. is_neg_word(x) <=> ~(x < g)
  <2>1. ASSUME h <= k PROVE ~(x < g)
    <3>1. h * H <= k * H
      BY <1>1, <2>1
    <3> QED
      BY <1>1, <3>1
  <2>2. ASSUME k < h PROVE x < g
    <3>1. k * H + H <= h * H
      BY <1>1, <2>2
    <3> QED
      BY <1>1, <3>1
  <2> QED
    BY <1>1, <1>2, <2>1, <2>2
<1>6. z \in Int /\ -g <= z /\ z < g
  BY <1>1, <1>3
<1>7. /\ z >= 0 => x = z /\ abs_word(x) = z
      /\ z < 0 => x = z + M /\ abs_word(x) = -z
      /\ is_neg_word(x) <=> z < 0
  BY <1>1, <1>3, <1>4, <1>5
<1> QED
  BY <1>6, <1>7 DEF Stands, g, M, z

\* The word for a number.
LEMMA WordOfSigned ==
  ASSUME machine \in Machines, NEW z \in Int, -Half <= z, z <= Half
  PROVE  /\ z % Modulus \in Word
         /\ z # Half => Evm!ToSigned(z % Modulus) = z
         /\ abs_word(z % Modulus) = Evm!Magnitude(z)
<1> DEFINE M == Modulus   g == Half   x == z % M   y == Evm!ToSigned(x)   u == abs_word(x)
<1>1. g \in Nat \ {0} /\ M = 2 * g /\ M \in Nat \ {0}
  BY HalfIs, Sizes
<1>2. x \in Word
  BY ModWord
<1>3. Stands(x, y, u)
  BY <1>2, SignedWord
<1>4. x = IF z < 0 THEN z + M ELSE z
  <2> DEFINE q == IF z < 0 THEN -1 ELSE 0
             r == IF z < 0 THEN z + M ELSE z
  <2> HIDE DEF M, g
  <2>1. Divided(z, M, q, r)
    BY <1>1 DEF Divided, g
  <2> HIDE DEF q
  <2>2. z % M = r
    BY <1>1, <2>1, DivMod
  <2> QED
    BY <2>2
<1>5. Evm!Magnitude(z) = IF z < 0 THEN -z ELSE z
  BY DEF Evm!Magnitude
<1>6. /\ y \in Int /\ -g <= y /\ y < g
      /\ (y >= 0 => x = y /\ u = y) /\ (y < 0 => x = y + M /\ u = -y)
  BY <1>3 DEF Stands
<1>7. -g <= z /\ z <= g
  OBVIOUS
<1> HIDE DEF M, g, x, y, u
<1>8. z # g => y = z
  BY <1>1, <1>4, <1>6, <1>7
<1>9. u = Evm!Magnitude(z)
  BY <1>1, <1>4, <1>5, <1>6, <1>7
<1> QED
  BY <1>2, <1>8, <1>9 DEF M, g, x, y, u

\* The number a word stands for is as large as its absolute value.
LEMMA AbsoluteIs ==
  ASSUME machine \in Machines, NEW x \in Word
  PROVE  /\ Evm!ToSigned(x) \in Int /\ -Half <= Evm!ToSigned(x) /\ Evm!ToSigned(x) < Half
         /\ abs_word(x) = Evm!Magnitude(Evm!ToSigned(x)) /\ abs_word(x) \in Word
         /\ Evm!Magnitude(Evm!ToSigned(x)) \in 0 .. Half
         /\ x = 0 <=> Evm!ToSigned(x) = 0
         /\ is_neg_word(x) <=> Evm!ToSigned(x) < 0
         /\ is_neg_word(abs_word(x)) <=> Evm!ToSigned(x) = -Half
<1> DEFINE M == Modulus   g == Half   z == Evm!ToSigned(x)   u == abs_word(x)
           y == Evm!ToSigned(u)
<1>1. g \in Nat \ {0} /\ M = 2 * g /\ Word = 0 .. M - 1
  BY HalfIs DEF Word
<1>2. Stands(x, z, u)
  BY SignedWord
<1>3. /\ z \in Int /\ -g <= z /\ z < g
      /\ (z >= 0 => x = z /\ u = z) /\ (z < 0 => x = z + M /\ u = -z)
  BY <1>2 DEF Stands
<1>4. is_neg_word(x) <=> z < 0
  BY <1>2 DEF Stands
<1>5. u \in 0 .. g
  <2> HIDE DEF M, g, z, u
  <2> QED
    BY <1>1, <1>3
<1>6. u \in Word
  <2> HIDE DEF M, g, z, u
  <2> QED
    BY <1>1, <1>5
<1>7. Stands(u, y, abs_word(u))
  BY <1>6, SignedWord
<1>8. y \in Int /\ y < g /\ -g <= y /\ (y >= 0 => u = y) /\ (y < 0 => u = y + M)
      /\ (is_neg_word(u) <=> y < 0)
  BY <1>7 DEF Stands
<1>9. Evm!Magnitude(z) = IF z < 0 THEN -z ELSE z
  BY DEF Evm!Magnitude
<1> HIDE DEF M, g, z, u, y
<1>10. is_neg_word(u) <=> z = -g
  BY <1>1, <1>3, <1>8
<1>11. u = Evm!Magnitude(z)
  BY <1>3, <1>9
<1>12. x = 0 <=> z = 0
  BY <1>1, <1>3
<1> QED
  BY <1>3, <1>4, <1>5, <1>6, <1>10, <1>11, <1>12 DEF g, z, u

\* What the constraints say of the numbers that the words stand for.
SignedCheck(Q, B, R, A) ==
  /\ Evm!Magnitude(A) = Evm!Magnitude(R) + Evm!Magnitude(Q) * Evm!Magnitude(B)
  /\ Evm!Magnitude(R) < Evm!Magnitude(B)
  /\ Q # 0 /\ R # 0 => (A < 0 <=> R < 0)
  /\ Q # 0 /\ A # -Half => (A < 0 <=> ~(Q < 0 <=> B < 0))

LEMMA CheckIs ==
  ASSUME machine \in Machines, NEW q \in Word, NEW b \in Word, NEW r \in Word, NEW a \in Word,
         b # 0
  PROVE  check_signed_division(q, b, r, a)
           <=> SignedCheck(Evm!ToSigned(q), Evm!ToSigned(b), Evm!ToSigned(r), Evm!ToSigned(a))
<1> DEFINE Q == Evm!ToSigned(q)   B == Evm!ToSigned(b)   R == Evm!ToSigned(r)
           A == Evm!ToSigned(a)
           uq == abs_word(q)   ub == abs_word(b)   ur == abs_word(r)   ua == abs_word(a)
<1>1. /\ uq = Evm!Magnitude(Q) /\ ub = Evm!Magnitude(B)
      /\ ur = Evm!Magnitude(R) /\ ua = Evm!Magnitude(A)
      /\ uq \in Word /\ ub \in Word /\ ur \in Word /\ ua \in Word
  BY AbsoluteIs
<1>2. /\ q = 0 <=> Q = 0
      /\ r = 0 <=> R = 0
      /\ is_neg_word(q) <=> Q < 0
      /\ is_neg_word(b) <=> B < 0
      /\ is_neg_word(r) <=> R < 0
      /\ is_neg_word(a) <=> A < 0
      /\ is_neg_word(ua) <=> A = -Half
  BY AbsoluteIs
<1>3. check_signed_division(q, b, r, a) <=>
        /\ ExactMulAdd(uq, ub, ur, ua)
        /\ compare_word_lt(ur, ub)
        /\ q # 0 /\ r # 0 => (is_neg_word(a) = is_neg_word(r))
        /\ q # 0 /\ ~is_neg_word(ua) => (is_neg_word(a) = (is_neg_word(q) # is_neg_word(b)))
  BY ZenonT(30) DEF check_signed_division, ExactMulAdd
<1>4. /\ (is_neg_word(a) = is_neg_word(r)) <=> (is_neg_word(a) <=> is_neg_word(r))
      /\ (is_neg_word(a) = (is_neg_word(q) # is_neg_word(b)))
           <=> (is_neg_word(a) <=> ~(is_neg_word(q) <=> is_neg_word(b)))
  <2>1. is_neg_word(a) \in BOOLEAN /\ is_neg_word(r) \in BOOLEAN /\ is_neg_word(q) \in BOOLEAN
        /\ is_neg_word(b) \in BOOLEAN
    BY DEF is_neg_word
  <2> QED
    BY <2>1
<1> HIDE DEF Q, B, R, A, uq, ub, ur, ua
<1>5. ExactMulAdd(uq, ub, ur, ua) <=> ua = ur + uq * ub
  BY <1>1, ExactIs
<1>6. compare_word_lt(ur, ub) <=> ur < ub
  BY <1>1, CompareIs
<1>7. (is_neg_word(a) = is_neg_word(r)) <=> (A < 0 <=> R < 0)
  BY <1>2, <1>4
<1>8. (is_neg_word(a) = (is_neg_word(q) # is_neg_word(b))) <=> (A < 0 <=> ~(Q < 0 <=> B < 0))
  BY <1>2, <1>4
<1>9. SignedCheck(Q, B, R, A) <=>
        /\ ua = ur + uq * ub
        /\ ur < ub
        /\ Q # 0 /\ R # 0 => (A < 0 <=> R < 0)
        /\ Q # 0 /\ A # -Half => (A < 0 <=> ~(Q < 0 <=> B < 0))
  BY <1>1 DEF SignedCheck
<1> QED
  BY <1>2, <1>3, <1>5, <1>6, <1>7, <1>8, <1>9 DEF Q, B, R, A

\* The EVM's quotient and remainder, by those of the absolute values.
LEMMA TruncatedIs ==
  ASSUME NEW A \in Int, NEW B \in Int, B # 0
  PROVE  LET k == Evm!Magnitude(A) \div Evm!Magnitude(B)
             m == Evm!Magnitude(A) % Evm!Magnitude(B)
         IN  /\ k \in Nat /\ m \in Nat /\ m < Evm!Magnitude(B) /\ k <= Evm!Magnitude(A)
             /\ Evm!Magnitude(A) = m + k * Evm!Magnitude(B)
             /\ Evm!Quotient(A, B) = IF A < 0 <=> B < 0 THEN k ELSE -k
             /\ Evm!Remainder(A, B) = IF A < 0 THEN -m ELSE m
<1> DEFINE u == Evm!Magnitude(A)   v == Evm!Magnitude(B)   k == u \div v   m == u % v
<1>1. /\ u = IF A < 0 THEN -A ELSE A
      /\ v = IF B < 0 THEN -B ELSE B
  BY DEF Evm!Magnitude
<1>2. u \in Nat /\ v \in Nat \ {0}
  BY <1>1
<1> HIDE DEF u, v
<1>3. Divided(u, v, k, m)
  BY <1>2 DEF Divided
<1>4. k \in Nat /\ m \in 0 .. v - 1 /\ u = m + k * v
  BY <1>2, <1>3 DEF Divided
<1> DEFINE same == (A < 0) = (B < 0)
<1>5. Evm!Quotient(A, B) = (IF same THEN 1 ELSE -1) * k
  BY DEF Evm!Quotient, u, v
<1>6. same <=> (A < 0 <=> B < 0)
  OBVIOUS
<1>7. Evm!Remainder(A, B) = A - Evm!Quotient(A, B) * B
  BY DEF Evm!Remainder
<1> HIDE DEF same, k, m
<1>8. Evm!Quotient(A, B) = IF A < 0 <=> B < 0 THEN k ELSE -k
  BY <1>4, <1>5, <1>6
<1>9. k <= u
  <2>1. k <= k * v
    BY <1>2, <1>4
  <2> DEFINE p == k * v
  <2> HIDE DEF p
  <2>2. p \in Int
    BY <1>2, <1>4 DEF p
  <2> QED
    BY <1>4, <2>1, <2>2 DEF p
<1>10. Evm!Remainder(A, B) = IF A < 0 THEN -m ELSE m
  <2> DEFINE p == k * v
  <2>1. p \in Int /\ k * (-v) = -p /\ (-k) * v = -p /\ (-k) * (-v) = p
    BY <1>2, <1>4
  <2>2. Evm!Quotient(A, B) * B = IF A < 0 THEN -p ELSE p
    BY <1>1, <1>2, <1>8, <2>1
  <2> HIDE DEF p
  <2>3. u = m + p
    BY <1>4 DEF p
  <2> QED
    BY <1>1, <1>2, <1>4, <1>7, <2>1, <2>2, <2>3
<1> QED
  BY <1>2, <1>4, <1>8, <1>9, <1>10 DEF u, v, k, m

\* A word is its number, moduli apart, and the least one is also the number after the last.
LEMMA SignedInverse ==
  ASSUME machine \in Machines, NEW x \in Word
  PROVE  /\ Evm!ToSigned(x) % Modulus = x
         /\ Half % Modulus = Half /\ (-Half) % Modulus = Half
<1> DEFINE M == Modulus   g == Half   z == Evm!ToSigned(x)
<1>1. g \in Nat \ {0} /\ M = 2 * g /\ M \in Nat \ {0} /\ x \in 0 .. M - 1
  BY HalfIs, Sizes DEF Word
<1>2. Stands(x, z, abs_word(x))
  BY SignedWord
<1>3. z \in Int /\ (z >= 0 => x = z) /\ (z < 0 => x = z + M)
  BY <1>2 DEF Stands
<1> HIDE DEF M, g, z
<1>4. z % M = x
  <2> DEFINE q == IF z < 0 THEN -1 ELSE 0
  <2>1. Divided(z, M, q, x)
    BY <1>1, <1>3 DEF Divided
  <2> HIDE DEF q
  <2> QED
    BY <1>1, <1>3, <2>1, DivMod
<1>5. g % M = g
  <2>1. Divided(g, M, 0, g)
    BY <1>1 DEF Divided
  <2> QED
    BY <1>1, <2>1, DivMod
<1>6. (-g) % M = g
  <2> DEFINE w == -g   q == -1
  <2>1. w \in Int /\ Divided(w, M, q, g)
    BY <1>1 DEF Divided
  <2> HIDE DEF w, q
  <2>2. w % M = g
    BY <1>1, <2>1, DivMod
  <2> QED
    BY <2>2 DEF w
<1> QED
  BY <1>4, <1>5, <1>6 DEF M, g, z

\* The words for the EVM's quotient and remainder.
SignedQuotientOf(a, b) == Evm!Quotient(Evm!ToSigned(a), Evm!ToSigned(b)) % Modulus
SignedRemainderOf(a, b) == Evm!Remainder(Evm!ToSigned(a), Evm!ToSigned(b)) % Modulus

\* What is known of the numbers of a division by a word that is not 0.
LEMMA SignedNumbers ==
  ASSUME machine \in Machines, NEW a \in Word, NEW b \in Word, b # 0
  PROVE  LET A == Evm!ToSigned(a)
             B == Evm!ToSigned(b)
             k == Evm!Magnitude(A) \div Evm!Magnitude(B)
             m == Evm!Magnitude(A) % Evm!Magnitude(B)
         IN  /\ A \in Int /\ -Half <= A /\ A < Half /\ B \in Int /\ B # 0
             /\ Evm!Magnitude(A) \in 0 .. Half /\ Evm!Magnitude(B) \in 1 .. Half
             /\ Evm!Magnitude(A) = Half <=> A = -Half
             /\ k \in Nat /\ m \in Nat /\ m < Evm!Magnitude(B) /\ k <= Evm!Magnitude(A)
             /\ Evm!Magnitude(A) = m + k * Evm!Magnitude(B)
             /\ Evm!Quotient(A, B) = IF A < 0 <=> B < 0 THEN k ELSE -k
             /\ Evm!Remainder(A, B) = IF A < 0 THEN -m ELSE m
<1> DEFINE A == Evm!ToSigned(a)   B == Evm!ToSigned(b)   u == Evm!Magnitude(A)
           v == Evm!Magnitude(B)
<1>1. A \in Int /\ -Half <= A /\ A < Half /\ u \in 0 .. Half
  BY AbsoluteIs
<1>2. B \in Int /\ B # 0 /\ v \in 0 .. Half
  BY AbsoluteIs
<1>3. u = (IF A < 0 THEN -A ELSE A) /\ v = (IF B < 0 THEN -B ELSE B)
  BY DEF Evm!Magnitude
<1>4. Half \in Nat \ {0}
  BY HalfIs
<1> HIDE DEF A, B, u, v
<1>5. v \in 1 .. Half /\ (u = Half <=> A = -Half)
  BY <1>1, <1>2, <1>3, <1>4
<1>6. /\ u \div v \in Nat /\ u % v \in Nat /\ u % v < v /\ u \div v <= u
      /\ u = (u % v) + (u \div v) * v
      /\ Evm!Quotient(A, B) = IF A < 0 <=> B < 0 THEN u \div v ELSE -(u \div v)
      /\ Evm!Remainder(A, B) = IF A < 0 THEN -(u % v) ELSE u % v
  BY <1>1, <1>2, TruncatedIs DEF u, v
<1> QED
  BY <1>1, <1>2, <1>5, <1>6 DEF A, B, u, v

\* The EVM's quotient and remainder pass the constraints.
LEMMA SignedHonest ==
  ASSUME machine \in Machines, NEW a \in Word, NEW b \in Word, b # 0
  PROVE  /\ SignedQuotientOf(a, b) \in Word /\ SignedRemainderOf(a, b) \in Word
         /\ check_signed_division(SignedQuotientOf(a, b), b, SignedRemainderOf(a, b), a)
<1> DEFINE A == Evm!ToSigned(a)   B == Evm!ToSigned(b)   u == Evm!Magnitude(A)
           v == Evm!Magnitude(B)   k == u \div v   m == u % v
           y == Evm!Quotient(A, B)   z == Evm!Remainder(A, B)
           q == y % Modulus   r == z % Modulus
           Q == Evm!ToSigned(q)   R == Evm!ToSigned(r)
<1>1. /\ A \in Int /\ -Half <= A /\ A < Half /\ B \in Int /\ B # 0
      /\ u \in 0 .. Half /\ v \in 1 .. Half /\ (u = Half <=> A = -Half)
      /\ k \in Nat /\ m \in Nat /\ m < v /\ k <= u /\ u = m + k * v
      /\ y = (IF A < 0 <=> B < 0 THEN k ELSE -k) /\ z = (IF A < 0 THEN -m ELSE m)
  BY SignedNumbers
<1>2. Half \in Nat \ {0}
  BY HalfIs
<1>3. /\ y \in Int /\ -Half <= y /\ y <= Half /\ (y = Half => A = -Half)
      /\ z \in Int /\ -Half <= z /\ z <= Half /\ z # Half
  <2> HIDE DEF A, B, u, v, k, m, y, z
  <2> QED
    BY <1>1, <1>2
<1>4. q \in Word /\ (y # Half => Q = y) /\ abs_word(q) = Evm!Magnitude(y)
  <2> HIDE DEF y
  <2> QED
    BY <1>3, WordOfSigned
<1>5. r \in Word /\ R = z /\ abs_word(r) = Evm!Magnitude(z)
  <2> HIDE DEF z
  <2> QED
    BY <1>3, WordOfSigned
<1>6. Evm!Magnitude(y) = k /\ Evm!Magnitude(z) = m
  <2> HIDE DEF A, B, u, v, k, m, y, z
  <2> QED
    BY <1>1 DEF Evm!Magnitude
<1>7. Evm!Magnitude(Q) = k /\ Evm!Magnitude(R) = m
  <2> HIDE DEF q, r, k, m
  <2> QED
    BY <1>4, <1>5, <1>6, AbsoluteIs
<1>8. Q \in Int /\ R \in Int
  <2> HIDE DEF q, r
  <2> QED
    BY <1>4, <1>5, AbsoluteIs
<1>9. SignedCheck(Q, B, R, A)
  <2>1. u = m + k * v /\ m < v
    BY <1>1
  <2> HIDE DEF A, B, u, v, k, m, y, z, q, r, Q, R
  <2>2. ASSUME R # 0 PROVE A < 0 <=> R < 0
    BY <1>1, <1>5, <2>2
  <2>3. ASSUME Q # 0, A # -Half PROVE A < 0 <=> ~(Q < 0 <=> B < 0)
    <3>1. Q = y
      BY <1>3, <1>4, <2>3
    <3> QED
      BY <1>1, <2>3, <3>1
  <2> QED
    BY <1>7, <2>1, <2>2, <2>3 DEF SignedCheck, u, v
<1> HIDE DEF q, r
<1>10. check_signed_division(q, b, r, a)
  BY <1>4, <1>5, <1>9, CheckIs
<1> QED
  BY <1>4, <1>5, <1>10 DEF SignedQuotientOf, SignedRemainderOf, q, r

\* The words for which the constraints of SDIV, and of SMOD, decide the result: not of a
\* divisor of 0, a quotient of the least word other than by 1 or -1, or a remainder of a word
\* smaller than the divisor.
DividesExactly(a, b) == b # 0 /\ (a # Half \/ abs_word(b) = 1)
RemainsExactly(a, b) == b # 0 /\ (a = 0 \/ abs_word(b) <= abs_word(a))

\* Quotient and remainder that pass have the right absolute values, and within these words
\* the right signs.
LEMMA SignedDecided ==
  ASSUME machine \in Machines, NEW a \in Word, NEW b \in Word, NEW q \in Word, NEW r \in Word,
         b # 0, check_signed_division(q, b, r, a)
  PROVE  /\ DividesExactly(a, b) => q = SignedQuotientOf(a, b)
         /\ RemainsExactly(a, b) => r = SignedRemainderOf(a, b)
<1> DEFINE A == Evm!ToSigned(a)   B == Evm!ToSigned(b)   u == Evm!Magnitude(A)
           v == Evm!Magnitude(B)   k == u \div v   m == u % v
           y == Evm!Quotient(A, B)   z == Evm!Remainder(A, B)
           Q == Evm!ToSigned(q)   R == Evm!ToSigned(r)
           i == Evm!Magnitude(Q)   j == Evm!Magnitude(R)
<1>1. /\ A \in Int /\ -Half <= A /\ A < Half /\ B \in Int /\ B # 0
      /\ u \in 0 .. Half /\ v \in 1 .. Half /\ (u = Half <=> A = -Half)
      /\ k \in Nat /\ m \in Nat /\ m < v /\ k <= u /\ u = m + k * v
      /\ y = (IF A < 0 <=> B < 0 THEN k ELSE -k) /\ z = (IF A < 0 THEN -m ELSE m)
  BY SignedNumbers
<1>2. /\ Q \in Int /\ -Half <= Q /\ Q < Half /\ i \in 0 .. Half
      /\ R \in Int /\ -Half <= R /\ R < Half /\ j \in 0 .. Half
  BY AbsoluteIs
<1>3. Half \in Nat \ {0} /\ q = Q % Modulus /\ r = R % Modulus
      /\ Half % Modulus = Half /\ (-Half) % Modulus = Half
  BY HalfIs, SignedInverse
<1>4. SignedCheck(Q, B, R, A)
  BY CheckIs
<1>5. /\ u = j + i * v /\ j < v
      /\ Q # 0 /\ R # 0 => (A < 0 <=> R < 0)
      /\ Q # 0 /\ A # -Half => (A < 0 <=> ~(Q < 0 <=> B < 0))
  BY <1>4 DEF SignedCheck
<1>6. /\ i = (IF Q < 0 THEN -Q ELSE Q) /\ j = (IF R < 0 THEN -R ELSE R)
      /\ u = (IF A < 0 THEN -A ELSE A)
  BY DEF Evm!Magnitude
<1>7. abs_word(a) = u /\ abs_word(b) = v /\ (a = 0 <=> A = 0)
  BY AbsoluteIs
<1>8. a = Half <=> A = -Half
  <2> DEFINE w == abs_word(a)
  <2>1. Stands(a, A, w) /\ Modulus = 2 * Half /\ Half \in Nat
    BY SignedWord, HalfIs
  <2> HIDE DEF A, w
  <2> QED
    BY <2>1 DEF Stands
<1>9. i = k /\ j = m
  <2> HIDE DEF A, B, u, v, Q, R, i, j
  <2>1. Divided(u, v, i, j) /\ u \in Int /\ v \in Nat \ {0}
    BY <1>1, <1>2, <1>5 DEF Divided
  <2> QED
    BY <2>1, DivMod
<1> HIDE DEF A, B, u, v, k, m, y, z, Q, R, i, j
<1>0. /\ A \in Int /\ B \in Int /\ B # 0 /\ k \in Nat /\ m \in Nat
      /\ y = (IF A < 0 <=> B < 0 THEN k ELSE -k) /\ z = (IF A < 0 THEN -m ELSE m)
  BY <1>1
<1>10. ASSUME DividesExactly(a, b)
       PROVE  q = y % Modulus
  <2>1. A # -Half \/ v = 1
    BY <1>7, <1>8, <1>10 DEF DividesExactly
  <2>2. CASE k = 0
    <3>1. Q = 0
      BY <1>2, <1>6, <1>9, <2>2
    <3>2. y = k \/ y = -k
      BY <1>0
    <3>3. y = 0
      BY <2>2, <3>2
    <3> QED
      BY <1>3, <3>1, <3>3
  <2>3. CASE k # 0 /\ A # -Half
    <3>1. Q # 0 /\ (A < 0 <=> ~(Q < 0 <=> B < 0))
      BY <1>0, <1>5, <1>6, <1>9, <2>3
    <3>2. Q = y
      BY <1>0, <1>2, <1>6, <1>9, <3>1
    <3> QED
      BY <1>3, <3>2
  <2>4. CASE v = 1 /\ A = -Half
    <3>1. m = 0 /\ u = Half
      BY <1>1, <2>4
    <3>2. k * v = k
      BY <1>1, <2>4
    <3>3. k = Half
      BY <1>1, <1>3, <3>1, <3>2
    <3>4. Q = -Half /\ (y = Half \/ y = -Half)
      BY <1>1, <1>2, <1>3, <1>6, <1>9, <3>3
    <3> QED
      BY <1>3, <3>4
  <2> QED
    BY <2>1, <2>2, <2>3, <2>4
<1>11. ASSUME RemainsExactly(a, b)
       PROVE  r = z % Modulus
  <2>1. A = 0 \/ v <= u
    BY <1>7, <1>11 DEF RemainsExactly
  <2>2. CASE m = 0
    <3>1. R = 0
      BY <1>2, <1>6, <1>9, <2>2
    <3>2. z = m \/ z = -m
      BY <1>0
    <3>3. z = 0
      BY <2>2, <3>2
    <3> QED
      BY <1>3, <3>1, <3>3
  <2>3. CASE m # 0
    <3>1. k # 0
      <4>1. A # 0
        <5>1. A = 0 => m = 0 \/ k * v < 0
          BY <1>1, <1>6
        <5>2. k * v >= 0
          BY <1>1
        <5> QED
          BY <1>1, <2>3, <5>1, <5>2
      <4>2. v <= u
        BY <2>1, <4>1
      <4>3. k = 0 => u = m
        BY <1>1
      <4> QED
        BY <1>1, <4>2, <4>3
    <3>2. Q # 0 /\ R # 0
      BY <1>0, <1>2, <1>6, <1>9, <2>3, <3>1
    <3>3. R = z
      BY <1>0, <1>2, <1>5, <1>6, <1>9, <3>2
    <3> QED
      BY <1>3, <3>3
  <2> QED
    BY <2>2, <2>3
<1> QED
  BY <1>10, <1>11 DEF SignedQuotientOf, SignedRemainderOf, y, z, A, B

\* SDIV and SMOD accept what the EVM pushes, and within these words nothing else.
LEMMA SignedExact ==
  ASSUME machine \in Machines, NEW a \in Word, NEW b \in Word
  PROVE  /\ (IF b = 0 THEN 0 ELSE SignedQuotientOf(a, b)) \in sdiv_smod("SDIV", a, b)
         /\ (IF b = 0 THEN 0 ELSE SignedRemainderOf(a, b)) \in sdiv_smod("SMOD", a, b)
         /\ DividesExactly(a, b) => sdiv_smod("SDIV", a, b) = {SignedQuotientOf(a, b)}
         /\ RemainsExactly(a, b) => sdiv_smod("SMOD", a, b) = {SignedRemainderOf(a, b)}
<1> DEFINE check(q, r) == check_signed_division(q, b, r, a)
           q0 == SignedQuotientOf(a, b)   r0 == SignedRemainderOf(a, b)
<1>1. sdiv_smod("SDIV", a, b) = {p \in Word : \E r \in Word : check(p, r)}
  BY DEF sdiv_smod
<1>2. sdiv_smod("SMOD", a, b)
        = {p \in Word : \E q \in Word : check(q, IF b = 0 THEN a ELSE p)}
  BY DEF sdiv_smod
<1>3. 0 \in Word
  BY Sizes DEF Word
<1>4. CASE b = 0
  <2>1. check(0, a)
    <3> DEFINE u == abs_word(a)
    <3>1. abs_word(0) \in Word /\ u \in Word /\ abs_word(0) = Evm!Magnitude(Evm!ToSigned(0))
          /\ Evm!ToSigned(0) = 0
      BY <1>3, AbsoluteIs
    <3>2. abs_word(0) = 0
      BY <3>1 DEF Evm!Magnitude
    <3>3. u = u + 0 * 0
      <4>1. u \in Int
        BY <3>1 DEF Word
      <4> HIDE DEF u
      <4> QED
        BY <4>1
    <3> HIDE DEF u
    <3>4. ExactMulAdd(0, 0, u, u)
      BY <1>3, <3>1, <3>3, ExactIs
    <3> QED
      BY <1>4, <3>2, <3>4, ZenonT(30) DEF check_signed_division, ExactMulAdd, u
  <2> HIDE DEF check
  <2>2. 0 \in sdiv_smod("SDIV", a, b) /\ 0 \in sdiv_smod("SMOD", a, b)
    BY <1>1, <1>2, <1>3, <1>4, <2>1
  <2> QED
    BY <1>4, <2>2 DEF DividesExactly, RemainsExactly
<1>5. CASE b # 0
  <2>1. q0 \in Word /\ r0 \in Word /\ check(q0, r0)
    BY <1>5, SignedHonest
  <2>2. \A q, r \in Word : check(q, r) => /\ DividesExactly(a, b) => q = q0
                                          /\ RemainsExactly(a, b) => r = r0
    BY <1>5, SignedDecided
  <2> HIDE DEF check, q0, r0
  <2>3. q0 \in sdiv_smod("SDIV", a, b) /\ r0 \in sdiv_smod("SMOD", a, b)
    BY <1>1, <1>2, <1>5, <2>1
  <2>4. ASSUME DividesExactly(a, b)
        PROVE  sdiv_smod("SDIV", a, b) = {q0}
    <3>1. \A p \in sdiv_smod("SDIV", a, b) : p = q0
      BY <1>1, <2>2, <2>4
    <3> QED
      BY <2>3, <3>1
  <2>5. ASSUME RemainsExactly(a, b)
        PROVE  sdiv_smod("SMOD", a, b) = {r0}
    <3>1. \A p \in sdiv_smod("SMOD", a, b) : p = r0
      BY <1>2, <1>5, <2>2, <2>5
    <3> QED
      BY <2>3, <3>1
  <2> QED
    BY <1>5, <2>3, <2>4, <2>5 DEF q0, r0
<1> QED
  BY <1>4, <1>5

-----------------------------------------------------------------------------
(* MULMOD and SIGNEXTEND.                                                  *)

\* A product of two words is two words.
LEMMA ProductFits ==
  ASSUME machine \in Machines, NEW x \in Word, NEW y \in Word
  PROVE  \E d, e \in Word : mul_add_words_512(x, y, 0, d, e)
<1> DEFINE M == Modulus   p == x * y   d == p \div M   e == p % M
<1>1. M \in Nat \ {0} /\ x \in Nat /\ y \in Nat /\ x < M /\ y < M /\ p \in Nat /\ 0 \in Word
  BY Sizes DEF Word
<1>2. p < M * M
  <2> HIDE DEF M
  <2>1. x * y <= x * M
    BY <1>1
  <2>2. x * M < M * M
    BY <1>1
  <2>3. x * y \in Nat /\ x * M \in Nat /\ M * M \in Nat
    BY <1>1
  <2> DEFINE g == x * y   h == x * M   t == M * M
  <2> HIDE DEF g, h, t
  <2>4. g < t
    BY <2>1, <2>2, <2>3 DEF g, h, t
  <2> QED
    BY <2>4 DEF g, t
<1>3. d \in 0 .. M - 1
  <2> HIDE DEF M, p
  <2> QED
    BY <1>1, <1>2, DivLess
<1>4. Divided(p, M, d, e) /\ e \in Word
  <2>1. p \in Int
    BY <1>1
  <2> HIDE DEF p
  <2> QED
    BY <2>1, ModWord
<1>5. d \in Word
  BY <1>3 DEF Word
<1>6. x * y + 0 = e + d * M
  <2>1. p = e + d * M /\ p + 0 = p
    BY <1>1, <1>4 DEF Divided
  <2> QED
    BY <2>1
<1> HIDE DEF d, e
<1>7. Exceeds(x * y + 0, e, d)
  BY <1>6 DEF Exceeds
<1>8. mul_add_words_512(x, y, 0, d, e)
  BY <1>1, <1>4, <1>5, <1>7, MulAdd512Is
<1> QED
  BY <1>4, <1>5, <1>8

\* A product may be reduced before it is taken.
LEMMA ReducedProduct ==
  ASSUME machine \in Machines, NEW a \in Word, NEW b \in Word, NEW n \in Word, n # 0
  PROVE  /\ ((a % n) * b) \div n \in Word
         /\ (a * b) % n \in Word /\ (a * b) % n < n
         /\ (a % n) * b = ((a * b) % n) + (((a % n) * b) \div n) * n
<1> DEFINE M == Modulus   x == a % n   k == a \div n   p == x * b   q == p \div n   r == p % n
<1>1. /\ M \in Nat \ {0} /\ a \in Nat /\ b \in Nat /\ n \in Nat \ {0} /\ n < M /\ b < M
      /\ Word = 0 .. M - 1
  BY Sizes DEF Word
<1>2. x \in Nat /\ x < n /\ k \in Nat /\ a = x + k * n
  <2>1. a \div n \in Word /\ a % n \in Word /\ a % n < n /\ a = (a % n) + (a \div n) * n
    BY WordDivision
  <2> QED
    BY <2>1, <1>1
<1> HIDE DEF M, x, k
<1>3. p \in Nat /\ p < M * n
  <2>1. x * b <= n * b
    BY <1>1, <1>2
  <2>2. n * b < n * M
    BY <1>1
  <2>3. x * b \in Nat /\ n * b \in Nat /\ n * M = M * n /\ M * n \in Nat
    BY <1>1, <1>2
  <2> QED
    BY <2>1, <2>2, <2>3
<1>4. Divided(p, n, q, r)
  <2> HIDE DEF p
  <2> QED
    BY <1>1, <1>3 DEF Divided
<1>5. q \in 0 .. M - 1
  <2> HIDE DEF p
  <2> QED
    BY <1>1, <1>3, DivLess
<1>6. q \in Nat /\ r \in 0 .. n - 1 /\ p = r + q * n
  BY <1>3, <1>4 DEF Divided
<1> HIDE DEF q, r
<1> DEFINE s == a * b   j == k * b + q
<1>7. s \in Nat /\ j \in Nat
  BY <1>1, <1>2, <1>6
<1>8. s = r + j * n
  <2> DEFINE t == k * n   w == k * b   g == q * n
  <2>1. (x + t) * b = x * b + t * b /\ t * b = w * n /\ (w + q) * n = w * n + g
    BY <1>1, <1>2, <1>6
  <2>2. s = x * b + w * n /\ j * n = w * n + g
    BY <1>2, <2>1
  <2>3. x * b \in Int /\ w * n \in Int /\ g \in Int /\ x * b = r + g /\ r \in Int
    BY <1>1, <1>2, <1>6
  <2> HIDE DEF t, w, g, s, j
  <2> QED
    BY <2>2, <2>3
<1> HIDE DEF s, j
<1>9. s % n = r
  <2>1. Divided(s, n, j, r)
    BY <1>1, <1>6, <1>7, <1>8 DEF Divided
  <2> QED
    BY <1>1, <1>7, <2>1, DivMod
<1>10. q \in Word /\ r \in Word /\ r < n
  BY <1>1, <1>5, <1>6
<1> QED
  BY <1>6, <1>9, <1>10 DEF p, q, s, x

LEMMA MulmodHonest ==
  ASSUME machine \in Machines, NEW a \in Word, NEW b \in Word, NEW n \in Word
  PROVE  (IF n = 0 THEN 0 ELSE (a * b) % n) \in mulmod(a, b, n)
<1>0. 0 \in Word
  BY Sizes DEF Word
<1> SUFFICES ASSUME NEW r, r = IF n = 0 THEN 0 ELSE (a * b) % n
             PROVE  \E x, k, d, e \in Word :
                      /\ r \in Word /\ compare_word_lt(r, n) # (n = 0) /\ mod(a, n, x)
                      /\ mul_add_words_512(x, b, 0, d, e) /\ mul_add_words_512(k, n, r, d, e)
  BY DEF mulmod
<1>1. CASE n = 0
  <2>1. ~compare_word_lt(0, 0)
    <3>1. ~(0 < 0)
      OBVIOUS
    <3> QED
      BY <1>0, <3>1, CompareIs
  <2>2. compare_word_lt(r, n) # (n = 0)
    BY <1>1, <2>1
  <2>3. Modulus \in Nat /\ 0 * b + 0 = 0 + 0 * Modulus /\ 0 * 0 + 0 = 0 + 0 * Modulus /\ 0 = 0 + 0 * 0
    BY Sizes DEF Word
  <2>4. mul_add_words(0, 0, 0, 0).holds
    BY <1>0, <2>3, ExactIs DEF ExactMulAdd
  <2>5. mod(a, n, 0)
    BY <1>0, <1>1, <2>1, <2>4 DEF mod
  <2>6. Exceeds(0 * b + 0, 0, 0) /\ Exceeds(0 * 0 + 0, 0, 0)
    BY <2>3 DEF Exceeds
  <2>7. mul_add_words_512(0, b, 0, 0, 0) /\ mul_add_words_512(0, 0, 0, 0, 0)
    BY <1>0, <2>6, MulAdd512Is
  <2> QED
    BY <1>0, <1>1, <2>2, <2>5, <2>7
<1>2. CASE n # 0
  <2> DEFINE x == a % n   q == a \div n   k == (x * b) \div n   s == (a * b) % n
  <2>1. q \in Word /\ x \in Word /\ x < n /\ a = x + q * n
    BY <1>2, WordDivision
  <2>2. k \in Word /\ s \in Word /\ s < n /\ x * b = s + k * n
    BY <1>2, ReducedProduct
  <2>3. r = s
    BY <1>2
  <2> HIDE DEF x, q, k, s
  <2>4. compare_word_lt(x, n) /\ compare_word_lt(s, n)
    BY <2>1, <2>2, CompareIs
  <2>5. mul_add_words(q, n, x, a).holds
    BY <2>1, ExactIs DEF ExactMulAdd
  <2>6. mod(a, n, x)
    BY <1>2, <2>1, <2>4, <2>5 DEF mod
  <2>7. PICK d \in Word, e \in Word : mul_add_words_512(x, b, 0, d, e)
    BY <2>1, ProductFits
  <2>8. mul_add_words_512(k, n, s, d, e)
    <3>1. Exceeds(x * b + 0, e, d)
      BY <1>0, <2>1, <2>7, MulAdd512Is
    <3>2. x * b + 0 = k * n + s
      <4>1. x \in Int /\ b \in Int /\ k \in Int /\ n \in Int /\ s \in Int
        BY <2>1, <2>2 DEF Word
      <4> DEFINE u == x * b   v == k * n
      <4>2. u \in Int /\ v \in Int /\ u = s + v
        BY <2>2, <4>1
      <4> HIDE DEF u, v
      <4>3. u + 0 = v + s
        BY <4>1, <4>2
      <4> QED
        BY <4>3 DEF u, v
    <3>3. Exceeds(k * n + s, e, d)
      BY <3>1, <3>2
    <3> QED
      BY <2>2, <3>3, MulAdd512Is
  <2>9. compare_word_lt(r, n) # (n = 0)
    BY <1>2, <2>3, <2>4
  <2> QED
    BY <2>1, <2>2, <2>3, <2>6, <2>7, <2>8, <2>9
<1> QED
  BY <1>1, <1>2

\* MULMOD decides a product whose factor, together with what a carry of the reduction is
\* worth, is a multiple of the modulus; and for the modulus 0 one that is 0 or two words.
MultipliesExactly(a, b, n) ==
  IF n = 0 THEN a * b = 0 \/ a * b >= Modulus ELSE (Modulus * b) % n = 0

LEMMA Remains ==
  ASSUME NEW p \in Nat, NEW n \in Nat \ {0}, NEW g \in Int, NEW r \in 0 .. n - 1, p = r + g * n
  PROVE  p % n = r
<1>1. g \in Nat
  <2> SUFFICES ASSUME g <= -1 PROVE FALSE
    OBVIOUS
  <2>1. g * n <= (-1) * n
    OBVIOUS
  <2> DEFINE h == g * n
  <2>2. h \in Int /\ h <= -n /\ p = r + h
    BY <2>1
  <2> HIDE DEF h
  <2> QED
    BY <2>2
<1>2. Divided(p, n, g, r)
  BY <1>1 DEF Divided
<1> QED
  BY <1>2, DivMod

\* What the constraints say.
LEMMA MulmodSays ==
  ASSUME machine \in Machines, NEW a \in Word, NEW b \in Word, NEW n \in Word, NEW r,
         r \in mulmod(a, b, n)
  PROVE  \E x, k, q \in Word, c \in {a} \cup (IF n = 0 THEN {0} ELSE {}), j \in Nat :
           /\ r \in Word /\ (n # 0 => r < n)
           /\ x * b = r + k * n
           /\ x + q * n = c + j * Modulus
<1>0. Modulus \in Nat /\ \A w \in Word : w \in Nat
  BY Sizes DEF Word
<1>1. 0 \in Word
  BY Sizes DEF Word
<1>2. PICK x \in {x \in Word : mod(a, n, x)}, k \in Word, d \in Word, e \in Word :
        /\ mul_add_words_512(x, b, 0, d, e)
        /\ mul_add_words_512(k, n, r, d, e)
  BY DEF mulmod
<1>3. r \in Word /\ compare_word_lt(r, n) # (n = 0)
  BY DEF mulmod
<1>4. n # 0 => r < n
  <2> SUFFICES ASSUME n # 0 PROVE r < n
    OBVIOUS
  <2>1. compare_word_lt(r, n) \in BOOLEAN
    BY DEF compare_word_lt
  <2>2. compare_word_lt(r, n) <=> r < n
    BY <1>3, CompareIs
  <2> HIDE DEF compare_word_lt
  <2>3. (n = 0) = FALSE
    OBVIOUS
  <2>4. compare_word_lt(r, n)
    BY <1>3, <2>1, <2>3
  <2> QED
    BY <2>2, <2>4
<1>5. x * b = r + k * n
  <2>1. Exceeds(x * b + 0, e, d) /\ Exceeds(k * n + r, e, d)
    BY <1>1, <1>2, <1>3, MulAdd512Is
  <2>2. x * b + 0 = k * n + r
    BY <2>1 DEF Exceeds
  <2> DEFINE u == x * b   v == k * n
  <2>3. u \in Int /\ v \in Int /\ r \in Int /\ u + 0 = v + r
    BY <1>0, <1>2, <1>3, <2>2
  <2> HIDE DEF u, v
  <2>4. u = r + v
    BY <2>3
  <2> QED
    BY <2>4 DEF u, v
<1>6. PICK c \in {a} \cup (IF n = 0 THEN {0} ELSE {}), q \in Word : mul_add_words(q, n, x, c).holds
  BY <1>2 DEF mod
<1>7. c \in Word
  BY <1>1, <1>6
<1>8. PICK j \in Nat : Exceeds(q * n + x, c, j)
  BY <1>2, <1>6, <1>7, MulAddHolds
<1>9. x + q * n = c + j * Modulus
  <2>1. q * n + x = c + j * Modulus
    BY <1>8 DEF Exceeds
  <2> DEFINE u == q * n
  <2>2. u \in Int /\ x \in Int
    BY <1>0, <1>2, <1>6
  <2> HIDE DEF u
  <2>3. x + u = u + x
    BY <2>2
  <2> QED
    BY <2>1, <2>3 DEF u
<1> QED
  BY <1>2, <1>3, <1>4, <1>5, <1>6, <1>8, <1>9

LEMMA MulmodDecided ==
  ASSUME machine \in Machines, NEW a \in Word, NEW b \in Word, NEW n \in Word, NEW r,
         r \in mulmod(a, b, n), MultipliesExactly(a, b, n)
  PROVE  r = IF n = 0 THEN 0 ELSE (a * b) % n
<1> DEFINE M == Modulus
<1>0. M \in Nat \ {0} /\ \A w \in Word : w \in Nat /\ w < M
  BY Sizes DEF Word
<1>1. PICK x \in Word, k \in Word, q \in Word, c \in {a} \cup (IF n = 0 THEN {0} ELSE {}), j \in Nat :
           /\ r \in Word /\ (n # 0 => r < n)
           /\ x * b = r + k * n
           /\ x + q * n = c + j * M
  BY MulmodSays
<1>2. CASE n = 0
  <2>1. q * n = 0 /\ k * n = 0 /\ x \in Nat /\ x < M /\ r \in Nat /\ r < M /\ c \in Nat
    BY <1>0, <1>1, <1>2
  <2>2. j = 0
    <3> SUFFICES ASSUME j >= 1 PROVE FALSE
      OBVIOUS
    <3> HIDE DEF M
    <3> DEFINE h == j * M
    <3>1. h >= 1 * M /\ h \in Int
      BY <1>0
    <3>2. x + 0 = c + h
      BY <1>1, <2>1
    <3> HIDE DEF h
    <3> QED
      BY <1>0, <2>1, <3>1, <3>2
  <2>3. j * M = 0
    BY <1>0, <2>2
  <2>4. x = c
    BY <1>1, <2>1, <2>3
  <2>5. x * b = r
    BY <1>1, <2>1
  <2>6. CASE x = 0
    <3>1. 0 * b = 0
      BY <1>0
    <3> QED
      BY <1>2, <2>5, <2>6, <3>1
  <2>7. CASE x = a
    <3>1. a * b = 0 \/ a * b >= M
      BY <1>2 DEF MultipliesExactly
    <3>2. a * b = r
      BY <2>5, <2>7
    <3> HIDE DEF M
    <3> QED
      BY <1>0, <1>2, <2>1, <3>1, <3>2
  <2> QED
    BY <1>1, <2>4, <2>6, <2>7
<1>3. CASE n # 0
  <2>1. /\ a \in Nat /\ b \in Nat /\ n \in Nat \ {0} /\ x \in Nat /\ k \in Nat /\ q \in Nat
        /\ r \in 0 .. n - 1 /\ c = a
    BY <1>0, <1>1, <1>3
  <2> DEFINE m == M * b   t == m \div n
  <2>2. t \in Nat /\ m = t * n
    <3>1. m \in Nat /\ m % n = 0
      BY <1>0, <1>3, <2>1 DEF MultipliesExactly
    <3> HIDE DEF m
    <3>2. Divided(m, n, m \div n, m % n)
      BY <2>1, <3>1 DEF Divided
    <3> DEFINE g == t * n
    <3>3. t \in Nat /\ m = 0 + g
      BY <3>1, <3>2 DEF Divided
    <3>4. g \in Int
      BY <2>1, <3>3
    <3> HIDE DEF g, t
    <3>5. m = g
      BY <3>3, <3>4
    <3> QED
      BY <3>3, <3>5 DEF g
  <2> HIDE DEF M, t
  <2> DEFINE p == a * b   g == k + q * b - j * t
  <2>3. p \in Nat /\ g \in Int /\ M \in Nat
    BY <1>0, <2>1, <2>2
  <2>4. p = r + g * n
    <3> DEFINE B == q * b   J == j * t   kn == k * n   Bn == B * n   Jn == J * n
    <3>1. B \in Int /\ J \in Int /\ kn \in Int /\ Bn \in Int /\ Jn \in Int
      BY <2>1, <2>2
    <3>2. (x + q * n) * b = x * b + Bn
      BY <2>1
    <3>3. (a + j * M) * b = p + j * m
      BY <2>1, <2>3
    <3>4. j * m = Jn
      <4>1. j * (t * n) = (j * t) * n
        BY <2>1, <2>2
      <4> QED
        BY <2>2, <4>1
    <3>5. (x + q * n) * b = (a + j * M) * b
      BY <1>1, <2>1
    <3>6. (k + B - J) * n = kn + Bn - Jn
      BY <2>1, <3>1
    <3>7. x * b = r + kn
      BY <1>1
    <3> HIDE DEF B, J, kn, Bn, Jn, p, m
    <3>8. r + kn + Bn = p + Jn /\ r \in Int /\ p \in Int
      BY <2>1, <2>3, <3>2, <3>3, <3>4, <3>5, <3>7
    <3>9. p = r + (kn + Bn - Jn)
      BY <3>1, <3>8
    <3> QED
      BY <3>6, <3>9 DEF B, J
  <2> HIDE DEF p, g
  <2>5. p % n = r
    BY <2>1, <2>3, <2>4, Remains
  <2> QED
    BY <1>3, <2>5 DEF p
<1> QED
  BY <1>2, <1>3

LEMMA MulmodExact ==
  ASSUME machine \in Machines, NEW a \in Word, NEW b \in Word, NEW n \in Word,
         MultipliesExactly(a, b, n)
  PROVE  mulmod(a, b, n) = {IF n = 0 THEN 0 ELSE (a * b) % n}
<1>1. (IF n = 0 THEN 0 ELSE (a * b) % n) \in mulmod(a, b, n)
  BY MulmodHonest
<1>2. \A r \in mulmod(a, b, n) : r = IF n = 0 THEN 0 ELSE (a * b) % n
  BY MulmodDecided
<1> QED
  BY <1>1, <1>2

\* What SIGNEXTEND should push is a word.
LEMMA SignextendHonest ==
  ASSUME machine \in Machines, NEW i \in Word, NEW x \in Word, HasSignByte(i, x)
  PROVE  Evm!SignExtended(i, x) \in signextend(i, x)
<1> DEFINE P == Evm!Power(Evm!ByteBase, i + 1)   low == x % P
<1>1. signextend(i, x) = Word
  BY DEF signextend
<1>2. /\ Evm!Modulus = Modulus /\ Evm!NBytes = NBytes /\ Evm!ByteBase = ByteBase
      /\ ByteBase \in Nat \ {0} /\ Modulus \in Nat \ {0}
  BY Sizes DEF NBytes, Evm!ByteBase, Evm!Bits, ByteBase, Bits
<1>3. NBytes \in Nat /\ Evm!Power(ByteBase, NBytes) = Modulus /\ i \in Nat /\ x \in Nat
  BY BytesFit, Sizes DEF Word
<1>4. Evm!SignExtended(i, x)
        = IF i >= Evm!NBytes - 1 THEN x
          ELSE IF Evm!ByteOf(x, i) < Evm!ByteBase \div 2 THEN low
          ELSE low + Evm!Modulus - P
  BY DEF Evm!SignExtended
<1>5. CASE ~(i >= NBytes - 1)
  <2> DEFINE s == i + 1   t == NBytes - s   b == ByteBase   T == Evm!Power(b, t)
  <2>1. s \in Nat /\ t \in Nat /\ NBytes = s + t
    BY <1>3, <1>5
  <2> HIDE DEF s, t, b
  <2>2. b \in Nat \ {0}
    BY <1>2 DEF b
  <2>3. Evm!Power(b, s) \in Nat \ {0} /\ Evm!Power(b, t) \in Nat \ {0}
        /\ Evm!Power(b, s + t) = Evm!Power(b, s) * Evm!Power(b, t)
    BY <2>1, <2>2, PowerPositive, PowerAdd
  <2>4. P = Evm!Power(b, s)
    BY <1>2 DEF b, s
  <2>5. Modulus = P * T /\ P \in Nat \ {0} /\ T \in Nat \ {0}
    BY <1>3, <2>1, <2>3, <2>4 DEF b
  <2> HIDE DEF P, T
  <2>6. P <= Modulus
    BY <2>5
  <2>7. low \in 0 .. P - 1
    BY <1>3, <2>5
  <2> HIDE DEF low
  <2>8. low \in 0 .. Modulus - 1 /\ low + Modulus - P \in 0 .. Modulus - 1
    BY <1>2, <2>5, <2>6, <2>7
  <2> QED
    BY <1>1, <1>2, <1>4, <1>5, <2>8 DEF Word
<1>6. CASE i >= NBytes - 1
  BY <1>1, <1>2, <1>4, <1>6
<1> QED
  BY <1>5, <1>6

-----------------------------------------------------------------------------
(* The opcodes one by one.                                                 *)

\* The opcodes whose constraints fix the result.
Exact == Opcodes \ {"SDIV", "SMOD", "MULMOD", "SIGNEXTEND"}

LEMMA PushesAre ==
  ASSUME NEW a
  PROVE  /\ Pushes("ADD", a) = add_sub("ADD", a[1], a[2])
         /\ Pushes("SUB", a) = add_sub("SUB", a[1], a[2])
         /\ Pushes("MUL", a) = mul(a[1], a[2])
         /\ Pushes("DIV", a) = div_mod("DIV", a[1], a[2])
         /\ Pushes("MOD", a) = div_mod("MOD", a[1], a[2])
         /\ Pushes("ADDMOD", a) = addmod(a[1], a[2], a[3])
         /\ Pushes("LT", a) = cmp("LT", a[1], a[2])
         /\ Pushes("GT", a) = cmp("GT", a[1], a[2])
         /\ Pushes("EQ", a) = cmp("EQ", a[1], a[2])
         /\ Pushes("SLT", a) = scmp("SLT", a[1], a[2])
         /\ Pushes("SGT", a) = scmp("SGT", a[1], a[2])
         /\ Pushes("ISZERO", a) = iszero(a[1])
         /\ Pushes("NOT", a) = not_opcode(a[1])
         /\ Pushes("AND", a) = bitwise("AND", a[1], a[2])
         /\ Pushes("OR", a) = bitwise("OR", a[1], a[2])
         /\ Pushes("XOR", a) = bitwise("XOR", a[1], a[2])
         /\ Pushes("BYTE", a) = byte(a[1], a[2])
         /\ Pushes("SHL", a) = shl_shr("SHL", a[1], a[2])
         /\ Pushes("SHR", a) = shl_shr("SHR", a[1], a[2])
         /\ Pushes("SAR", a) = sar(a[1], a[2])
<1>1. Pushes("ADD", a) = add_sub("ADD", a[1], a[2])
  BY DEF Pushes
<1>2. Pushes("SUB", a) = add_sub("SUB", a[1], a[2])
  BY DEF Pushes
<1>3. Pushes("MUL", a) = mul(a[1], a[2])
  BY DEF Pushes
<1>4. Pushes("DIV", a) = div_mod("DIV", a[1], a[2])
  BY DEF Pushes
<1>5. Pushes("MOD", a) = div_mod("MOD", a[1], a[2])
  BY DEF Pushes
<1>6. Pushes("ADDMOD", a) = addmod(a[1], a[2], a[3])
  BY DEF Pushes
<1>7. Pushes("LT", a) = cmp("LT", a[1], a[2])
  BY DEF Pushes
<1>8. Pushes("GT", a) = cmp("GT", a[1], a[2])
  BY DEF Pushes
<1>9. Pushes("EQ", a) = cmp("EQ", a[1], a[2])
  BY DEF Pushes
<1>10. Pushes("SLT", a) = scmp("SLT", a[1], a[2])
  BY DEF Pushes
<1>11. Pushes("SGT", a) = scmp("SGT", a[1], a[2])
  BY DEF Pushes
<1>12. Pushes("ISZERO", a) = iszero(a[1])
  BY DEF Pushes
<1>13. Pushes("NOT", a) = not_opcode(a[1])
  BY DEF Pushes
<1>14. Pushes("AND", a) = bitwise("AND", a[1], a[2])
  BY DEF Pushes
<1>15. Pushes("OR", a) = bitwise("OR", a[1], a[2])
  BY DEF Pushes
<1>16. Pushes("XOR", a) = bitwise("XOR", a[1], a[2])
  BY DEF Pushes
<1>17. Pushes("BYTE", a) = byte(a[1], a[2])
  BY DEF Pushes
<1>18. Pushes("SHL", a) = shl_shr("SHL", a[1], a[2])
  BY DEF Pushes
<1>19. Pushes("SHR", a) = shl_shr("SHR", a[1], a[2])
  BY DEF Pushes
<1>20. Pushes("SAR", a) = sar(a[1], a[2])
  BY DEF Pushes
<1> QED
  BY <1>1, <1>2, <1>3, <1>4, <1>5, <1>6, <1>7, <1>8, <1>9, <1>10, <1>11, <1>12, <1>13,
     <1>14, <1>15, <1>16, <1>17, <1>18, <1>19, <1>20

LEMMA ResultsAre ==
  ASSUME NEW b
  PROVE  /\ Evm!Result("ADD", b)
            = (b[1] + b[2]) % Evm!Modulus
         /\ Evm!Result("SUB", b)
            = (b[1] - b[2]) % Evm!Modulus
         /\ Evm!Result("MUL", b)
            = (b[1] * b[2]) % Evm!Modulus
         /\ Evm!Result("DIV", b)
            = IF b[2] = 0 THEN 0 ELSE b[1] \div b[2]
         /\ Evm!Result("MOD", b)
            = IF b[2] = 0 THEN 0 ELSE b[1] % b[2]
         /\ Evm!Result("ADDMOD", b)
            = IF b[3] = 0 THEN 0 ELSE (b[1] + b[2]) % b[3]
         /\ Evm!Result("LT", b)
            = Evm!Truth(b[1] < b[2])
         /\ Evm!Result("GT", b)
            = Evm!Truth(b[1] > b[2])
         /\ Evm!Result("EQ", b)
            = Evm!Truth(b[1] = b[2])
         /\ Evm!Result("SLT", b)
            = Evm!Truth(Evm!ToSigned(b[1]) < Evm!ToSigned(b[2]))
         /\ Evm!Result("SGT", b)
            = Evm!Truth(Evm!ToSigned(b[1]) > Evm!ToSigned(b[2]))
         /\ Evm!Result("ISZERO", b)
            = Evm!Truth(b[1] = 0)
         /\ Evm!Result("NOT", b)
            = Evm!Modulus - 1 - b[1]
         /\ Evm!Result("AND", b)
            = Evm!OfOnes(Evm!OnesOf(b[1]) \cap Evm!OnesOf(b[2]))
         /\ Evm!Result("OR", b)
            = Evm!OfOnes(Evm!OnesOf(b[1]) \cup Evm!OnesOf(b[2]))
         /\ Evm!Result("XOR", b)
            = Evm!OfOnes({i \in Evm!OnesOf(b[1]) \cup Evm!OnesOf(b[2]) :
                          i \notin Evm!OnesOf(b[1]) \cap Evm!OnesOf(b[2])})
         /\ Evm!Result("BYTE", b)
            = IF b[1] < Evm!NBytes THEN Evm!ByteOf(b[2], Evm!NBytes - 1 - b[1]) ELSE 0
         /\ Evm!Result("SHL", b)
            = IF b[1] < Evm!Bits THEN (b[2] * Evm!Power(2, b[1])) % Evm!Modulus ELSE 0
         /\ Evm!Result("SHR", b)
            = IF b[1] < Evm!Bits THEN b[2] \div Evm!Power(2, b[1]) ELSE 0
         /\ Evm!Result("SAR", b)
            = IF b[1] < Evm!Bits THEN (Evm!ToSigned(b[2]) \div Evm!Power(2, b[1])) % Evm!Modulus
            ELSE IF Evm!ToSigned(b[2]) < 0 THEN Evm!Modulus - 1 ELSE 0
<1>1. Evm!Result("ADD", b)
            = (b[1] + b[2]) % Evm!Modulus
  BY DEF Evm!Result
<1>2. Evm!Result("SUB", b)
            = (b[1] - b[2]) % Evm!Modulus
  BY DEF Evm!Result
<1>3. Evm!Result("MUL", b)
            = (b[1] * b[2]) % Evm!Modulus
  BY DEF Evm!Result
<1>4. Evm!Result("DIV", b)
            = IF b[2] = 0 THEN 0 ELSE b[1] \div b[2]
  BY DEF Evm!Result
<1>5. Evm!Result("MOD", b)
            = IF b[2] = 0 THEN 0 ELSE b[1] % b[2]
  BY DEF Evm!Result
<1>6. Evm!Result("ADDMOD", b)
            = IF b[3] = 0 THEN 0 ELSE (b[1] + b[2]) % b[3]
  BY DEF Evm!Result
<1>7. Evm!Result("LT", b)
            = Evm!Truth(b[1] < b[2])
  BY DEF Evm!Result
<1>8. Evm!Result("GT", b)
            = Evm!Truth(b[1] > b[2])
  BY DEF Evm!Result
<1>9. Evm!Result("EQ", b)
            = Evm!Truth(b[1] = b[2])
  BY DEF Evm!Result
<1>10. Evm!Result("SLT", b)
            = Evm!Truth(Evm!ToSigned(b[1]) < Evm!ToSigned(b[2]))
  BY DEF Evm!Result
<1>11. Evm!Result("SGT", b)
            = Evm!Truth(Evm!ToSigned(b[1]) > Evm!ToSigned(b[2]))
  BY DEF Evm!Result
<1>12. Evm!Result("ISZERO", b)
            = Evm!Truth(b[1] = 0)
  BY DEF Evm!Result
<1>13. Evm!Result("NOT", b)
            = Evm!Modulus - 1 - b[1]
  BY DEF Evm!Result
<1>14. Evm!Result("AND", b)
            = Evm!OfOnes(Evm!OnesOf(b[1]) \cap Evm!OnesOf(b[2]))
  BY DEF Evm!Result
<1>15. Evm!Result("OR", b)
            = Evm!OfOnes(Evm!OnesOf(b[1]) \cup Evm!OnesOf(b[2]))
  BY DEF Evm!Result
<1>16. Evm!Result("XOR", b)
            = Evm!OfOnes({i \in Evm!OnesOf(b[1]) \cup Evm!OnesOf(b[2]) :
                          i \notin Evm!OnesOf(b[1]) \cap Evm!OnesOf(b[2])})
  BY DEF Evm!Result
<1>17. Evm!Result("BYTE", b)
            = IF b[1] < Evm!NBytes THEN Evm!ByteOf(b[2], Evm!NBytes - 1 - b[1]) ELSE 0
  BY DEF Evm!Result
<1>18. Evm!Result("SHL", b)
            = IF b[1] < Evm!Bits THEN (b[2] * Evm!Power(2, b[1])) % Evm!Modulus ELSE 0
  BY DEF Evm!Result
<1>19. Evm!Result("SHR", b)
            = IF b[1] < Evm!Bits THEN b[2] \div Evm!Power(2, b[1]) ELSE 0
  BY DEF Evm!Result
<1>20. Evm!Result("SAR", b)
            = IF b[1] < Evm!Bits THEN (Evm!ToSigned(b[2]) \div Evm!Power(2, b[1])) % Evm!Modulus
            ELSE IF Evm!ToSigned(b[2]) < 0 THEN Evm!Modulus - 1 ELSE 0
  BY DEF Evm!Result
<1> QED
  BY <1>1, <1>2, <1>3, <1>4, <1>5, <1>6, <1>7, <1>8, <1>9, <1>10, <1>11, <1>12, <1>13,
     <1>14, <1>15, <1>16, <1>17, <1>18, <1>19, <1>20

\* Opcodes of one word.
LEMMA UnaryExact ==
  ASSUME machine \in Machines, NEW a, NEW b,
         NEW x \in Word,
         a[1] = x, b[1] = x
  PROVE  /\ Pushes("ISZERO", a) = {Evm!Result("ISZERO", b)}
         /\ Pushes("NOT", a) = {Evm!Result("NOT", b)}
<1>0. Evm!Modulus = Modulus /\ Evm!Bits = Bits
  BY Sizes DEF Evm!Bits, Bits
<1>1. Pushes("ISZERO", a) = {Evm!Result("ISZERO", b)}
  <2>1. Pushes("ISZERO", a) = iszero(x)
    BY PushesAre
  <2>2. Evm!Result("ISZERO", b) = Evm!Truth(x = 0)
    BY ResultsAre, ZenonT(60)
  <2> QED
    BY <1>0, <2>1, <2>2, IszeroExact DEF Evm!Truth, Bool
<1>2. Pushes("NOT", a) = {Evm!Result("NOT", b)}
  <2>1. Pushes("NOT", a) = not_opcode(x)
    BY PushesAre
  <2>2. Evm!Result("NOT", b) = Evm!Modulus - 1 - x
    BY ResultsAre
  <2> QED
    BY <1>0, <2>1, <2>2, NotExact
<1> QED
  BY <1>1, <1>2

\* Opcodes of two words.
LEMMA BinaryExact ==
  ASSUME machine \in Machines, NEW a, NEW b,
         NEW x \in Word, NEW y \in Word,
         a[1] = x, b[1] = x, a[2] = y, b[2] = y
  PROVE  /\ Pushes("ADD", a) = {Evm!Result("ADD", b)}
         /\ Pushes("SUB", a) = {Evm!Result("SUB", b)}
         /\ Pushes("MUL", a) = {Evm!Result("MUL", b)}
         /\ Pushes("DIV", a) = {Evm!Result("DIV", b)}
         /\ Pushes("MOD", a) = {Evm!Result("MOD", b)}
         /\ Pushes("LT", a) = {Evm!Result("LT", b)}
         /\ Pushes("GT", a) = {Evm!Result("GT", b)}
         /\ Pushes("EQ", a) = {Evm!Result("EQ", b)}
         /\ Pushes("SLT", a) = {Evm!Result("SLT", b)}
         /\ Pushes("SGT", a) = {Evm!Result("SGT", b)}
         /\ Pushes("AND", a) = {Evm!Result("AND", b)}
         /\ Pushes("OR", a) = {Evm!Result("OR", b)}
         /\ Pushes("XOR", a) = {Evm!Result("XOR", b)}
         /\ Pushes("BYTE", a) = {Evm!Result("BYTE", b)}
         /\ Pushes("SHL", a) = {Evm!Result("SHL", b)}
         /\ Pushes("SHR", a) = {Evm!Result("SHR", b)}
         /\ Pushes("SAR", a) = {Evm!Result("SAR", b)}
<1>0. Evm!Modulus = Modulus /\ Evm!Bits = Bits
  BY Sizes DEF Evm!Bits, Bits
<1>1. Pushes("ADD", a) = {Evm!Result("ADD", b)}
  <2>1. Pushes("ADD", a) = add_sub("ADD", x, y)
    BY PushesAre
  <2>2. Evm!Result("ADD", b) = (x + y) % Evm!Modulus
    BY ResultsAre
  <2> QED
    BY <1>0, <2>1, <2>2, AddExact
<1>2. Pushes("SUB", a) = {Evm!Result("SUB", b)}
  <2>1. Pushes("SUB", a) = add_sub("SUB", x, y)
    BY PushesAre
  <2>2. Evm!Result("SUB", b) = (x - y) % Evm!Modulus
    BY ResultsAre
  <2> QED
    BY <1>0, <2>1, <2>2, SubExact
<1>3. Pushes("MUL", a) = {Evm!Result("MUL", b)}
  <2>1. Pushes("MUL", a) = mul(x, y)
    BY PushesAre
  <2>2. Evm!Result("MUL", b) = (x * y) % Evm!Modulus
    BY ResultsAre
  <2> QED
    BY <1>0, <2>1, <2>2, MulExact
<1>4. Pushes("DIV", a) = {Evm!Result("DIV", b)}
  <2>1. Pushes("DIV", a) = div_mod("DIV", x, y)
    BY PushesAre
  <2>2. Evm!Result("DIV", b) = IF y = 0 THEN 0 ELSE x \div y
    BY ResultsAre
  <2> QED
    BY <1>0, <2>1, <2>2, DivModExact
<1>5. Pushes("MOD", a) = {Evm!Result("MOD", b)}
  <2>1. Pushes("MOD", a) = div_mod("MOD", x, y)
    BY PushesAre
  <2>2. Evm!Result("MOD", b) = IF y = 0 THEN 0 ELSE x % y
    BY ResultsAre
  <2> QED
    BY <1>0, <2>1, <2>2, DivModExact
<1>6. Pushes("LT", a) = {Evm!Result("LT", b)}
  <2>1. Pushes("LT", a) = cmp("LT", x, y)
    BY PushesAre
  <2>2. Evm!Result("LT", b) = Evm!Truth(x < y)
    BY ResultsAre
  <2> QED
    BY <1>0, <2>1, <2>2, CmpExact DEF Evm!Truth, Bool
<1>7. Pushes("GT", a) = {Evm!Result("GT", b)}
  <2>1. Pushes("GT", a) = cmp("GT", x, y)
    BY PushesAre
  <2>2. Evm!Result("GT", b) = Evm!Truth(x > y)
    BY ResultsAre
  <2> QED
    BY <1>0, <2>1, <2>2, CmpExact DEF Evm!Truth, Bool
<1>8. Pushes("EQ", a) = {Evm!Result("EQ", b)}
  <2>1. Pushes("EQ", a) = cmp("EQ", x, y)
    BY PushesAre
  <2>2. Evm!Result("EQ", b) = Evm!Truth(x = y)
    BY ResultsAre
  <2> QED
    BY <1>0, <2>1, <2>2, CmpExact DEF Evm!Truth, Bool
<1>9. Pushes("SLT", a) = {Evm!Result("SLT", b)}
  <2>1. Pushes("SLT", a) = scmp("SLT", x, y)
    BY PushesAre
  <2>2. Evm!Result("SLT", b) = Evm!Truth(Evm!ToSigned(x) < Evm!ToSigned(y))
    BY ResultsAre
  <2> QED
    BY <1>0, <2>1, <2>2, ScmpExact DEF Evm!Truth, Bool
<1>10. Pushes("SGT", a) = {Evm!Result("SGT", b)}
  <2>1. Pushes("SGT", a) = scmp("SGT", x, y)
    BY PushesAre
  <2>2. Evm!Result("SGT", b) = Evm!Truth(Evm!ToSigned(x) > Evm!ToSigned(y))
    BY ResultsAre
  <2> QED
    BY <1>0, <2>1, <2>2, ScmpExact DEF Evm!Truth, Bool
<1>11. Pushes("AND", a) = {Evm!Result("AND", b)}
  <2>1. Pushes("AND", a) = bitwise("AND", x, y)
    BY PushesAre
  <2>2. Evm!Result("AND", b) = Evm!OfOnes(Evm!OnesOf(x) \cap Evm!OnesOf(y))
    BY ResultsAre
  <2> QED
    BY <1>0, <2>1, <2>2, BitwiseExact
<1>12. Pushes("OR", a) = {Evm!Result("OR", b)}
  <2>1. Pushes("OR", a) = bitwise("OR", x, y)
    BY PushesAre
  <2>2. Evm!Result("OR", b) = Evm!OfOnes(Evm!OnesOf(x) \cup Evm!OnesOf(y))
    BY ResultsAre
  <2> QED
    BY <1>0, <2>1, <2>2, BitwiseExact
<1>13. Pushes("XOR", a) = {Evm!Result("XOR", b)}
  <2>1. Pushes("XOR", a) = bitwise("XOR", x, y)
    BY PushesAre
  <2>2. Evm!Result("XOR", b) = Evm!OfOnes({i \in Evm!OnesOf(x) \cup Evm!OnesOf(y) :
                          i \notin Evm!OnesOf(x) \cap Evm!OnesOf(y)})
    BY ResultsAre, ZenonT(60)
  <2> DEFINE A == Evm!OnesOf(x)
             B == Evm!OnesOf(y)
  <2>3. {i \in A \cup B : i \notin A \cap B} = (A \ B) \cup (B \ A)
    <3> HIDE DEF A, B
    <3> QED
      OBVIOUS
  <2>4. bitwise("XOR", x, y) = {Evm!OfOnes((A \ B) \cup (B \ A))}
    BY BitwiseExact
  <2> QED
    BY <2>1, <2>2, <2>3, <2>4
<1>14. Pushes("BYTE", a) = {Evm!Result("BYTE", b)}
  <2>1. Pushes("BYTE", a) = byte(x, y)
    BY PushesAre
  <2>2. Evm!Result("BYTE", b) = IF x < Evm!NBytes THEN Evm!ByteOf(y, Evm!NBytes - 1 - x) ELSE 0
    BY ResultsAre
  <2> QED
    BY <1>0, <2>1, <2>2, ByteExact
<1>15. Pushes("SHL", a) = {Evm!Result("SHL", b)}
  <2>1. Pushes("SHL", a) = shl_shr("SHL", x, y)
    BY PushesAre
  <2>2. Evm!Result("SHL", b) = IF x < Evm!Bits THEN (y * Evm!Power(2, x)) % Evm!Modulus ELSE 0
    BY ResultsAre
  <2> QED
    BY <1>0, <2>1, <2>2, ShlExact
<1>16. Pushes("SHR", a) = {Evm!Result("SHR", b)}
  <2>1. Pushes("SHR", a) = shl_shr("SHR", x, y)
    BY PushesAre
  <2>2. Evm!Result("SHR", b) = IF x < Evm!Bits THEN y \div Evm!Power(2, x) ELSE 0
    BY ResultsAre
  <2> QED
    BY <1>0, <2>1, <2>2, ShrExact
<1>17. Pushes("SAR", a) = {Evm!Result("SAR", b)}
  <2>1. Pushes("SAR", a) = sar(x, y)
    BY PushesAre
  <2>2. Evm!Result("SAR", b) = IF x < Evm!Bits THEN (Evm!ToSigned(y) \div Evm!Power(2, x)) % Evm!Modulus
            ELSE IF Evm!ToSigned(y) < 0 THEN Evm!Modulus - 1 ELSE 0
    BY ResultsAre
  <2> QED
    BY <1>0, <2>1, <2>2, SarExact
<1> QED
  BY <1>1, <1>2, <1>3, <1>4, <1>5, <1>6, <1>7, <1>8, <1>9, <1>10, <1>11, <1>12, <1>13,
     <1>14, <1>15, <1>16, <1>17

\* Opcodes of three words.
LEMMA TernaryExact ==
  ASSUME machine \in Machines, NEW a, NEW b,
         NEW x \in Word, NEW y \in Word, NEW z \in Word,
         a[1] = x, b[1] = x, a[2] = y, b[2] = y, a[3] = z, b[3] = z
  PROVE  /\ Pushes("ADDMOD", a) = {Evm!Result("ADDMOD", b)}
<1>0. Evm!Modulus = Modulus /\ Evm!Bits = Bits
  BY Sizes DEF Evm!Bits, Bits
<1>1. Pushes("ADDMOD", a) = {Evm!Result("ADDMOD", b)}
  <2>1. Pushes("ADDMOD", a) = addmod(x, y, z)
    BY PushesAre
  <2>2. Evm!Result("ADDMOD", b) = IF z = 0 THEN 0 ELSE (x + y) % z
    BY ResultsAre
  <2> QED
    BY <1>0, <2>1, <2>2, AddmodExact
<1> QED
  BY <1>1

LEMMA OthersPush ==
  ASSUME NEW a
  PROVE  /\ Pushes("SDIV", a) = sdiv_smod("SDIV", a[1], a[2])
         /\ Pushes("SMOD", a) = sdiv_smod("SMOD", a[1], a[2])
         /\ Pushes("MULMOD", a) = mulmod(a[1], a[2], a[3])
         /\ Pushes("SIGNEXTEND", a) = signextend(a[1], a[2])
<1>1. Pushes("SDIV", a) = sdiv_smod("SDIV", a[1], a[2])
  BY DEF Pushes
<1>2. Pushes("SMOD", a) = sdiv_smod("SMOD", a[1], a[2])
  BY DEF Pushes
<1>3. Pushes("MULMOD", a) = mulmod(a[1], a[2], a[3])
  BY DEF Pushes
<1>4. Pushes("SIGNEXTEND", a) = signextend(a[1], a[2])
  BY DEF Pushes
<1> QED
  BY <1>1, <1>2, <1>3, <1>4

LEMMA OtherResultsAre ==
  ASSUME NEW b
  PROVE  /\ Evm!Result("SDIV", b)
            = IF b[2] = 0 THEN 0
              ELSE Evm!Quotient(Evm!ToSigned(b[1]), Evm!ToSigned(b[2])) % Evm!Modulus
         /\ Evm!Result("SMOD", b)
            = IF b[2] = 0 THEN 0
              ELSE Evm!Remainder(Evm!ToSigned(b[1]), Evm!ToSigned(b[2])) % Evm!Modulus
         /\ Evm!Result("MULMOD", b)
            = IF b[3] = 0 THEN 0 ELSE (b[1] * b[2]) % b[3]
         /\ Evm!Result("SIGNEXTEND", b)
            = Evm!SignExtended(b[1], b[2])
<1>1. Evm!Result("SDIV", b)
            = IF b[2] = 0 THEN 0
              ELSE Evm!Quotient(Evm!ToSigned(b[1]), Evm!ToSigned(b[2])) % Evm!Modulus
  BY DEF Evm!Result
<1>2. Evm!Result("SMOD", b)
            = IF b[2] = 0 THEN 0
              ELSE Evm!Remainder(Evm!ToSigned(b[1]), Evm!ToSigned(b[2])) % Evm!Modulus
  BY DEF Evm!Result
<1>3. Evm!Result("MULMOD", b)
            = IF b[3] = 0 THEN 0 ELSE (b[1] * b[2]) % b[3]
  BY DEF Evm!Result
<1>4. Evm!Result("SIGNEXTEND", b)
            = Evm!SignExtended(b[1], b[2])
  BY DEF Evm!Result
<1> QED
  BY <1>1, <1>2, <1>3, <1>4

\* The results of SDIV and SMOD are among the words they push, and the only ones for the
\* words they decide.
LEMMA SignedResults ==
  ASSUME machine \in Machines, NEW a, NEW b,
         NEW x \in Word, NEW y \in Word,
         a[1] = x, b[1] = x, a[2] = y, b[2] = y
  PROVE  /\ Evm!Result("SDIV", b) \in Pushes("SDIV", a)
         /\ Evm!Result("SMOD", b) \in Pushes("SMOD", a)
         /\ DividesExactly(x, y) => Pushes("SDIV", a) = {Evm!Result("SDIV", b)}
         /\ RemainsExactly(x, y) => Pushes("SMOD", a) = {Evm!Result("SMOD", b)}
<1>1. Pushes("SDIV", a) = sdiv_smod("SDIV", x, y) /\ Pushes("SMOD", a) = sdiv_smod("SMOD", x, y)
  BY OthersPush
<1>2. Evm!Modulus = Modulus
  BY Sizes
<1>3. Evm!Result("SDIV", b) = IF y = 0 THEN 0 ELSE SignedQuotientOf(x, y)
  <2>1. Evm!Result("SDIV", b)
        = IF y = 0 THEN 0 ELSE Evm!Quotient(Evm!ToSigned(x), Evm!ToSigned(y)) % Evm!Modulus
    BY OtherResultsAre
  <2> QED
    BY <1>2, <2>1 DEF SignedQuotientOf
<1>4. Evm!Result("SMOD", b) = IF y = 0 THEN 0 ELSE SignedRemainderOf(x, y)
  <2>1. Evm!Result("SMOD", b)
        = IF y = 0 THEN 0 ELSE Evm!Remainder(Evm!ToSigned(x), Evm!ToSigned(y)) % Evm!Modulus
    BY OtherResultsAre
  <2> QED
    BY <1>2, <2>1 DEF SignedRemainderOf
<1>5. (DividesExactly(x, y) => y # 0) /\ (RemainsExactly(x, y) => y # 0)
  BY DEF DividesExactly, RemainsExactly
<1>6. /\ (IF y = 0 THEN 0 ELSE SignedQuotientOf(x, y)) \in sdiv_smod("SDIV", x, y)
      /\ (IF y = 0 THEN 0 ELSE SignedRemainderOf(x, y)) \in sdiv_smod("SMOD", x, y)
      /\ DividesExactly(x, y) => sdiv_smod("SDIV", x, y) = {SignedQuotientOf(x, y)}
      /\ RemainsExactly(x, y) => sdiv_smod("SMOD", x, y) = {SignedRemainderOf(x, y)}
  BY SignedExact
<1> QED
  BY <1>1, <1>3, <1>4, <1>5, <1>6

\* The words that the opcodes pop.
Popped(op, a) == \A i \in 1 .. Pops(op) : a[i] \in Word

\* Every opcode pushes words.
LEMMA PushesWords ==
  ASSUME machine \in Machines, NEW op \in Opcodes, NEW a, Popped(op, a)
  PROVE  Pushes(op, a) \subseteq Word
<1>1. 0 \in Word /\ 1 \in Word
  BY Sizes DEF Word
<1>2. \A x, y : /\ add_sub("ADD", x, y) \subseteq Word /\ add_sub("SUB", x, y) \subseteq Word
                /\ mul(x, y) \subseteq Word
                /\ sdiv_smod("SDIV", x, y) \subseteq Word /\ sdiv_smod("SMOD", x, y) \subseteq Word
                /\ signextend(x, y) \subseteq Word /\ not_opcode(x) \subseteq Word
  BY DEF add_sub, mul, sdiv_smod, signextend, not_opcode
<1>3. \A x, y, z : mulmod(x, y, z) \subseteq Word
  BY DEF mulmod
<1>4. \A x, y, z : addmod(x, y, z) \subseteq Word
  BY <1>1, AddmodIs
<1>5. \A x, y : div_mod("DIV", x, y) \subseteq Word /\ div_mod("MOD", x, y) \subseteq Word
  BY <1>1 DEF div_mod
<1>6. \A x, y : /\ cmp("LT", x, y) \subseteq Word /\ cmp("GT", x, y) \subseteq Word
                /\ cmp("EQ", x, y) \subseteq Word
                /\ scmp("SLT", x, y) \subseteq Word /\ scmp("SGT", x, y) \subseteq Word
                /\ iszero(x) \subseteq Word
  <2>1. \A c : {Bool(c)} \subseteq Word
    BY <1>1 DEF Bool
  <2> QED
    BY <2>1 DEF cmp, scmp, iszero
<1>7. \A x, y : /\ bitwise("AND", x, y) \subseteq Word /\ bitwise("OR", x, y) \subseteq Word
                /\ bitwise("XOR", x, y) \subseteq Word
  BY DEF bitwise
<1>8. \A x, y \in Word : byte(x, y) \subseteq Word
  <2> SUFFICES ASSUME NEW x \in Word, NEW y \in Word PROVE byte(x, y) \subseteq Word
    OBVIOUS
  <2>1. PICK K : BitsOfByte(K)
    BY BytesHaveBits
  <2>2. x < NBytes => NBytes - 1 - x \in 0 .. NBytes - 1
    <3>1. x \in Nat /\ NBytes \in Nat
      BY BytesFit, Sizes DEF Word
    <3> QED
      BY <3>1
  <2>3. x < NBytes => Byte(y, NBytes - 1 - x) \in Word
    <3> DEFINE i == NBytes - 1 - x
    <3> HIDE DEF i
    <3>1. i \in 0 .. NBytes - 1 => Byte(y, i) \in Word
      BY <2>1, ByteHasBits
    <3> QED
      BY <2>2, <3>1 DEF i
  <2> QED
    BY <1>1, <2>3 DEF byte
<1>9. \A x, y : shl_shr("SHL", x, y) \subseteq Word /\ shl_shr("SHR", x, y) \subseteq Word
  BY <1>1 DEF shl_shr
<1>10. \A x, y : sar(x, y) \subseteq Word
  BY ZenonT(60) DEF sar
<1>11. Pops(op) >= 1 /\ (op = "BYTE" => Pops(op) = 2)
  BY DEF Pops
<1>12. op = "BYTE" => a[1] \in Word /\ a[2] \in Word
  BY <1>11 DEF Popped
<1>13. CASE op \in {"ADD", "SUB", "MUL", "DIV", "MOD", "SDIV", "SMOD"}
  BY <1>2, <1>5, <1>13, PushesAre, OthersPush
<1>14. CASE op \in {"ADDMOD", "MULMOD", "SIGNEXTEND"}
  BY <1>2, <1>3, <1>4, <1>14, PushesAre, OthersPush
<1>15. CASE op \in {"LT", "GT", "EQ", "SLT", "SGT", "ISZERO"}
  BY <1>6, <1>15, PushesAre
<1>16. CASE op \in {"NOT", "AND", "OR", "XOR"}
  BY <1>2, <1>7, <1>16, PushesAre
<1>17. CASE op = "BYTE"
  BY <1>8, <1>12, <1>17, PushesAre
<1>18. CASE op \in {"SHL", "SHR", "SAR"}
  BY <1>9, <1>10, <1>18, PushesAre
<1> QED
  BY <1>13, <1>14, <1>15, <1>16, <1>17, <1>18 DEF Opcodes

\* Whatever the witnesses, an opcode pushes what the EVM would push.
LEMMA OpcodesExact ==
  ASSUME machine \in Machines, NEW op \in Exact, NEW a, NEW b, Popped(op, a),
         \A i \in 1 .. Pops(op) : b[i] = a[i]
  PROVE  Pushes(op, a) = {Evm!Result(op, b)}
<1> DEFINE Fixed(o) == Pushes(o, a) = {Evm!Result(o, b)}
<1>1. CASE op \in {"ISZERO", "NOT"}
  <2>1. Pops(op) = 1
    BY <1>1 DEF Pops
  <2>2. a[1] \in Word /\ b[1] = a[1]
    BY <2>1 DEF Popped
  <2>3. Fixed("ISZERO") /\ Fixed("NOT")
    BY <2>2, UnaryExact
  <2> HIDE DEF Fixed
  <2>4. Fixed(op)
    BY <1>1, <2>3
  <2> QED
    BY <2>4 DEF Fixed
<1>2. CASE op = "ADDMOD"
  <2>1. Pops(op) = 3
    BY <1>2 DEF Pops
  <2>2. a[1] \in Word /\ b[1] = a[1] /\ a[2] \in Word /\ b[2] = a[2] /\ a[3] \in Word /\ b[3] = a[3]
    BY <2>1 DEF Popped
  <2>3. Fixed("ADDMOD")
    BY <2>2, TernaryExact
  <2> HIDE DEF Fixed
  <2>4. Fixed(op)
    BY <1>2, <2>3
  <2> QED
    BY <2>4 DEF Fixed
<1>3. CASE op \in Exact \ {"ISZERO", "NOT", "ADDMOD"}
  <2>1. Pops(op) = 2
    BY <1>3 DEF Pops, Exact
  <2>2. a[1] \in Word /\ b[1] = a[1] /\ a[2] \in Word /\ b[2] = a[2]
    BY <2>1 DEF Popped
  <2>3. /\ Fixed("ADD") /\ Fixed("SUB") /\ Fixed("MUL") /\ Fixed("DIV") /\ Fixed("MOD")
        /\ Fixed("LT") /\ Fixed("GT") /\ Fixed("EQ") /\ Fixed("SLT") /\ Fixed("SGT")
        /\ Fixed("AND") /\ Fixed("OR") /\ Fixed("XOR") /\ Fixed("BYTE")
        /\ Fixed("SHL") /\ Fixed("SHR") /\ Fixed("SAR")
    BY <2>2, BinaryExact
  <2> HIDE DEF Fixed
  <2>4. op \in {"ADD", "SUB", "MUL", "DIV", "MOD", "LT", "GT", "EQ", "SLT", "SGT",
                "AND", "OR", "XOR", "BYTE", "SHL", "SHR", "SAR"}
    BY <1>3 DEF Exact, Opcodes
  <2>5. Fixed(op)
    BY <2>3, <2>4
  <2> QED
    BY <2>5 DEF Fixed
<1> QED
  BY <1>1, <1>2, <1>3

\* The words that an opcode decides: its constraints allow the EVM's result only.
Checked(op, a) ==
  \/ op \in Exact
  \/ op = "SDIV" /\ DividesExactly(a[1], a[2])
  \/ op = "SMOD" /\ RemainsExactly(a[1], a[2])
  \/ op = "MULMOD" /\ MultipliesExactly(a[1], a[2], a[3])

LEMMA CheckedExact ==
  ASSUME machine \in Machines, NEW op \in Opcodes, NEW a, NEW b, Popped(op, a),
         \A i \in 1 .. Pops(op) : b[i] = a[i], Checked(op, b)
  PROVE  Pushes(op, a) = {Evm!Result(op, b)}
<1>1. CASE op \in Exact
  BY <1>1, OpcodesExact
<1>2. ASSUME op \in {"SDIV", "SMOD"}
      PROVE  a[1] \in Word /\ b[1] = a[1] /\ a[2] \in Word /\ b[2] = a[2]
  <2>1. Pops(op) = 2
    BY <1>2 DEF Pops
  <2> QED
    BY <2>1 DEF Popped
<1>3. CASE op = "SDIV" /\ DividesExactly(b[1], b[2])
  BY <1>2, <1>3, SignedResults
<1>4. CASE op = "SMOD" /\ RemainsExactly(b[1], b[2])
  BY <1>2, <1>4, SignedResults
<1>5. CASE op = "MULMOD" /\ MultipliesExactly(b[1], b[2], b[3])
  <2>1. Pops(op) = 3
    BY <1>5 DEF Pops
  <2>2. /\ a[1] \in Word /\ b[1] = a[1] /\ a[2] \in Word /\ b[2] = a[2]
        /\ a[3] \in Word /\ b[3] = a[3]
    BY <2>1 DEF Popped
  <2>3. mulmod(a[1], a[2], a[3]) = {IF a[3] = 0 THEN 0 ELSE (a[1] * a[2]) % a[3]}
    BY <1>5, <2>2, MulmodExact
  <2>4. Pushes("MULMOD", a) = mulmod(a[1], a[2], a[3])
    BY OthersPush
  <2>5. Evm!Result("MULMOD", b) = IF b[3] = 0 THEN 0 ELSE (b[1] * b[2]) % b[3]
    BY OtherResultsAre
  <2> QED
    BY <1>5, <2>2, <2>3, <2>4, <2>5
<1> QED
  BY <1>1, <1>3, <1>4, <1>5 DEF Checked

\* The EVM's result is among the words that an opcode pushes; for SIGNEXTEND with an index
\* of several bytes that depends on a byte of the value.
LEMMA ResultsArePushed ==
  ASSUME machine \in Machines, NEW op \in Opcodes, NEW a, Popped(op, a),
         op = "SIGNEXTEND" => HasSignByte(a[1], a[2])
  PROVE  Evm!Result(op, a) \in Pushes(op, a)
<1>1. CASE op \in Exact
  <2>1. Pushes(op, a) = {Evm!Result(op, a)}
    BY <1>1, OpcodesExact
  <2> QED
    BY <2>1
<1>2. CASE op \in {"SDIV", "SMOD"}
  <2>1. Pops(op) = 2
    BY <1>2 DEF Pops
  <2>2. a[1] \in Word /\ a[2] \in Word
    BY <2>1 DEF Popped
  <2>3. Evm!Result("SDIV", a) \in Pushes("SDIV", a) /\ Evm!Result("SMOD", a) \in Pushes("SMOD", a)
    BY <2>2, SignedResults
  <2> QED
    BY <1>2, <2>3
<1>3. CASE op = "MULMOD"
  <2>1. Pops(op) = 3
    BY <1>3 DEF Pops
  <2>2. a[1] \in Word /\ a[2] \in Word /\ a[3] \in Word
    BY <2>1 DEF Popped
  <2>3. (IF a[3] = 0 THEN 0 ELSE (a[1] * a[2]) % a[3]) \in mulmod(a[1], a[2], a[3])
    BY <2>2, MulmodHonest
  <2>4. Pushes("MULMOD", a) = mulmod(a[1], a[2], a[3])
    BY OthersPush
  <2>5. Evm!Result("MULMOD", a) = IF a[3] = 0 THEN 0 ELSE (a[1] * a[2]) % a[3]
    BY OtherResultsAre
  <2> QED
    BY <1>3, <2>3, <2>4, <2>5
<1>4. CASE op = "SIGNEXTEND"
  <2>1. Pops(op) = 2
    BY <1>4 DEF Pops
  <2>2. a[1] \in Word /\ a[2] \in Word
    BY <2>1 DEF Popped
  <2>3. Pushes("SIGNEXTEND", a) = signextend(a[1], a[2])
    BY OthersPush
  <2>4. Evm!Result("SIGNEXTEND", a) = Evm!SignExtended(a[1], a[2])
    BY OtherResultsAre
  <2> QED
    BY <1>4, <2>2, <2>3, <2>4, SignextendHonest
<1> QED
  BY <1>1, <1>2, <1>3, <1>4 DEF Exact

-----------------------------------------------------------------------------
(* The stack as a sequence.                                                *)

StackAt(c, D, p) == [i \in 1 .. D - p |-> c[p + i - 1]]

Holds(c, D, S) == D \in Nat /\ c \in [0 .. D - 1 -> S]

\* s has the cells of c from p on.
CellsFrom(s, c, D, S, p) ==
  s \in Seq(S) /\ Len(s) = D - p /\ \A i \in 1 .. D - p : s[i] = c[p + i - 1]

LEMMA StackIsSequence ==
  ASSUME NEW S, NEW D, NEW c, Holds(c, D, S), NEW p \in 0 .. D
  PROVE  CellsFrom(StackAt(c, D, p), c, D, S, p)
<1>0. D \in Nat /\ c \in [0 .. D - 1 -> S]
  BY DEF Holds
<1> DEFINE n == D - p
           s == StackAt(c, D, p)
<1>1. n \in Nat
  BY <1>0
<1>2. \A i \in 1 .. n : c[p + i - 1] \in S
  <2>1. \A i \in 1 .. n : p + i - 1 \in 0 .. D - 1
    BY <1>0
  <2> QED
    BY <1>0, <2>1
<1>3. s \in [1 .. n -> S] /\ \A i \in 1 .. n : s[i] = c[p + i - 1]
  BY <1>2 DEF StackAt
<1> HIDE DEF s
<1>4. s \in Seq(S) /\ Len(s) = n
  <2> HIDE DEF n
  <2> QED
    BY <1>1, <1>3
<1> QED
  BY <1>3, <1>4 DEF s, CellsFrom

\* What is left of the stack below its first k words.
LEMMA StackBelow ==
  ASSUME NEW S, NEW D, NEW c, Holds(c, D, S), NEW p \in 0 .. D, NEW k \in Nat,
         NEW r \in 0 .. D, r = p + k, NEW s, CellsFrom(s, c, D, S, p)
  PROVE  CellsFrom(SubSeq(s, k + 1, Len(s)), c, D, S, r)
<1> DEFINE l == D - p
           rest == SubSeq(s, k + 1, l)
<1>0. D \in Nat
  BY DEF Holds
<1>1. /\ s \in Seq(S) /\ Len(s) = l /\ l \in Nat
      /\ \A i \in 1 .. l : s[i] = c[p + i - 1]
  BY <1>0 DEF CellsFrom
<1>2. k + 1 \in 1 .. l + 1 /\ l - k = D - r /\ l - k \in Nat
  BY <1>0
<1> HIDE DEF l
<1>3. rest \in Seq(S) /\ Len(rest) = l - k
      /\ \A i \in 1 .. l - k : rest[i] = s[k + i]
  BY <1>1, <1>2
<1>4. ASSUME NEW i \in 1 .. l - k PROVE rest[i] = c[r + i - 1]
  <2>1. k + i \in 1 .. l /\ p + (k + i) - 1 = r + i - 1
    BY <1>0, <1>1, <1>2
  <2> HIDE DEF rest
  <2> QED
    BY <1>1, <1>3, <2>1
<1> QED
  BY <1>1, <1>2, <1>3, <1>4 DEF CellsFrom

LEMMA SameSequence ==
  ASSUME NEW S, NEW s \in Seq(S), NEW t \in Seq(S), NEW n \in Nat, Len(s) = n, Len(t) = n,
         \A i \in 1 .. n : s[i] = t[i]
  PROVE  s = t
BY SeqEqual

\* The cells of d are those of c from position p on.
AgreeFrom(p, D, d, c) == \A q \in p .. D - 1 : d[q] = c[q]

\* After k words from position p have been popped and one pushed, top is the first
\* position and r the next.
Frame(p, k, top, r) == top = p + k - 1 /\ r = top + 1

StackBecomes(t, s, k, w) == t = <<w>> \o SubSeq(s, k + 1, Len(s))

\* The stack d after k words of the stack c have been popped and w pushed.
LEMMA StackPushed ==
  ASSUME NEW S, NEW D, NEW c, Holds(c, D, S), NEW d, Holds(d, D, S),
         NEW p \in 0 .. D, NEW k \in Nat, NEW top \in 0 .. D - 1, NEW r,
         Frame(p, k, top, r), NEW w \in S, d[top] = w, AgreeFrom(r, D, d, c)
  PROVE  StackBecomes(StackAt(d, D, top), StackAt(c, D, p), k, w)
<1> DEFINE s == StackAt(c, D, p)
           t == StackAt(d, D, top)
           n == D - top
           m == D - (top + 1)
           rest == SubSeq(s, k + 1, Len(s))
<1>1. D \in Nat
  BY DEF Holds
<1>2. top = p + k - 1 /\ \A q \in top + 1 .. D - 1 : d[q] = c[q]
  BY DEF Frame, AgreeFrom
<1>3. /\ top \in 0 .. D /\ m \in Nat /\ n = m + 1 /\ n \in Nat /\ top \in Nat
      /\ p + k = top + 1 /\ top + 1 \in 0 .. D /\ m = D - top - 1
  BY <1>1, <1>2
<1>4. rest \in Seq(S) /\ Len(rest) = m /\ \A i \in 1 .. m : rest[i] = c[top + 1 + i - 1]
  <2> DEFINE u == top + 1
  <2>1. u \in 0 .. D /\ u = p + k
    BY <1>3
  <2>2. CellsFrom(s, c, D, S, p)
    BY StackIsSequence
  <2> HIDE DEF u, s
  <2>3. CellsFrom(rest, c, D, S, u)
    BY <2>1, <2>2, StackBelow
  <2> QED
    BY <2>3 DEF CellsFrom, u
<1>5. t \in Seq(S) /\ Len(t) = n /\ \A i \in 1 .. n : t[i] = d[top + i - 1]
  BY <1>3, StackIsSequence DEF CellsFrom
<1> HIDE DEF s, t, m, n, rest
<1>6. <<w>> \in Seq(S) /\ Len(<<w>>) = 1 /\ <<w>>[1] = w
  OBVIOUS
<1> DEFINE u == <<w>>
           all == u \o rest
<1> HIDE DEF u
<1>7. all \in Seq(S) /\ Len(all) = 1 + m
      /\ \A i \in 1 .. 1 + m : all[i] = IF i <= 1 THEN u[i] ELSE rest[i - 1]
  BY <1>4, <1>6, ConcatProperties DEF u
<1> HIDE DEF all
<1>8. ASSUME NEW i \in 1 .. n PROVE t[i] = all[i]
  <2>1. t[i] = d[top + i - 1] /\ all[i] = IF i <= 1 THEN u[i] ELSE rest[i - 1]
    BY <1>3, <1>5, <1>7
  <2>2. CASE i = 1
    <3>1. top + 1 - 1 = top
      BY <1>3
    <3> QED
      BY <1>6, <2>1, <2>2, <3>1 DEF u
  <2>3. CASE i # 1
    <3>1. i - 1 \in 1 .. m /\ ~(i <= 1) /\ top + 1 + (i - 1) - 1 = top + i - 1
      BY <1>3, <2>3
    <3>2. rest[i - 1] = c[top + i - 1]
      BY <1>4, <3>1
    <3>3. top + i - 1 \in top + 1 .. D - 1
      BY <1>1, <1>3, <3>1
    <3>4. d[top + i - 1] = c[top + i - 1]
      BY <1>2, <3>3
    <3> QED
      BY <2>1, <3>1, <3>2, <3>4
  <2> QED
    BY <2>2, <2>3
<1>9. Len(all) = n
  BY <1>3, <1>7
<1>10. t = all
  BY <1>3, <1>5, <1>7, <1>8, <1>9, SameSequence
<1> QED
  BY <1>10 DEF t, all, u, rest, s, StackBecomes

StackLoses(t, s) == t = Tail(s) /\ s # <<>>

\* The stack d after the first word of the stack c has been popped.
LEMMA StackPopped ==
  ASSUME NEW S, NEW D, NEW c, Holds(c, D, S), NEW d, Holds(d, D, S), NEW p \in 0 .. D - 1,
         NEW r, r = p + 1, AgreeFrom(r, D, d, c)
  PROVE  StackLoses(StackAt(d, D, r), StackAt(c, D, p))
<1> DEFINE s == StackAt(c, D, p)
           t == StackAt(d, D, p + 1)
           n == D - (p + 1)
<1>1. D \in Nat
  BY DEF Holds
<1>2. p \in 0 .. D /\ p + 1 \in 0 .. D /\ n \in Nat /\ D - p = n + 1
  BY <1>1
<1>3. s \in Seq(S) /\ Len(s) = D - p /\ \A i \in 1 .. D - p : s[i] = c[p + i - 1]
  <2>1. CellsFrom(s, c, D, S, p)
    BY <1>2, StackIsSequence
  <2> QED
    BY <2>1 DEF CellsFrom
<1>4. t \in Seq(S) /\ Len(t) = n /\ \A i \in 1 .. n : t[i] = d[p + 1 + i - 1]
  <2>1. r \in 0 .. D
    BY <1>2
  <2>2. CellsFrom(StackAt(d, D, r), d, D, S, r)
    BY <2>1, StackIsSequence
  <2> QED
    BY <2>2 DEF CellsFrom
<1> HIDE DEF s, t, n
<1>5. s # <<>> /\ Tail(s) \in Seq(S) /\ Len(Tail(s)) = n
      /\ \A i \in 1 .. n : Tail(s)[i] = s[i + 1]
  <2>1. s # <<>>
    BY <1>3, <1>2
  <2> QED
    BY <1>3, <1>2, <2>1
<1>6. ASSUME NEW i \in 1 .. n PROVE t[i] = Tail(s)[i]
  <2>1. i + 1 \in 1 .. D - p /\ p + (i + 1) - 1 = p + i /\ p + 1 + i - 1 = p + i
        /\ p + i \in p + 1 .. D - 1
    BY <1>1, <1>2
  <2>2. t[i] = d[p + i] /\ Tail(s)[i] = c[p + i]
    <3>1. t[i] = d[p + 1 + i - 1] /\ Tail(s)[i] = s[i + 1]
      BY <1>4, <1>5
    <3>2. s[i + 1] = c[p + (i + 1) - 1]
      BY <1>3, <2>1
    <3> QED
      BY <2>1, <3>1, <3>2
  <2>3. d[p + i] = c[p + i]
    BY <2>1 DEF AgreeFrom
  <2> QED
    BY <2>2, <2>3
<1>7. t = Tail(s)
  BY <1>2, <1>4, <1>5, <1>6, SameSequence
<1> QED
  BY <1>5, <1>7 DEF t, s, StackLoses

-----------------------------------------------------------------------------
(* The steps.                                                              *)

LEMMA MachineIs ==
  ASSUME TypeOK
  PROVE  /\ machine \in Machines /\ machine.depth \in Nat
         /\ machine.operands \subseteq Word /\ machine.opcodes \subseteq Opcodes
         /\ stack_pointer \in 0 .. machine.depth
         /\ cells \in [0 .. machine.depth - 1 -> Word] /\ 0 \in Word
         /\ stack = StackAt(cells, machine.depth, stack_pointer)
<1>1. machine \in Machines
  BY DEF TypeOK
<1>2. machine.depth \in Nat /\ Evm!Modulus = Modulus /\ 0 \in Word
  BY <1>1, Sizes DEF Word
<1>3. machine.operands \subseteq 0 .. Evm!Power(2, 4 * machine.limb) - 1
      /\ machine.opcodes \subseteq Opcodes
  BY <1>1, MachinesAssumption DEF MachinesAssumption
<1>4. machine.operands \subseteq Word
  BY <1>2, <1>3 DEF Word, Evm!Modulus, Evm!Bits
<1> QED
  BY <1>1, <1>2, <1>3, <1>4 DEF TypeOK, stack, StackAt

\* The cells that a step leaves.
LEMMA ClearedIs ==
  ASSUME NEW S, 0 \in S, NEW D, NEW c, Holds(c, D, S), NEW p \in Nat
  PROVE  Holds(Cleared(c, p), D, S) /\ AgreeFrom(p, D, Cleared(c, p), c)
<1>1. DOMAIN c = 0 .. D - 1 /\ c \in [0 .. D - 1 -> S] /\ D \in Nat
  BY DEF Holds
<1>2. \A q \in p .. D - 1 : q \in 0 .. D - 1 /\ ~(q < p)
  BY <1>1
<1> QED
  BY <1>1, <1>2 DEF Cleared, Holds, AgreeFrom

\* What an opcode does to the stack.
Executed(op, top, z) ==
  /\ op \in machine.opcodes /\ top \in 0 .. machine.depth - 1 /\ top = stack_pointer + Pops(op) - 1
  /\ Pops(op) \in 1 .. 3 /\ stack_pointer' = top /\ z \in Word
  /\ z \in Pushes(op, [i \in 1 .. Pops(op) |-> cells[stack_pointer + i - 1]])
  /\ cells' \in [0 .. machine.depth - 1 -> Word] /\ cells'[top] = z
  /\ \A q \in top + 1 .. machine.depth - 1 : cells'[q] = cells[q]

LEMMA PoppedWords ==
  ASSUME TypeOK, NEW op, Pops(op) \in 1 .. 3, stack_pointer + Pops(op) - 1 < machine.depth
  PROVE  Popped(op, [i \in 1 .. Pops(op) |-> cells[stack_pointer + i - 1]])
<1> DEFINE D == machine.depth
           p == stack_pointer
           n == Pops(op)
<1>1. D \in Nat /\ p \in 0 .. D /\ n \in 1 .. 3 /\ p + n - 1 < D /\ cells \in [0 .. D - 1 -> Word]
  BY MachineIs
<1> HIDE DEF D, p, n
<1>2. \A i \in 1 .. n : p + i - 1 \in 0 .. D - 1
  BY <1>1
<1>3. \A i \in 1 .. n : cells[p + i - 1] \in Word
  BY <1>1, <1>2
<1> QED
  BY <1>3 DEF Popped, p, n

LEMMA ExecutedIs ==
  ASSUME TypeOK, NEW op \in machine.opcodes, Execute(op)
  PROVE  \E top, z : Executed(op, top, z)
<1> DEFINE D == machine.depth
           p == stack_pointer
           n == Pops(op)
           top == p + n - 1
           a == [i \in 1 .. n |-> cells[p + i - 1]]
<1>1. machine \in Machines /\ D \in Nat /\ p \in 0 .. D /\ cells \in [0 .. D - 1 -> Word]
      /\ op \in Opcodes /\ 0 \in Word
  BY MachineIs
<1>2. n \in 1 .. 3 /\ StackPointerDelta(op) = n - 1
  BY DEF Pops, StackPointerDelta
<1>3. top < D /\ stack_pointer' = p + StackPointerDelta(op)
  BY DEF Execute
<1>4. PICK z \in Pushes(op, a) : cells' = Cleared([cells EXCEPT ![top] = z], stack_pointer')
  BY DEF Execute
<1>5. Popped(op, a)
  BY <1>2, <1>3, PoppedWords
<1>6. z \in Word
  <2> HIDE DEF a
  <2>1. Pushes(op, a) \subseteq Word
    BY <1>1, <1>5, PushesWords
  <2> QED
    BY <1>4, <2>1
<1> HIDE DEF a
<1>7. top \in 0 .. D - 1 /\ stack_pointer' = top
  <2> HIDE DEF D, p, n
  <2> QED
    BY <1>1, <1>2, <1>3
<1> DEFINE c == [cells EXCEPT ![top] = z]
<1>8. c \in [0 .. D - 1 -> Word] /\ c[top] = z /\ \A q \in 0 .. D - 1 : q # top => c[q] = cells[q]
  <2> HIDE DEF D, top
  <2> QED
    BY <1>1, <1>6, <1>7
<1>9. cells' = Cleared(c, top)
  BY <1>4, <1>7
<1>10. top \in Nat
  <2> HIDE DEF D, top
  <2> QED
    BY <1>7
<1> HIDE DEF c
<1>11. cells' \in [0 .. D - 1 -> Word] /\ \A q \in top .. D - 1 : cells'[q] = c[q]
  <2> HIDE DEF D, top
  <2>1. Holds(c, D, Word)
    BY <1>1, <1>8 DEF Holds
  <2>2. Holds(Cleared(c, top), D, Word) /\ AgreeFrom(top, D, Cleared(c, top), c)
    BY <1>1, <1>10, <2>1, ClearedIs
  <2> QED
    BY <1>9, <2>2 DEF Holds, AgreeFrom
<1>12. cells'[top] = z /\ \A q \in top + 1 .. D - 1 : cells'[q] = cells[q]
  <2> HIDE DEF D, top
  <2>1. top \in top .. D - 1
    BY <1>1, <1>7
  <2>2. \A q \in top + 1 .. D - 1 : q \in top .. D - 1 /\ q \in 0 .. D - 1 /\ q # top
    BY <1>1, <1>7
  <2> QED
    BY <1>8, <1>11, <2>1, <2>2
<1>13. Executed(op, top, z)
  BY <1>2, <1>4, <1>6, <1>7, <1>11, <1>12 DEF Executed, a
<1> QED
  BY <1>13

LEMMA InitTyped == Init => TypeOK
<1> SUFFICES ASSUME Init PROVE TypeOK
  OBVIOUS
<1>1. machine \in Machines
  BY DEF Init
<1>2. machine.depth \in Nat /\ 0 \in Word
  BY <1>1, Sizes DEF Word
<1> QED
  BY <1>1, <1>2 DEF Init, TypeOK

\* A push and a pop.
LEMMA MovedIs ==
  ASSUME TypeOK
  PROVE  /\ push => \E x \in machine.operands :
                      /\ x \in Word /\ stack_pointer > 0 /\ stack_pointer' = stack_pointer - 1
                      /\ cells' \in [0 .. machine.depth - 1 -> Word]
                      /\ cells'[stack_pointer - 1] = x
                      /\ \A q \in stack_pointer .. machine.depth - 1 : cells'[q] = cells[q]
         /\ pop => /\ stack_pointer < machine.depth /\ stack_pointer' = stack_pointer + 1
                   /\ cells' \in [0 .. machine.depth - 1 -> Word]
                   /\ \A q \in stack_pointer + 1 .. machine.depth - 1 : cells'[q] = cells[q]
<1> DEFINE D == machine.depth
           p == stack_pointer
<1>1. D \in Nat /\ p \in 0 .. D /\ cells \in [0 .. D - 1 -> Word] /\ 0 \in Word
      /\ machine.operands \subseteq Word
  BY MachineIs
<1>2. ASSUME push
      PROVE  \E x \in machine.operands :
               /\ x \in Word /\ p > 0 /\ stack_pointer' = p - 1
               /\ cells' \in [0 .. D - 1 -> Word] /\ cells'[p - 1] = x
               /\ \A q \in p .. D - 1 : cells'[q] = cells[q]
  <2>1. p > 0 /\ stack_pointer' = p - 1
    BY <1>2 DEF push
  <2>2. PICK x \in machine.operands : cells' = [cells EXCEPT ![p - 1] = x]
    BY <1>2 DEF push
  <2> HIDE DEF D, p
  <2>3. p - 1 \in 0 .. D - 1 /\ \A q \in p .. D - 1 : q \in 0 .. D - 1 /\ q # p - 1
    BY <1>1, <2>1
  <2> QED
    BY <1>1, <2>1, <2>2, <2>3
<1>3. ASSUME pop
      PROVE  /\ p < D /\ stack_pointer' = p + 1
             /\ cells' \in [0 .. D - 1 -> Word]
             /\ \A q \in p + 1 .. D - 1 : cells'[q] = cells[q]
  <2>1. p < D /\ stack_pointer' = p + 1 /\ cells' = Cleared(cells, stack_pointer')
    BY <1>3 DEF pop
  <2> DEFINE r == p + 1
  <2>2. r \in Nat /\ cells' = Cleared(cells, r)
    <3> HIDE DEF D, p
    <3>1. p + 1 \in Nat
      BY <1>1
    <3> QED
      BY <2>1, <3>1
  <2> HIDE DEF r, D
  <2>3. Holds(cells, D, Word)
    BY <1>1 DEF Holds
  <2>4. Holds(Cleared(cells, r), D, Word) /\ AgreeFrom(r, D, Cleared(cells, r), cells)
    BY <1>1, <2>2, <2>3, ClearedIs
  <2> QED
    BY <2>1, <2>2, <2>4 DEF r, Holds, AgreeFrom
<1> QED
  BY <1>2, <1>3

LEMMA StepTyped ==
  ASSUME TypeOK, [Next]_vars
  PROVE  TypeOK'
<1> DEFINE D == machine.depth
<1>1. machine \in Machines /\ D \in Nat /\ stack_pointer \in 0 .. D
  BY MachineIs
<1>2. ASSUME machine' = machine, stack_pointer' \in 0 .. D, cells' \in [0 .. D - 1 -> Word]
      PROVE  TypeOK'
  <2>1. Word' = Word
    BY <1>2 DEF Word, Modulus, HalfBase, Base
  <2> QED
    BY <1>1, <1>2, <2>1 DEF TypeOK
<1>3. CASE push
  <2>1. stack_pointer > 0 /\ stack_pointer' = stack_pointer - 1 /\ cells' \in [0 .. D - 1 -> Word]
    BY <1>3, MovedIs
  <2>2. machine' = machine
    BY <1>3 DEF push
  <2> HIDE DEF D
  <2> QED
    BY <1>1, <1>2, <2>1, <2>2
<1>4. CASE pop
  <2>1. stack_pointer < D /\ stack_pointer' = stack_pointer + 1 /\ cells' \in [0 .. D - 1 -> Word]
    BY <1>4, MovedIs
  <2>2. machine' = machine
    BY <1>4 DEF pop
  <2> HIDE DEF D
  <2> QED
    BY <1>1, <1>2, <2>1, <2>2
<1>5. CASE Compute
  <2>1. PICK op \in machine.opcodes : Execute(op)
    BY <1>5 DEF Compute
  <2>2. PICK top, z : Executed(op, top, z)
    BY <2>1, ExecutedIs
  <2>3. machine' = machine
    BY <2>1 DEF Execute
  <2>4. stack_pointer' \in 0 .. D - 1 /\ cells' \in [0 .. D - 1 -> Word]
    BY <2>2 DEF Executed
  <2> HIDE DEF D
  <2> QED
    BY <1>1, <1>2, <2>3, <2>4
<1>6. CASE UNCHANGED vars
  <2>1. machine' = machine /\ stack_pointer' = stack_pointer /\ cells' = cells
    BY <1>6 DEF vars
  <2>2. cells \in [0 .. D - 1 -> Word]
    BY MachineIs
  <2> HIDE DEF D
  <2> QED
    BY <1>1, <1>2, <2>1, <2>2
<1> QED
  BY <1>3, <1>4, <1>5, <1>6 DEF Next

\* Whatever the sizes of words and stack, the stack pointer stays in the stack and the cells
\* hold words, the opcodes whose constraints allow wrong results included (TypeOK).
THEOREM TypesHold == Spec => []TypeOK
<1>1. Init => TypeOK
  BY InitTyped
<1>2. TypeOK /\ [Next]_vars => TypeOK'
  BY StepTyped
<1> QED
  BY <1>1, <1>2, PTL DEF Spec

-----------------------------------------------------------------------------
(* The steps are those of the EVM.                                         *)

\* The machines have opcodes whose constraints fix the result.
OnlyExact == \A m \in Machines : m.opcodes \subseteq Exact

\* The machines do not have SIGNEXTEND.
NoSignextend == \A m \in Machines : "SIGNEXTEND" \notin m.opcodes

\* The steps in which an opcode meets words that it decides.
CheckedNext ==
  push \/ pop \/ \E op \in machine.opcodes : Checked(op, stack) /\ Execute(op)

LEMMA PushImplements ==
  ASSUME TypeOK, push
  PROVE  Evm!Push
<1> DEFINE D == machine.depth
           p == stack_pointer
           c == cells
           d == cells'
<1>1. D \in Nat /\ p \in 0 .. D /\ Holds(c, D, Word) /\ stack = StackAt(c, D, p)
  BY MachineIs DEF Holds
<1>2. PICK x \in machine.operands :
        /\ x \in Word /\ p > 0 /\ stack_pointer' = p - 1
        /\ d \in [0 .. D - 1 -> Word] /\ d[p - 1] = x
        /\ \A q \in p .. D - 1 : d[q] = c[q]
  BY MovedIs
<1>3. machine' = machine
  BY DEF push
<1> DEFINE top == p - 1
<1>4. stack' = StackAt(d, D, top)
  BY <1>2, <1>3 DEF stack, StackAt
<1> HIDE DEF D, p, c, d
<1>5. top \in 0 .. D - 1 /\ top = p + 0 - 1 /\ top + 1 = p
  BY <1>1, <1>2
<1>6. d[top] = x /\ \A q \in top + 1 .. D - 1 : d[q] = c[q]
  BY <1>2, <1>5
<1>7. Holds(d, D, Word)
  BY <1>1, <1>2 DEF Holds
<1> HIDE DEF top
<1> DEFINE s == StackAt(c, D, p)
<1>8. StackAt(d, D, top) = <<x>> \o SubSeq(s, 0 + 1, Len(s))
  <2> DEFINE k == 0
             r == top + 1
  <2>1. k \in Nat /\ Frame(p, k, top, r) /\ AgreeFrom(r, D, d, c)
    BY <1>5, <1>6 DEF Frame, AgreeFrom
  <2>2. \A t : StackBecomes(t, s, k, x) => t = <<x>> \o SubSeq(s, 0 + 1, Len(s))
    BY DEF StackBecomes
  <2> HIDE DEF k, r
  <2>3. StackBecomes(StackAt(d, D, top), s, k, x)
    BY <1>1, <1>2, <1>5, <1>6, <1>7, <2>1, StackPushed
  <2> QED
    BY <2>2, <2>3
<1>9. s \in Seq(Word) /\ Len(s) = D - p
  BY <1>1, StackIsSequence DEF CellsFrom
<1> HIDE DEF s
<1>10. SubSeq(s, 0 + 1, Len(s)) = s
  BY <1>9
<1>11. Len(s) < D
  BY <1>1, <1>2, <1>9
<1> QED
  BY <1>1, <1>3, <1>4, <1>8, <1>10, <1>11 DEF Evm!Push, s, D

LEMMA PopImplements ==
  ASSUME TypeOK, pop
  PROVE  Evm!Pop
<1> DEFINE D == machine.depth
           p == stack_pointer
           c == cells
           d == cells'
<1>1. D \in Nat /\ p \in 0 .. D /\ Holds(c, D, Word) /\ stack = StackAt(c, D, p)
  BY MachineIs DEF Holds
<1>2. /\ p < D /\ stack_pointer' = p + 1
      /\ d \in [0 .. D - 1 -> Word] /\ \A q \in p + 1 .. D - 1 : d[q] = c[q]
  BY MovedIs
<1>3. machine' = machine
  BY DEF pop
<1>4. stack' = StackAt(d, D, p + 1)
  BY <1>2, <1>3 DEF stack, StackAt
<1> HIDE DEF D, p, c, d
<1>5. p \in 0 .. D - 1 /\ Holds(d, D, Word)
  BY <1>1, <1>2 DEF Holds
<1>6. StackAt(d, D, p + 1) = Tail(StackAt(c, D, p)) /\ StackAt(c, D, p) # <<>>
  <2> DEFINE r == p + 1
  <2>1. AgreeFrom(r, D, d, c) /\ r = p + 1
    BY <1>2 DEF AgreeFrom
  <2> HIDE DEF r
  <2>2. StackLoses(StackAt(d, D, r), StackAt(c, D, p))
    BY <1>1, <1>5, <2>1, StackPopped
  <2> QED
    BY <2>2 DEF StackLoses, r
<1> QED
  BY <1>1, <1>3, <1>4, <1>6 DEF Evm!Pop

LEMMA ArityIs ==
  ASSUME NEW op
  PROVE  Evm!Arity(op) = Pops(op) /\ Pops(op) \in 1 .. 3
BY DEF Evm!Arity, Evm!Ternary, Evm!Unary, Pops

LEMMA ExecuteImplements ==
  ASSUME TypeOK, NEW op \in machine.opcodes, Checked(op, stack), Execute(op)
  PROVE  Evm!Execute(op)
<1> DEFINE D == machine.depth
           p == stack_pointer
           c == cells
           d == cells'
           n == Pops(op)
           a == [i \in 1 .. n |-> c[p + i - 1]]
           s == StackAt(c, D, p)
<1>1. machine \in Machines /\ D \in Nat /\ p \in 0 .. D /\ Holds(c, D, Word) /\ stack = s
  BY MachineIs DEF Holds
<1>2. op \in Opcodes /\ Checked(op, s)
  BY <1>1, MachineIs
<1>3. PICK top, z :
        /\ top \in 0 .. D - 1 /\ top = p + n - 1 /\ n \in 1 .. 3 /\ stack_pointer' = top
        /\ z \in Word /\ z \in Pushes(op, a)
        /\ d \in [0 .. D - 1 -> Word] /\ d[top] = z /\ \A q \in top + 1 .. D - 1 : d[q] = c[q]
  BY ExecutedIs DEF Executed
<1>4. machine' = machine
  BY DEF Execute
<1>5. stack' = StackAt(d, D, top)
  BY <1>3, <1>4 DEF stack, StackAt
<1>6. Popped(op, a)
  <2>1. n \in 1 .. 3 /\ stack_pointer + Pops(op) - 1 < machine.depth
    <3>1. top < D
      <4> HIDE DEF D
      <4> QED
        BY <1>1, <1>3
    <3> QED
      BY <1>3, <3>1
  <2> QED
    BY <2>1, PoppedWords
<1>7. \A i \in 1 .. n : a[i] = c[p + i - 1]
  OBVIOUS
<1> HIDE DEF a
<1>8. s \in Seq(Word) /\ Len(s) = D - p /\ \A i \in 1 .. D - p : s[i] = c[p + i - 1]
  BY <1>1, StackIsSequence DEF CellsFrom
<1> HIDE DEF s, D, p, c, d
<1>9. n <= D - p
  <2> HIDE DEF n
  <2> QED
    BY <1>1, <1>3
<1>10. \A i \in 1 .. n : s[i] = a[i]
  <2> HIDE DEF n
  <2>1. \A i \in 1 .. n : i \in 1 .. D - p
    BY <1>1, <1>3, <1>9
  <2> QED
    BY <1>7, <1>8, <2>1
<1>11. z = Evm!Result(op, s)
  <2>1. Pushes(op, a) = {Evm!Result(op, s)}
    BY <1>1, <1>2, <1>6, <1>10, CheckedExact
  <2> QED
    BY <1>3, <2>1
<1>12. StackAt(d, D, top) = <<z>> \o SubSeq(s, n + 1, Len(s))
  <2>1. Holds(d, D, Word)
    BY <1>1, <1>3 DEF Holds
  <2> HIDE DEF n
  <2>2. n \in Nat
    BY <1>3
  <2> DEFINE r == top + 1
  <2>3. Frame(p, n, top, r) /\ AgreeFrom(r, D, d, c)
    BY <1>3 DEF Frame, AgreeFrom
  <2> HIDE DEF r
  <2>4. StackBecomes(StackAt(d, D, top), StackAt(c, D, p), n, z)
    BY <1>1, <1>3, <2>1, <2>2, <2>3, StackPushed
  <2> QED
    BY <2>4 DEF s, StackBecomes
<1>13. Evm!Arity(op) = n
  BY ArityIs
<1>14. Len(s) >= n
  <2> HIDE DEF n
  <2> QED
    BY <1>1, <1>3, <1>8, <1>9
<1> HIDE DEF n
<1> QED
  BY <1>1, <1>4, <1>5, <1>11, <1>12, <1>13, <1>14 DEF Evm!Execute

LEMMA StepImplements ==
  ASSUME TypeOK, [CheckedNext]_vars
  PROVE  [Evm!Next]_<<machine, stack>>
<1>1. CASE push
  BY <1>1, PushImplements DEF Evm!Next
<1>2. CASE pop
  BY <1>2, PopImplements DEF Evm!Next
<1>3. CASE \E op \in machine.opcodes : Checked(op, stack) /\ Execute(op)
  <2>1. PICK op \in machine.opcodes : Checked(op, stack) /\ Execute(op)
    BY <1>3
  <2>2. Evm!Execute(op)
    BY <2>1, ExecuteImplements
  <2> QED
    BY <2>2 DEF Evm!Next
<1>4. CASE UNCHANGED vars
  BY <1>4 DEF vars, stack
<1> QED
  BY <1>1, <1>2, <1>3, <1>4 DEF CheckedNext

LEMMA ExactChecked ==
  ASSUME TypeOK, OnlyExact, [Next]_vars
  PROVE  [CheckedNext]_vars
<1>1. CASE Compute
  <2>1. PICK op \in machine.opcodes : Execute(op)
    BY <1>1 DEF Compute
  <2>2. Checked(op, stack)
    BY MachineIs DEF OnlyExact, Checked
  <2> QED
    BY <2>1, <2>2 DEF CheckedNext
<1>2. CASE push \/ pop
  BY <1>2 DEF CheckedNext
<1> QED
  BY <1>1, <1>2 DEF Next

LEMMA InitImplements ==
  ASSUME Init
  PROVE  Evm!Init
<1>1. machine \in Machines /\ stack_pointer = machine.depth
  BY DEF Init
<1>2. machine.depth \in Nat
  BY <1>1, Sizes
<1>3. 1 .. machine.depth - stack_pointer = {}
  BY <1>1, <1>2
<1>4. stack = [i \in {} |-> cells[stack_pointer + i - 1]]
  BY <1>3 DEF stack
<1>5. stack = <<>>
  BY <1>4
<1> QED
  BY <1>5 DEF Evm!Init

LEMMA ResultsFit ==
  ASSUME TypeOK, NoSignextend
  PROVE  ResultsAccepted
<1> SUFFICES ASSUME NEW op \in machine.opcodes, Pops(op) <= machine.depth - stack_pointer
             PROVE  Evm!Result(op, stack) \in Pushes(op, stack)
  BY DEF ResultsAccepted
<1> DEFINE D == machine.depth
           p == stack_pointer
           n == Pops(op)
           s == stack
<1>1. machine \in Machines /\ D \in Nat /\ p \in 0 .. D /\ Holds(cells, D, Word)
      /\ s = StackAt(cells, D, p)
  BY MachineIs DEF Holds
<1>2. op \in Opcodes /\ op # "SIGNEXTEND"
  BY <1>1, MachineIs DEF NoSignextend
<1>3. n \in 1 .. 3 /\ n <= D - p
  BY ArityIs
<1> HIDE DEF D, p, s
<1>4. s \in Seq(Word) /\ Len(s) = D - p
  BY <1>1, StackIsSequence DEF CellsFrom
<1>5. \A i \in 1 .. n : s[i] \in Word
  <2> HIDE DEF n
  <2>1. \A i \in 1 .. n : i \in 1 .. Len(s)
    BY <1>1, <1>3, <1>4
  <2> QED
    BY <1>4, <2>1
<1>6. Popped(op, s)
  BY <1>5 DEF Popped
<1>7. Evm!Result(op, s) \in Pushes(op, s)
  BY <1>1, <1>2, <1>6, ResultsArePushed
<1> QED
  BY <1>7 DEF s

\* Whatever the sizes of limbs and bytes, whatever the depth of the stack and whatever the
\* witnesses, a step pushes the word the EVM would push and moves the stack pointer past the
\* words it popped (ImplementsEvm), as long as SDIV, SMOD and MULMOD meet words that they
\* decide and SIGNEXTEND is not executed: for SDIV and SMOD, a divisor that is not 0 and a
\* dividend that is not the least word or a divisor of 1 or -1 (SDIV), or a dividend that is 0
\* or not closer to 0 than the divisor (SMOD); for MULMOD, a modulus that divides Modulus * b
\* or, the modulus being 0, a product that is 0 or longer than a word.
THEOREM CheckedStepsAreTheEvms ==
  Init /\ [][CheckedNext]_vars => ImplementsEvm
<1>1. Init => TypeOK /\ Evm!Init
  BY InitTyped, InitImplements
<1>2. CheckedNext => Next
  BY DEF CheckedNext, Next, Compute
<1>3. TypeOK /\ [CheckedNext]_vars => TypeOK'
  BY <1>2, StepTyped
<1>4. TypeOK /\ [CheckedNext]_vars => [Evm!Next]_<<machine, stack>>
  BY StepImplements
<1> QED
  BY <1>1, <1>3, <1>4, PTL DEF ImplementsEvm, Evm!Spec

\* Without SDIV, SMOD, MULMOD and SIGNEXTEND every step is one of the EVM, whatever the sizes
\* of limbs and bytes, the depth of the stack, the words and the witnesses (ImplementsEvm).
THEOREM WordsAreTheEvms ==
  ASSUME OnlyExact
  PROVE  Spec => ImplementsEvm
<1>1. TypeOK /\ [Next]_vars => [CheckedNext]_vars
  BY ExactChecked
<1> QED
  BY <1>1, TypesHold, CheckedStepsAreTheEvms, PTL DEF Spec

\* The constraints are not too strong: whatever the words on the stack, some witness satisfies
\* those of every opcode but SIGNEXTEND with the EVM's result (ResultsAccepted).
THEOREM HonestResultsPass ==
  ASSUME NoSignextend
  PROVE  Spec => []ResultsAccepted
<1>1. TypeOK => ResultsAccepted
  BY ResultsFit
<1> QED
  BY <1>1, TypesHold, PTL
================================================================================
