--------------------------- MODULE ExpCircuitProofs ---------------------------
(***************************************************************************)
(* Theorems about ExpCircuit for every modulus: a trace whose quotients are*)
(* halves gives the power of its base, and so does every trace of an odd   *)
(* base when the modulus is a power of 2, as 2^256 is.                     *)
(***************************************************************************)
EXTENDS ExpCircuit, WellFoundedInduction, TLAPS

-----------------------------------------------------------------------------
(* Induction over sets of naturals.                                        *)

Less == {p \in Nat \X Nat : p[1] < p[2]}

LEMMA Least ==
  ASSUME NEW T \in SUBSET Nat, T # {}
  PROVE  \E m \in T : \A n \in T : m <= n
<1>1. IsWellFoundedOn(Less, Nat)
  BY NatLessThanWellFounded DEF OpToRel, Less
<1>2. PICK m \in T : \A n \in T : <<n, m>> \notin Less
  BY <1>1, WFMin
<1>3. \A n \in T : ~(n < m)
  BY <1>2 DEF Less
<1> QED
  BY <1>3

LEMMA Induct ==
  ASSUME NEW S, 0 \in S, \A n \in Nat : n \in S => n + 1 \in S
  PROVE  \A n \in Nat : n \in S
<1> SUFFICES ASSUME Nat \ S # {} PROVE FALSE
  OBVIOUS
<1>1. (Nat \ S) \in SUBSET Nat
  OBVIOUS
<1>2. PICK m \in Nat \ S : \A n \in Nat \ S : m <= n
  BY <1>1, Least
<1>3. m # 0 /\ m - 1 \in Nat
  BY <1>2
<1>4. m - 1 \in S
  BY <1>2, <1>3
<1> QED
  BY <1>2, <1>3, <1>4

-----------------------------------------------------------------------------
(* Remainders.                                                             *)

LEMMA Remainder ==
  ASSUME NEW u \in Int, NEW n \in Nat \ {0}
  PROVE  /\ u \div n \in Int /\ u % n \in 0 .. n - 1 /\ u % n \in Int
         /\ u = n * (u \div n) + (u % n)
OBVIOUS

LEMMA RemainderUnique ==
  ASSUME NEW a \in Int, NEW c \in Int, NEW n \in Nat \ {0},
         NEW r \in 0 .. n - 1, NEW s \in 0 .. n - 1, n * a + r = n * c + s
  PROVE  r = s
<1> DEFINE e == a - c
<1>1. e \in Int /\ n * e = s - r
  OBVIOUS
<1> HIDE DEF e
<1>2. CASE e = 0
  BY <1>1, <1>2
<1>3. CASE e >= 1
  <2>1. n * e >= n
    BY <1>1, <1>3
  <2> QED
    BY <1>1, <2>1
<1>4. CASE e <= -1
  <2>1. n * e <= -n
    BY <1>1, <1>4
  <2> QED
    BY <1>1, <2>1
<1> QED
  BY <1>1, <1>2, <1>3, <1>4

Shifted(u, v, k, n) == u = n * k + v

\* A multiple of the modulus does not change the remainder.
LEMMA ModShift ==
  ASSUME NEW u \in Int, NEW v \in Int, NEW k \in Int, NEW n \in Nat \ {0}, Shifted(u, v, k, n)
  PROVE  u % n = v % n
<1> DEFINE a == u \div n   c == v \div n   r == u % n   s == v % n
<1>1. /\ a \in Int /\ c \in Int /\ r \in 0 .. n - 1 /\ s \in 0 .. n - 1
      /\ u = n * a + r /\ v = n * c + s /\ u = n * k + v
  BY Remainder DEF Shifted
<1> HIDE DEF a, c, r, s
<1> DEFINE kc == k + c
<1>2. kc \in Int /\ n * kc = n * k + n * c
  BY <1>1
<1> HIDE DEF kc
<1>3. n * a \in Int /\ n * k \in Int /\ n * c \in Int
  BY <1>1
<1>4. n * a + r = n * kc + s
  BY <1>1, <1>2, <1>3
<1>5. r = s
  BY <1>1, <1>2, <1>4, RemainderUnique
<1> QED
  BY <1>5 DEF r, s

LEMMA ModOnce ==
  ASSUME NEW u \in Int, NEW v \in Int, NEW n \in Nat \ {0}, u = v + n
  PROVE  u % n = v % n
<1>1. Shifted(u, v, 1, n)
  BY DEF Shifted
<1> QED
  BY <1>1, ModShift

LEMMA ModSmall ==
  ASSUME NEW n \in Nat \ {0}, NEW r \in 0 .. n - 1
  PROVE  r % n = r
<1>1. r \div n \in Int /\ r % n \in 0 .. n - 1 /\ r = n * (r \div n) + (r % n)
  BY Remainder
<1> DEFINE c == r \div n   s == r % n
<1> HIDE DEF c, s
<1>2. n * 0 + r = n * c + s /\ c \in Int /\ s \in 0 .. n - 1
  BY <1>1 DEF c, s
<1>3. r = s
  BY <1>2, RemainderUnique
<1> QED
  BY <1>3 DEF s

\* A factor may be replaced by its remainder.
LEMMA ModTimes ==
  ASSUME NEW u \in Int, NEW v \in Int, NEW n \in Nat \ {0}
  PROVE  ((u % n) * v) % n = (u * v) % n
<1> DEFINE q == u \div n   r == u % n
<1>1. q \in Int /\ r \in Int /\ u = n * q + r
  BY Remainder
<1> HIDE DEF q, r
<1> DEFINE uv == u * v   qv == q * v   rv == r * v
<1>2. uv \in Int /\ qv \in Int /\ rv \in Int /\ uv = n * qv + rv
  BY <1>1
<1> HIDE DEF uv, qv, rv
<1>3. uv % n = rv % n
  <2>1. Shifted(uv, rv, qv, n)
    BY <1>2 DEF Shifted
  <2> QED
    BY <1>2, <2>1, ModShift
<1> QED
  BY <1>3 DEF r, uv, rv

-----------------------------------------------------------------------------
(* Powers.  A recursive function is the function that satisfies its        *)
(* equation, so a table of powers has to be shown to exist.                *)

LEMMA ModulusTyped == Modulus \in Nat \ {0} /\ Modulus > 2 /\ 1 \in Words /\ 0 \in Words
BY ConstantsAssumption DEF ConstantsAssumption, Words

LEMMA InWords ==
  ASSUME NEW u \in Int
  PROVE  u % Modulus \in Words
BY ModulusTyped, Remainder DEF Words

\* g holds the powers of x up to n.
PowersUpTo(g, x, n) ==
  g = [k \in 0 .. n |-> IF k = 0 THEN 1 ELSE (g[k - 1] * x) % Modulus]

LEMMA PowersInWords ==
  ASSUME NEW x \in Nat, NEW n \in Nat, NEW g, PowersUpTo(g, x, n)
  PROVE  \A k \in 0 .. n : g[k] \in Words
<1> DEFINE S == {k \in Nat : k <= n => g[k] \in Words}
<1>1. 0 \in S
  BY ModulusTyped DEF PowersUpTo
<1>2. ASSUME NEW k \in Nat, k \in S, k + 1 <= n
      PROVE  g[k + 1] \in Words
  <2>1. g[k + 1] = (g[k] * x) % Modulus
    <3>1. k + 1 \in 0 .. n /\ k + 1 # 0 /\ (k + 1) - 1 = k
      BY <1>2
    <3> QED
      BY <3>1 DEF PowersUpTo
  <2>2. g[k] \in Words
    BY <1>2
  <2>3. g[k] * x \in Int
    BY <2>2, ModulusTyped DEF Words
  <2> QED
    BY <2>1, <2>3, InWords
<1>3. \A k \in Nat : k \in S => k + 1 \in S
  BY <1>2
<1>4. \A k \in Nat : k \in S
  <2> HIDE DEF S
  <2> QED
    BY <1>1, <1>3, Induct
<1> QED
  BY <1>4

LEMMA PowersExist ==
  ASSUME NEW x \in Nat, NEW n \in Nat
  PROVE  \E g : PowersUpTo(g, x, n)
<1> DEFINE S == {m \in Nat : \E g : PowersUpTo(g, x, m)}
<1>1. 0 \in S
  <2>1. PowersUpTo([k \in 0 .. 0 |-> 1], x, 0)
    BY DEF PowersUpTo
  <2> QED
    BY <2>1
<1>2. ASSUME NEW m \in Nat, m \in S
      PROVE  m + 1 \in S
  <2>1. PICK g : PowersUpTo(g, x, m)
    BY <1>2
  <2> DEFINE h == [k \in 0 .. m + 1 |-> IF k = m + 1 THEN (g[m] * x) % Modulus ELSE g[k]]
  <2>2. h = [k \in 0 .. m + 1 |-> IF k = 0 THEN 1 ELSE (h[k - 1] * x) % Modulus]
    <3> SUFFICES ASSUME NEW k \in 0 .. m + 1
                 PROVE  h[k] = IF k = 0 THEN 1 ELSE (h[k - 1] * x) % Modulus
      OBVIOUS
    <3>1. CASE k = m + 1
      <4>1. k # 0 /\ k - 1 = m /\ m \in 0 .. m + 1 /\ m # m + 1
        BY <3>1
      <4> QED
        BY <3>1, <4>1
    <3>2. CASE k # m + 1 /\ k # 0
      <4>1. k \in 0 .. m /\ k - 1 \in 0 .. m + 1 /\ k - 1 # m + 1 /\ k # m + 1
        BY <3>2
      <4>2. h[k] = g[k] /\ h[k - 1] = g[k - 1]
        BY <4>1
      <4>3. g[k] = (g[k - 1] * x) % Modulus
        BY <2>1, <3>2, <4>1 DEF PowersUpTo
      <4> QED
        BY <3>2, <4>2, <4>3
    <3>3. CASE k = 0
      <4>1. 0 \in 0 .. m /\ 0 # m + 1
        OBVIOUS
      <4> QED
        BY <2>1, <3>3, <4>1 DEF PowersUpTo
    <3> QED
      BY <3>1, <3>2, <3>3
  <2>3. PowersUpTo(h, x, m + 1)
    BY <2>2 DEF PowersUpTo
  <2> HIDE DEF h
  <2> QED
    BY <2>3
<1>3. n \in S
  <2> HIDE DEF S
  <2> QED
    BY <1>1, <1>2, Induct
<1> QED
  BY <1>3

LEMMA PowersAgree ==
  ASSUME NEW x \in Nat, NEW m \in Nat, NEW n \in Nat, NEW g, NEW h,
         PowersUpTo(g, x, m), PowersUpTo(h, x, n)
  PROVE  \A k \in Nat : k <= m /\ k <= n => g[k] = h[k]
<1> DEFINE S == {k \in Nat : k <= m /\ k <= n => g[k] = h[k]}
<1>1. 0 \in S
  BY DEF PowersUpTo
<1>2. ASSUME NEW k \in Nat, k \in S, k + 1 <= m, k + 1 <= n
      PROVE  g[k + 1] = h[k + 1]
  <2>1. k + 1 \in 0 .. m /\ k + 1 \in 0 .. n /\ k + 1 # 0 /\ (k + 1) - 1 = k
    BY <1>2
  <2>2. g[k + 1] = (g[k] * x) % Modulus /\ h[k + 1] = (h[k] * x) % Modulus
    BY <2>1 DEF PowersUpTo
  <2>3. g[k] = h[k]
    BY <1>2
  <2> QED
    BY <2>2, <2>3
<1>3. \A k \in Nat : k \in S => k + 1 \in S
  BY <1>2
<1>4. \A k \in Nat : k \in S
  <2> HIDE DEF S
  <2> QED
    BY <1>1, <1>3, Induct
<1> QED
  BY <1>4

\* The last entry of any table of powers is Power.
LEMMA PowerIs ==
  ASSUME NEW x \in Nat, NEW n \in Nat
  PROVE  \E g : PowersUpTo(g, x, n) /\ Power(x, n) = g[n]
<1> DEFINE p == CHOOSE g : PowersUpTo(g, x, n)
<1>1. PowersUpTo(p, x, n)
  BY PowersExist
<1>2. Power(x, n) = p[n]
  BY DEF Power, PowersUpTo
<1> HIDE DEF p
<1> QED
  BY <1>1, <1>2

LEMMA PowerSteps ==
  ASSUME NEW x \in Nat
  PROVE  /\ Power(x, 0) = 1
         /\ \A n \in Nat : /\ Power(x, n) \in Words
                           /\ Power(x, n + 1) = (Power(x, n) * x) % Modulus
<1>1. Power(x, 0) = 1
  <2>1. PICK g : PowersUpTo(g, x, 0) /\ Power(x, 0) = g[0]
    BY PowerIs
  <2> QED
    BY <2>1 DEF PowersUpTo
<1>2. ASSUME NEW n \in Nat
      PROVE  Power(x, n) \in Words /\ Power(x, n + 1) = (Power(x, n) * x) % Modulus
  <2>1. PICK g : PowersUpTo(g, x, n) /\ Power(x, n) = g[n]
    BY PowerIs
  <2>2. PICK h : PowersUpTo(h, x, n + 1) /\ Power(x, n + 1) = h[n + 1]
    BY PowerIs
  <2>3. g[n] \in Words
    BY <2>1, PowersInWords
  <2>4. h[n + 1] = (h[n] * x) % Modulus
    <3>1. n + 1 \in 0 .. n + 1 /\ n + 1 # 0 /\ (n + 1) - 1 = n
      OBVIOUS
    <3> QED
      BY <2>2, <3>1 DEF PowersUpTo
  <2>5. g[n] = h[n]
    <3>1. n <= n /\ n <= n + 1 /\ n + 1 \in Nat
      OBVIOUS
    <3> QED
      BY <2>1, <2>2, <3>1, PowersAgree
  <2> QED
    BY <2>1, <2>2, <2>3, <2>4, <2>5
<1> QED
  BY <1>1, <1>2

PowersAdd(x, m, n) == Power(x, m + n) = (Power(x, m) * Power(x, n)) % Modulus

\* Exponents add up.
LEMMA PowerAdd ==
  ASSUME NEW x \in Nat, NEW m \in Nat, NEW n \in Nat
  PROVE  PowersAdd(x, m, n)
<1> DEFINE S == {k \in Nat : Power(x, m + k) = (Power(x, m) * Power(x, k)) % Modulus}
<1>0. \A k \in Nat : Power(x, k) \in Words /\ Power(x, k) \in Nat
  BY PowerSteps, ModulusTyped DEF Words
<1>1. 0 \in S
  <2>1. Power(x, m) % Modulus = Power(x, m)
    BY <1>0, ModSmall, ModulusTyped DEF Words
  <2>2. m + 0 = m /\ Power(x, m) * 1 = Power(x, m)
    BY <1>0
  <2> QED
    BY <2>1, <2>2, PowerSteps
<1>2. ASSUME NEW k \in Nat, k \in S
      PROVE  k + 1 \in S
  <2> DEFINE a == Power(x, m)   b == Power(x, k)   ab == a * b   bx == b * x
  <2>1. a \in Nat /\ b \in Nat /\ ab \in Nat /\ bx \in Nat
    BY <1>0
  <2>2. Power(x, m + k) = ab % Modulus
    BY <1>2
  <2>3. Power(x, (m + k) + 1) = (Power(x, m + k) * x) % Modulus
    BY PowerSteps
  <2>4. Power(x, k + 1) = bx % Modulus
    BY PowerSteps
  <2>5. ab * x = bx * a
    BY <2>1
  <2> HIDE DEF a, b, ab, bx
  <2>6. (bx % Modulus) * a = a * (bx % Modulus)
    <3>1. bx % Modulus \in Nat
      BY <2>1, InWords, ModulusTyped DEF Words
    <3> QED
      BY <2>1, <3>1
  <2>7. ((ab % Modulus) * x) % Modulus = (ab * x) % Modulus
    <3>1. Modulus \in Nat \ {0} /\ ab \in Int /\ x \in Int
      BY <2>1, ModulusTyped
    <3> QED
      BY <3>1, ModTimes, Zenon
  <2>8. ((bx % Modulus) * a) % Modulus = (bx * a) % Modulus
    <3>1. Modulus \in Nat \ {0} /\ bx \in Int /\ a \in Int
      BY <2>1, ModulusTyped
    <3> QED
      BY <3>1, ModTimes, Zenon
  <2>9. m + (k + 1) = (m + k) + 1
    OBVIOUS
  <2> QED
    BY <2>2, <2>3, <2>4, <2>5, <2>6, <2>7, <2>8, <2>9 DEF a
<1>3. n \in S
  <2> HIDE DEF S
  <2> QED
    BY <1>1, <1>2, Induct
<1> QED
  BY <1>3 DEF PowersAdd

-----------------------------------------------------------------------------
(* The invariant: every row but the last passed its checks against the row *)
(* below it.                                                               *)

Checked ==
  /\ \A i \in DOMAIN rows : check_step(rows[i]) /\ check_last(rows[i])
  /\ \A i \in DOMAIN rows : i < Len(rows) => check_next(rows[i], rows[i + 1])

IInv == TypeOK /\ Checked

LEMMA MulAddWord ==
  ASSUME NEW a \in Words, NEW b \in Words, NEW c \in Words
  PROVE  mul_add_words(a, b, c) \in Words
<1>1. a * b + c \in Int
  BY ModulusTyped DEF Words
<1> QED
  BY <1>1, InWords DEF mul_add_words

LEMMA StepsTyped ==
  ASSUME NEW I \in SUBSET (Identifiers \cup {0}), NEW L \in SUBSET BOOLEAN,
         NEW X \in SUBSET Words, NEW A \in SUBSET Words, NEW B \in SUBSET Words,
         NEW row \in Steps(I, L, X, A, B)
  PROVE  row \in RowSet
<1>1. PICK i \in I, l \in L, x \in X, a \in A, b \in B, q \in Words, r \in {0, 1} :
        row = [is_step |-> TRUE, identifier |-> i, is_last |-> l, base |-> x,
               exponent |-> mul_add_words(2, q, r), exponentiation |-> mul_add_words(a, b, 0),
               a |-> a, b |-> b, d |-> mul_add_words(a, b, 0), q |-> q, r |-> r]
  BY DEF Steps
<1>2. mul_add_words(a, b, 0) \in Words
  BY MulAddWord, ModulusTyped
<1>3. mul_add_words(2, q, r) \in Words
  <2>1. 2 * q + r \in Int
    BY ModulusTyped DEF Words
  <2> QED
    BY <2>1, InWords DEF mul_add_words
<1> QED
  BY <1>1, <1>2, <1>3 DEF RowSet

LEMMA BasesAreWords == Bases \subseteq Words /\ Bases \cup {1} \subseteq Words
BY ModulusTyped, ConstantsAssumption DEF ConstantsAssumption, Words

LEMMA NoStepsTyped ==
  ASSUME NEW row \in NoSteps
  PROVE  row \in RowSet
<1>1. PICK i \in Identifiers \cup {0}, x \in Bases \cup {1}, e \in Words, d \in Words :
        row = [is_step |-> FALSE, identifier |-> i, is_last |-> FALSE, base |-> x, exponent |-> e,
               exponentiation |-> 1, a |-> 1, b |-> 1, d |-> d, q |-> 0, r |-> 1]
  BY DEF NoSteps
<1> QED
  BY <1>1, BasesAreWords, ModulusTyped DEF RowSet

\* Every step puts a row of the table's type on top, or closes the table.
LEMMA StepCases ==
  ASSUME TypeOK, Next
  PROVE  (\E row \in RowSet : PutOnTop(row)) \/ CloseTable
<1>0. rows # <<>> => TopRow \in RowSet
  BY DEF TypeOK, TopRow
<1>1. CASE Step
  <2>1. /\ TopRow.identifier \in Identifiers \cup {0} /\ TopRow.base \in Words
        /\ TopRow.d \in Words
    BY <1>0, <1>1 DEF Step, RowSet
  <2> DEFINE I == {TopRow.identifier}   L == {FALSE}   X == {TopRow.base}
             A == {TopRow.d}   B == {TopRow.base, TopRow.d}
  <2>2. /\ I \in SUBSET (Identifiers \cup {0}) /\ L \in SUBSET BOOLEAN /\ X \in SUBSET Words
        /\ A \in SUBSET Words /\ B \in SUBSET Words
    BY <2>1
  <2>3. PICK row \in Steps(I, L, X, A, B) : PutOnTop(row)
    BY <1>1 DEF Step
  <2> HIDE DEF I, L, X, A, B
  <2> QED
    BY <2>2, <2>3, StepsTyped
<1>2. CASE StepAtBottom
  <2>1. PICK x \in Bases, a \in Words :
          \E row \in Steps(Identifiers, {FALSE}, {x}, {a}, {x, a}) : PutOnTop(row)
    BY <1>2 DEF StepAtBottom
  <2> DEFINE L == {FALSE}   X == {x}   A == {a}   B == {x, a}
  <2>2. /\ Identifiers \in SUBSET (Identifiers \cup {0}) /\ L \in SUBSET BOOLEAN
        /\ X \in SUBSET Words /\ A \in SUBSET Words /\ B \in SUBSET Words
    BY BasesAreWords
  <2>3. PICK row \in Steps(Identifiers, L, X, A, B) : PutOnTop(row)
    BY <2>1
  <2> HIDE DEF L, X, A, B
  <2> QED
    BY <2>2, <2>3, StepsTyped
<1>3. CASE LastStep
  <2> DEFINE L == {TRUE}
  <2>1. PICK row \in Steps(Identifiers, L, Bases, Words, Words) : PutOnTop(row)
    BY <1>3 DEF LastStep
  <2>2. Identifiers \in SUBSET (Identifiers \cup {0}) /\ L \in SUBSET BOOLEAN
    OBVIOUS
  <2> HIDE DEF L
  <2> QED
    BY <2>1, <2>2, BasesAreWords, StepsTyped
<1>4. CASE NoStep
  BY <1>4, NoStepsTyped DEF NoStep
<1> QED
  BY <1>1, <1>2, <1>3, <1>4 DEF Next

LEMMA PutStep ==
  ASSUME IInv, NEW row \in RowSet, PutOnTop(row)
  PROVE  IInv'
<1> DEFINE n == Len(rows)
<1>1. /\ n \in Nat /\ DOMAIN rows = 1 .. n /\ rows \in Seq(RowSet)
      /\ rows' = <<row>> \o rows /\ closed' = closed /\ closed \in BOOLEAN
      /\ rows # <<>> => n > 0 /\ check_next(row, rows[1])
      /\ check_step(row) /\ check_last(row)
  BY DEF IInv, TypeOK, PutOnTop, TopRow
<1>2. /\ rows' \in Seq(RowSet) /\ Len(rows') = n + 1 /\ DOMAIN rows' = 1 .. n + 1
      /\ rows'[1] = row /\ \A i \in 2 .. n + 1 : rows'[i] = rows[i - 1]
  BY <1>1
<1> HIDE DEF n
<1>3. TypeOK'
  BY <1>1, <1>2 DEF TypeOK
<1>4. ASSUME NEW i \in 1 .. n + 1
      PROVE  /\ check_step(rows'[i]) /\ check_last(rows'[i])
             /\ i < n + 1 => check_next(rows'[i], rows'[i + 1])
  <2>1. CASE i = 1
    <3>1. 1 < n + 1 => rows'[1 + 1] = rows[1] /\ rows # <<>>
      <4>1. 1 < n + 1 => 1 + 1 \in 2 .. n + 1 /\ (1 + 1) - 1 = 1
        BY <1>1
      <4>2. rows = <<>> => n = 0
        BY DEF n
      <4> QED
        BY <1>1, <1>2, <4>1, <4>2
    <3> QED
      BY <1>1, <1>2, <2>1, <3>1
  <2>2. CASE i # 1
    <3>1. i \in 2 .. n + 1 /\ i - 1 \in 1 .. n /\ (i - 1) + 1 = i
      BY <1>1, <2>2
    <3>2. i < n + 1 => i + 1 \in 2 .. n + 1 /\ (i + 1) - 1 = i /\ i - 1 < n
      BY <1>1, <3>1
    <3>3. check_step(rows[i - 1]) /\ check_last(rows[i - 1])
      BY <1>1, <3>1 DEF IInv, Checked
    <3>4. i - 1 < n => check_next(rows[i - 1], rows[i])
      BY <1>1, <3>1 DEF IInv, Checked, n
    <3> QED
      BY <1>2, <3>1, <3>2, <3>3, <3>4
  <2> QED
    BY <2>1, <2>2
<1> QED
  BY <1>2, <1>3, <1>4 DEF IInv, Checked

LEMMA Invariance == Spec => []IInv
<1>1. Init => IInv
  <2>1. <<>> \in Seq(RowSet) /\ DOMAIN <<>> = {}
    OBVIOUS
  <2> QED
    BY <2>1 DEF Init, IInv, TypeOK, Checked
<1>2. IInv /\ [Next]_vars => IInv'
  <2> SUFFICES ASSUME IInv, [Next]_vars
               PROVE  IInv'
    OBVIOUS
  <2>1. CASE CloseTable
    BY <2>1 DEF IInv, TypeOK, Checked, CloseTable
  <2>2. CASE UNCHANGED vars
    BY <2>2 DEF IInv, TypeOK, Checked, vars
  <2> QED
    BY <2>1, <2>2, StepCases, PutStep DEF IInv
<1> QED
  BY <1>1, <1>2, PTL DEF Spec

\* Words stay words, and the table a sequence of rows.
THEOREM TypeCorrect == Spec => []TypeOK
<1>1. IInv => TypeOK
  BY DEF IInv
<1> QED
  BY <1>1, Invariance, PTL

-----------------------------------------------------------------------------
(* A trace, from its last step up.                                         *)

\* The row below has the result the row above goes on with.
Halves(row) ==
  row.r = 0 => Power(row.base, row.exponent) = Power(row.base, row.q + row.q)

LEMMA RowTyped ==
  ASSUME IInv, NEW k \in DOMAIN rows
  PROVE  /\ rows[k].base \in Nat /\ rows[k].exponent \in Nat /\ rows[k].q \in Nat
         /\ rows[k].base \in Words /\ rows[k].exponent \in Words /\ rows[k].q \in Words
         /\ rows[k].r \in {0, 1}
         /\ DOMAIN rows = 1 .. Len(rows) /\ Len(rows) \in Nat
<1>1. rows[k] \in RowSet
  BY DEF IInv, TypeOK
<1>2. DOMAIN rows = 1 .. Len(rows) /\ Len(rows) \in Nat
  BY DEF IInv, TypeOK
<1> QED
  BY <1>1, <1>2, ModulusTyped DEF RowSet, Words

\* The last step of a trace squares its base.
LEMMA LastRowGives ==
  ASSUME IInv, NEW j \in DOMAIN rows, rows[j].is_step, rows[j].is_last
  PROVE  GivesThePower(rows[j])
<1> DEFINE x == rows[j].base
<1>1. rows[j].exponent = 2 /\ rows[j].exponentiation = (x * x + 0) % Modulus
  BY DEF IInv, Checked, check_step, check_last, mul_add_words
<1>2. x \in Nat /\ x \in Words
  BY RowTyped
<1>3. Power(x, 1) = x
  <2>1. Power(x, 0 + 1) = (Power(x, 0) * x) % Modulus /\ Power(x, 0) = 1
    BY <1>2, PowerSteps
  <2>2. x % Modulus = x
    BY <1>2, ModSmall, ModulusTyped DEF Words
  <2> HIDE DEF x
  <2>3. 1 * x = x /\ 0 + 1 = 1
    BY <1>2
  <2> QED
    BY <2>1, <2>2, <2>3
<1>4. Power(x, 1 + 1) = (Power(x, 1) * x) % Modulus
  BY <1>2, PowerSteps
<1>5. x * x + 0 = x * x
  BY <1>2
<1> QED
  BY <1>1, <1>3, <1>4, <1>5 DEF GivesThePower

\* A step above a row that gives the power gives the power.
LEMMA NextRowGives ==
  ASSUME IInv, NEW k \in DOMAIN rows, k + 1 \in DOMAIN rows,
         rows[k].is_step, ~rows[k].is_last, rows[k + 1].is_step,
         Halves(rows[k]), GivesThePower(rows[k + 1])
  PROVE  GivesThePower(rows[k])
<1> DEFINE x == rows[k].base   e == rows[k].exponent   a == rows[k].a   q == rows[k].q
<1>0. x \in Nat /\ e \in Nat /\ q \in Nat /\ rows[k].r \in {0, 1} /\ k < Len(rows)
  <2>1. k + 1 \in 1 .. Len(rows) /\ k \in 1 .. Len(rows) /\ Len(rows) \in Nat
    BY RowTyped
  <2> QED
    BY <2>1, RowTyped
<1>1. check_next(rows[k], rows[k + 1]) /\ check_step(rows[k]) /\ check_step(rows[k + 1])
  BY <1>0 DEF IInv, Checked
<1>2. a = Power(x, rows[k + 1].exponent)
  BY <1>1 DEF check_next, check_step, GivesThePower
<1>3. rows[k].exponentiation = (a * rows[k].b + 0) % Modulus
  BY <1>1 DEF check_step, mul_add_words
<1>4. CASE rows[k].r = 1
  <2>1. rows[k + 1].exponent = e - 1 /\ rows[k].b = x
    BY <1>1, <1>4 DEF check_next, next_exponent, multiplicand
  <2>2. e - 1 \in Nat
    BY <2>1, RowTyped
  <2>3. Power(x, (e - 1) + 1) = (Power(x, e - 1) * x) % Modulus /\ Power(x, e - 1) \in Nat
    <3> DEFINE f == e - 1
    <3>1. x \in Nat /\ f \in Nat
      BY <1>0, <2>2
    <3> HIDE DEF x, f
    <3>2. Power(x, f + 1) = (Power(x, f) * x) % Modulus /\ Power(x, f) \in Words
      BY <3>1, PowerSteps
    <3>3. Power(x, f) \in Nat
      BY <3>2, ModulusTyped DEF Words
    <3> QED
      BY <3>2, <3>3 DEF f
  <2>4. a \in Nat /\ a = Power(x, e - 1)
    BY <1>2, <2>1, <2>3
  <2> HIDE DEF x, e, a
  <2>5. (e - 1) + 1 = e /\ a * x + 0 = a * x
    BY <1>0, <2>4
  <2> QED
    BY <1>3, <2>1, <2>3, <2>4, <2>5 DEF GivesThePower, x, e
<1>5. CASE rows[k].r = 0
  <2>1. rows[k + 1].exponent = q /\ rows[k].b = a
    BY <1>1, <1>5 DEF check_next, next_exponent, multiplicand
  <2>2. Power(x, q + q) = (Power(x, q) * Power(x, q)) % Modulus /\ Power(x, q) \in Nat
    <3> HIDE DEF x, q
    <3>1. Power(x, q) \in Words
      BY <1>0, PowerSteps
    <3>2. Power(x, q) \in Nat
      BY <3>1, ModulusTyped DEF Words
    <3>3. PowersAdd(x, q, q)
      BY <1>0, PowerAdd
    <3> QED
      BY <3>2, <3>3 DEF PowersAdd
  <2>3. a = Power(x, q)
    BY <1>2, <2>1
  <2>4. Power(x, e) = Power(x, q + q)
    BY <1>5 DEF Halves
  <2> HIDE DEF x, e, a, q
  <2>5. a * a + 0 = a * a
    BY <2>2, <2>3
  <2> QED
    BY <1>3, <2>1, <2>2, <2>3, <2>4, <2>5 DEF GivesThePower, x, e
<1> QED
  BY <1>0, <1>4, <1>5

LEMMA TraceGives ==
  ASSUME IInv, NEW i \in DOMAIN rows, NEW j \in DOMAIN rows, Trace(i, j),
         \A k \in i .. j - 1 : Halves(rows[k])
  PROVE  GivesThePower(rows[i])
<1>1. DOMAIN rows = 1 .. Len(rows) /\ Len(rows) \in Nat /\ i <= j
  BY RowTyped DEF Trace
<1> DEFINE S == {m \in Nat : m <= j - i => GivesThePower(rows[j - m])}
<1>2. 0 \in S
  <2>1. j \in i .. j /\ j - 0 = j
    BY <1>1
  <2>2. GivesThePower(rows[j])
    BY <2>1, LastRowGives DEF Trace
  <2> QED
    BY <2>1, <2>2
<1>3. ASSUME NEW m \in Nat, m \in S
      PROVE  m + 1 \in S
  <2> SUFFICES ASSUME m + 1 <= j - i
               PROVE  GivesThePower(rows[j - (m + 1)])
    OBVIOUS
  <2> DEFINE k == j - (m + 1)
  <2>1. k \in i .. j - 1 /\ k \in i .. j /\ k + 1 \in i .. j /\ k + 1 = j - m /\ m <= j - i
    BY <1>1
  <2>2. k \in DOMAIN rows /\ k + 1 \in DOMAIN rows
    BY <1>1, <2>1
  <2>3. GivesThePower(rows[k + 1])
    BY <1>3, <2>1
  <2>4. rows[k].is_step /\ ~rows[k].is_last /\ rows[k + 1].is_step /\ Halves(rows[k])
    BY <2>1 DEF Trace
  <2> HIDE DEF k
  <2>5. GivesThePower(rows[k])
    BY <2>2, <2>3, <2>4, NextRowGives
  <2> QED
    BY <2>5 DEF k
<1>4. \A m \in Nat : m \in S
  <2> HIDE DEF S
  <2> QED
    BY <1>2, <1>3, Induct
<1>5. j - i \in Nat /\ j - i <= j - i /\ j - (j - i) = i
  BY <1>1
<1> QED
  BY <1>4, <1>5

\* A trace whose steps halve their exponents gives the power of its base, for every
\* modulus and whatever else the table holds.
THEOREM ExactTraces == Spec => []ExactTracesGiveThePower
<1>1. ASSUME IInv
      PROVE  ExactTracesGiveThePower
  <2> SUFFICES ASSUME NEW i \in DOMAIN rows, NEW j \in DOMAIN rows, Trace(i, j),
                      \A k \in i .. j - 1 : Exact(rows[k])
               PROVE  GivesThePower(rows[i])
    BY DEF ExactTracesGiveThePower
  <2>1. ASSUME NEW k \in i .. j - 1
        PROVE  Halves(rows[k])
    <3>1. i \in 1 .. Len(rows) /\ j \in 1 .. Len(rows) /\ Len(rows) \in Nat /\ DOMAIN rows = 1 .. Len(rows)
      BY <1>1, RowTyped
    <3>2. k \in DOMAIN rows
      BY <3>1
    <3>3. rows[k].q \in Nat /\ rows[k].exponent \in Nat /\ 2 * rows[k].q + rows[k].r = rows[k].exponent
      BY <1>1, <3>2, RowTyped DEF Exact
    <3>4. rows[k].r = 0 => rows[k].exponent = rows[k].q + rows[k].q
      BY <3>3
    <3> QED
      BY <3>4 DEF Halves
  <2> QED
    BY <1>1, <2>1, TraceGives
<1> QED
  BY <1>1, Invariance, PTL

-----------------------------------------------------------------------------
(* Odd bases.  The modulus is a power of 2, and two is the function of the *)
(* powers of 2; the powers of an odd number repeat with it as a period.    *)

PowersOf2(two) ==
  /\ two \in [Nat -> Nat \ {0}]
  /\ two[0] = 1
  /\ \A n \in Nat : two[n + 1] = 2 * two[n]

LEMMA TwoDivides ==
  ASSUME NEW two, PowersOf2(two), NEW n \in Nat, NEW m \in Nat, n <= m
  PROVE  \E c \in Nat : two[m] = two[n] * c
<1> DEFINE S == {k \in Nat : \E c \in Nat : two[n + k] = two[n] * c}
<1>1. 0 \in S
  <2>1. two[n + 0] = two[n] * 1
    BY DEF PowersOf2
  <2> QED
    BY <2>1
<1>2. ASSUME NEW k \in Nat, k \in S
      PROVE  k + 1 \in S
  <2>1. PICK c \in Nat : two[n + k] = two[n] * c
    BY <1>2
  <2> DEFINE t == two[n]
  <2>2. two[(n + k) + 1] = 2 * two[n + k] /\ t \in Nat /\ (n + k) + 1 = n + (k + 1)
    BY DEF PowersOf2
  <2>3. two[n + (k + 1)] = 2 * (t * c)
    BY <2>1, <2>2
  <2> HIDE DEF t
  <2>4. 2 * (t * c) = t * (2 * c) /\ 2 * c \in Nat
    BY <2>2
  <2> QED
    BY <2>3, <2>4 DEF t
<1>3. m - n \in S
  <2>1. m - n \in Nat
    OBVIOUS
  <2> HIDE DEF S
  <2> QED
    BY <1>1, <1>2, <2>1, Induct
<1>4. n + (m - n) = m
  OBVIOUS
<1> QED
  BY <1>3, <1>4

LEMMA OddPowers ==
  ASSUME NEW two, PowersOf2(two), NEW w \in Nat, Modulus = two[w],
         NEW x \in Nat, x % 2 = 1, NEW m \in Nat, m + 1 <= w
  PROVE  \E t \in Int : Power(x, two[m]) = 1 + two[m + 1] * t
<1> DEFINE S == {k \in Nat : k + 1 <= w => \E t \in Int : Power(x, two[k]) = 1 + two[k + 1] * t}
<1>0. /\ \A k \in Nat : two[k] \in Nat /\ two[k + 1] \in Nat /\ two[k + 1] = 2 * two[k]
      /\ two[0] = 1
  BY DEF PowersOf2
<1>1. 0 \in S
  <2> SUFFICES ASSUME 0 + 1 <= w
               PROVE  \E t \in Int : Power(x, two[0]) = 1 + two[0 + 1] * t
    OBVIOUS
  <2>1. two[0] = 1 /\ two[0 + 1] = 2
    BY <1>0
  <2>2. PICK c \in Nat : Modulus = 2 * c
    BY <2>1, TwoDivides
  <2>3. Power(x, 1) = x % Modulus
    <3>1. Power(x, 0 + 1) = (Power(x, 0) * x) % Modulus /\ Power(x, 0) = 1
      BY PowerSteps
    <3>2. 1 * x = x /\ 0 + 1 = 1
      OBVIOUS
    <3> QED
      BY <3>1, <3>2
  <2> DEFINE d == x \div Modulus   u == x \div 2   r == x % Modulus
  <2>4. d \in Int /\ r \in Int /\ x = Modulus * d + r
    <3>1. x \in Int /\ Modulus \in Nat \ {0}
      BY ModulusTyped
    <3> QED
      BY <3>1, Remainder, Zenon
  <2>5. u \in Int /\ x = 2 * u + 1
    BY Remainder
  <2> HIDE DEF d, u, r
  <2> DEFINE cd == c * d
  <2>6. cd \in Int /\ Modulus * d = 2 * cd
    BY <2>2, <2>4
  <2> HIDE DEF cd
  <2>7. r = 1 + 2 * (u - cd) /\ u - cd \in Int
    BY <2>4, <2>5, <2>6
  <2> QED
    BY <2>1, <2>3, <2>7 DEF r
<1>2. ASSUME NEW k \in Nat, k \in S
      PROVE  k + 1 \in S
  <2> SUFFICES ASSUME (k + 1) + 1 <= w
               PROVE  \E t \in Int : Power(x, two[k + 1]) = 1 + two[(k + 1) + 1] * t
    OBVIOUS
  <2>1. k + 1 <= w
    OBVIOUS
  <2>2. PICK t \in Int : Power(x, two[k]) = 1 + two[k + 1] * t
    BY <1>2, <2>1
  <2>3. PICK c \in Nat : Modulus = two[(k + 1) + 1] * c
    BY TwoDivides
  <2> DEFINE h == two[k]   y == Power(x, h)   yy == y * y
             d == yy \div Modulus   r == yy % Modulus
  <2>4. h \in Nat /\ two[k + 1] = 2 * h /\ two[(k + 1) + 1] = 2 * (2 * h)
    BY <1>0
  <2>5. Power(x, h + h) = r
    <3>1. h \in Nat /\ x \in Nat
      BY <2>4
    <3> HIDE DEF h
    <3>2. PowersAdd(x, h, h)
      BY <3>1, PowerAdd
    <3> QED
      BY <3>2 DEF PowersAdd
  <2>6. Power(x, two[k + 1]) = r
    <3>1. two[k + 1] = h + h
      BY <2>4
    <3> QED
      BY <2>5, <3>1
  <2>7. y \in Nat /\ yy \in Nat
    <3>1. y \in Words
      BY <2>4, PowerSteps
    <3>2. y \in Nat
      BY <3>1, ModulusTyped DEF Words
    <3> HIDE DEF y
    <3> QED
      BY <3>2
  <2> HIDE DEF yy
  <2>8. d \in Int /\ r \in Int /\ yy = Modulus * d + r
    <3>1. yy \in Int /\ Modulus \in Nat \ {0}
      BY <2>7, ModulusTyped
    <3> QED
      BY <3>1, Remainder, Zenon
  <2>9. y = 1 + (2 * h) * t /\ Modulus = (2 * (2 * h)) * c
    BY <2>2, <2>3, <2>4
  <2> HIDE DEF h, y, d, r
  <2> DEFINE ht == h * t   cd == c * d   hc == h * c   hcd == h * cd   htt == ht * t
             hhtt == ht * ht
  <2>10. /\ ht \in Int /\ cd \in Int /\ hc \in Int /\ hcd \in Int /\ htt \in Int /\ hhtt \in Int
         /\ y = 1 + 2 * ht /\ Modulus = 4 * hc /\ hc * d = hcd /\ hhtt = h * htt
    BY <2>4, <2>8, <2>9
  <2>11. yy = 1 + 4 * ht + 4 * hhtt
    BY <2>7, <2>10 DEF yy
  <2>12. Modulus * d = 4 * hcd
    BY <2>8, <2>10
  <2> DEFINE s == t + htt - cd
  <2>13. s \in Int /\ h * s = ht + hhtt - hcd
    BY <2>4, <2>10
  <2> HIDE DEF ht, cd, hc, hcd, htt, hhtt, s
  <2>14. r = 1 + 4 * (h * s)
    BY <2>8, <2>10, <2>11, <2>12, <2>13
  <2>15. (2 * (2 * h)) * s = 4 * (h * s)
    BY <2>4, <2>13
  <2> QED
    BY <2>4, <2>6, <2>13, <2>14, <2>15
<1>3. m \in S
  <2> HIDE DEF S
  <2> QED
    BY <1>1, <1>2, Induct
<1> QED
  BY <1>3

\* The powers of an odd number have the modulus as a period.
LEMMA OddPeriod ==
  ASSUME NEW two, PowersOf2(two), NEW w \in Nat, Modulus = two[w],
         NEW x \in Nat, x % 2 = 1
  PROVE  Power(x, Modulus) = 1
<1>1. w # 0
  BY ModulusTyped DEF PowersOf2
<1>2. w - 1 \in Nat /\ (w - 1) + 1 = w /\ (w - 1) + 1 <= w
  BY <1>1
<1>3. PICK t \in Int : Power(x, two[w - 1]) = 1 + Modulus * t
  BY <1>2, OddPowers
<1> DEFINE h == two[w - 1]   y == Power(x, h)
<1>4. h \in Nat /\ Modulus = h + h
  <2>1. two[(w - 1) + 1] = 2 * two[w - 1] /\ two[w - 1] \in Nat
    BY <1>2 DEF PowersOf2
  <2> QED
    BY <1>2, <2>1
<1> HIDE DEF h
<1>5. y \in 0 .. Modulus - 1
  BY <1>4, PowerSteps DEF Words
<1>6. y = 1
  <2>1. Modulus * 0 + y = Modulus * t + 1
    BY <1>3, <1>5, ModulusTyped DEF h
  <2>2. 1 \in 0 .. Modulus - 1
    BY ModulusTyped
  <2> HIDE DEF y
  <2> QED
    BY <1>5, <2>1, <2>2, ModulusTyped, RemainderUnique
<1>7. Power(x, h + h) = (y * y) % Modulus
  <2>1. PowersAdd(x, h, h)
    BY <1>4, PowerAdd
  <2> QED
    BY <2>1 DEF PowersAdd
<1>8. 1 % Modulus = 1 /\ 1 * 1 = 1
  BY ModSmall, ModulusTyped DEF Words
<1> QED
  BY <1>4, <1>6, <1>7, <1>8

\* The base is the same along a trace.
LEMMA SameBase ==
  ASSUME IInv, NEW i \in DOMAIN rows, NEW j \in DOMAIN rows, Trace(i, j), NEW k \in i .. j
  PROVE  rows[k].base = rows[i].base
<1>1. DOMAIN rows = 1 .. Len(rows) /\ Len(rows) \in Nat /\ i <= j
  BY RowTyped DEF Trace
<1> DEFINE S == {m \in Nat : i + m <= j => rows[i + m].base = rows[i].base}
<1>2. 0 \in S
  BY <1>1
<1>3. ASSUME NEW m \in Nat, m \in S
      PROVE  m + 1 \in S
  <2> SUFFICES ASSUME i + (m + 1) <= j
               PROVE  rows[i + (m + 1)].base = rows[i].base
    OBVIOUS
  <2>1. i + m \in i .. j - 1 /\ i + m \in i .. j /\ (i + m) + 1 = i + (m + 1) /\ i + m <= j
    BY <1>1
  <2>2. i + m \in DOMAIN rows /\ i + m < Len(rows)
    BY <1>1, <2>1
  <2>3. check_next(rows[i + m], rows[(i + m) + 1])
    BY <2>2 DEF IInv, Checked
  <2>4. rows[i + m].is_step /\ ~rows[i + m].is_last
    BY <2>1 DEF Trace
  <2>5. rows[i + m].base = rows[i].base
    BY <1>3, <2>1
  <2> QED
    BY <2>1, <2>3, <2>4, <2>5 DEF check_next
<1>4. \A m \in Nat : m \in S
  <2> HIDE DEF S
  <2> QED
    BY <1>2, <1>3, Induct
<1>5. k - i \in Nat /\ i + (k - i) = k /\ k <= j
  BY <1>1
<1> QED
  BY <1>4, <1>5

\* Doubling a quotient that is half the modulus too large gives the same power.
LEMMA OddHalves ==
  ASSUME NEW two, PowersOf2(two), NEW w \in Nat, Modulus = two[w],
         IInv, NEW k \in DOMAIN rows, rows[k].is_step, rows[k].base % 2 = 1
  PROVE  Halves(rows[k])
<1> DEFINE x == rows[k].base   e == rows[k].exponent   q == rows[k].q   h == q + q
<1> SUFFICES ASSUME rows[k].r = 0
             PROVE  Power(x, e) = Power(x, h)
  BY DEF Halves
<1>1. x \in Nat /\ e \in Words /\ q \in Words /\ x % 2 = 1
  BY RowTyped
<1>2. h \in Nat /\ h < 2 * Modulus /\ 2 * q + 0 = h
  BY <1>1, ModulusTyped DEF Words
<1>3. e = h % Modulus
  BY <1>2 DEF IInv, Checked, check_step, mul_add_words
<1> HIDE DEF x, e, q, h
<1>4. CASE h < Modulus
  <2>1. h % Modulus = h
    BY <1>2, <1>4, ModSmall, ModulusTyped
  <2> QED
    BY <1>3, <2>1
<1>5. CASE h >= Modulus
  <2> DEFINE f == h - Modulus
  <2>1. f \in 0 .. Modulus - 1 /\ f \in Nat /\ h = Modulus * 1 + f /\ h = f + Modulus
    BY <1>2, <1>5, ModulusTyped
  <2> HIDE DEF f
  <2>2. h % Modulus = f % Modulus
    <3>1. Modulus \in Nat \ {0} /\ h \in Int /\ f \in Int
      BY <1>2, <2>1, ModulusTyped
    <3> QED
      BY <2>1, <3>1, ModOnce
  <2>3. f % Modulus = f
    BY <2>1, ModSmall, ModulusTyped
  <2>4. Power(x, f + Modulus) = (Power(x, f) * Power(x, Modulus)) % Modulus
    <3>1. Modulus \in Nat
      BY ModulusTyped
    <3>2. PowersAdd(x, f, Modulus)
      BY <1>1, <2>1, <3>1, PowerAdd
    <3> QED
      BY <3>2 DEF PowersAdd
  <2>5. Power(x, Modulus) = 1
    BY <1>1, OddPeriod
  <2>6. Power(x, f) \in 0 .. Modulus - 1
    BY <1>1, <2>1, PowerSteps DEF Words
  <2> DEFINE y == Power(x, f)
  <2> HIDE DEF y
  <2>7. y * 1 = y /\ y % Modulus = y
    BY <2>6, ModSmall, ModulusTyped DEF y
  <2> QED
    BY <1>3, <2>1, <2>2, <2>3, <2>4, <2>5, <2>7 DEF y
<1> QED
  BY <1>2, <1>4, <1>5, ModulusTyped

\* With a power of 2 for modulus, every trace of an odd base gives the power of it,
\* although the overflow of 2 * q + r is dropped.
THEOREM OddTraces ==
  ASSUME NEW two, PowersOf2(two), NEW w \in Nat, Modulus = two[w]
  PROVE  Spec => []OddBasesGiveThePower
<1>1. ASSUME IInv
      PROVE  OddBasesGiveThePower
  <2> SUFFICES ASSUME NEW i \in DOMAIN rows, NEW j \in DOMAIN rows, Trace(i, j),
                      rows[i].base % 2 = 1
               PROVE  GivesThePower(rows[i])
    BY DEF OddBasesGiveThePower
  <2>1. ASSUME NEW k \in i .. j - 1
        PROVE  Halves(rows[k])
    <3>1. /\ i \in 1 .. Len(rows) /\ j \in 1 .. Len(rows) /\ Len(rows) \in Nat
          /\ DOMAIN rows = 1 .. Len(rows)
      BY <1>1, RowTyped
    <3>2. k \in DOMAIN rows /\ k \in i .. j
      BY <3>1
    <3>3. rows[k].base % 2 = 1
      BY <1>1, <3>2, SameBase
    <3>4. rows[k].is_step
      BY <3>2 DEF Trace
    <3> QED
      BY <1>1, <3>2, <3>3, <3>4, OddHalves
  <2> QED
    BY <1>1, <2>1, TraceGives
<1> QED
  BY <1>1, Invariance, PTL
=============================================================================
