--------------------------- MODULE EvmCircuitProofs ---------------------------
(***************************************************************************)
(* Proofs about calls and their reversion, for calls of any depth, number  *)
(* of transactions, storage and values: no two rows share a counter, the   *)
(* rows of a slot are a history of it, and the rows that undo a failed call*)
(* restore the state it began with, that is, EvmCircuit implements         *)
(* SnapshotEvm.  Then, about the accounts while calls nest and fail: no    *)
(* ether is made or lost, the refund counter is never negative, and every  *)
(* value keeps its type.  Last, that the counters spent are the rows looked*)
(* up, in every block EndBlock has to count.  All of it holds where writes *)
(* are undone by error states, and by REVERT if there are none (Counted).  *)
(***************************************************************************)
EXTENDS EvmCircuit, SequenceTheorems, FiniteSetTheorems, WellFoundedInduction, TLAPS

\* The steps whose reversible writes all have counters to be undone at: the opcodes that
\* count them, and the ends of calls that skip counters for them, which REVERT does not
\* (the others are findings).
Counted ==
  /\ TouchOps \subseteq {"EXTCODESIZE"}
  /\ Precompiles = {} /\ NewAccounts = {}
  /\ ~RevertsWrites

-----------------------------------------------------------------------------
(* Induction over the natural numbers, for sets of them.                   *)

Less == {p \in Nat \X Nat : p[1] < p[2]}

LEMMA LessWellFounded == IsWellFoundedOn(Less, Nat)
BY NatLessThanWellFounded DEF OpToRel, Less

LEMMA Least ==
  ASSUME NEW T \in SUBSET Nat, T # {}
  PROVE  \E m \in T : \A n \in T : m <= n
<1>1. PICK m \in T : \A n \in T : <<n, m>> \notin Less
  BY LessWellFounded, WFMin
<1>2. \A n \in T : ~(n < m)
  BY <1>1 DEF Less
<1> QED
  BY <1>2

LEMMA Induct ==
  ASSUME NEW S, 0 \in S, \A n \in Nat : n \in S => n + 1 \in S
  PROVE  Nat \subseteq S
<1> SUFFICES ASSUME Nat \ S # {} PROVE FALSE
  OBVIOUS
<1>1. (Nat \ S) \in SUBSET Nat
  OBVIOUS
<1>2. PICK m \in Nat \ S : \A n \in Nat \ S : m <= n
  BY <1>1, Least
<1>3. m # 0 /\ m - 1 \in Nat
  BY <1>2
<1>4. m - 1 \in S
  BY <1>2, <1>3
<1> QED
  BY <1>3, <1>4

-----------------------------------------------------------------------------
(* Sets of rows and of pending writes.                                     *)

\* Rows have counters below c, each its own.
Placed(R, c) ==
  /\ \A r \in R : r.rwc < c
  /\ \A r, q \in R : r.rwc = q.rwc => r = q

\* Pending writes have distances below n, each its own.
Covered(P, n) ==
  /\ \A w \in P : w.off < n
  /\ \A w, v \in P : w.off = v.off => w = v

\* The earliest of the pending writes to a slot.
IsEarliest(w, P) == \A v \in P : v.slot = w.slot => w.off <= v.off

\* Undoing the writes of P leads from the values st back to entry: a slot with no
\* write has its value, and the earliest write of another found it there.
Undoes(P, entry, st) ==
  \A s \in Slots :
    \/ st[s] = entry[s] /\ \A w \in P : w.slot # s
    \/ \E w \in P : w.slot = s /\ w.prev = entry[s] /\ IsEarliest(w, P)

\* v is the next of the pending writes of P to its slot after w.
FollowsInCall(w, v, P) ==
  /\ v.slot = w.slot /\ w.off < v.off
  /\ \A u \in P : u.slot = w.slot /\ w.off < u.off => v.off <= u.off
IsLatest(w, P) == \A v \in P : v.slot = w.slot => v.off <= w.off

\* Each of the pending writes to a slot found what the one before it left there, and the
\* latest left what st has.
Chained(P, st) ==
  \A w \in P :
    /\ \A v \in P : FollowsInCall(w, v, P) => v.prev = w.val
    /\ IsLatest(w, P) => st[w.slot] = w.val

\* The same of rows, in the order of their counters; q is the one before r.
FollowsInTable(q, r, R) ==
  /\ q.slot = r.slot /\ q.rwc < r.rwc
  /\ \A p \in R : p.slot = r.slot /\ p.rwc < r.rwc => p.rwc <= q.rwc
IsFinal(r, R) == \A q \in R : q.slot = r.slot => q.rwc <= r.rwc

History(R, st) ==
  \A r \in R :
    /\ \A q \in R : FollowsInTable(q, r, R) => r.prev = q.val
    /\ IsFinal(r, R) => st[r.slot] = r.val

\* What the steps thread through their writes.
Traces == [state : [Slots -> Int], rows : SUBSET Rows, pending : SUBSET Pending]

\* A trace that began in state entry, whose next row goes to counter c or later and
\* whose next reversible write has distance n or more.
Sound(t, c, n, entry) ==
  /\ t \in Traces
  /\ Placed(t.rows, c) /\ Covered(t.pending, n) /\ Undoes(t.pending, entry, t.state)
  /\ History(t.rows, t.state) /\ Chained(t.pending, t.state)

\* A row more, after all others.
LEMMA HistoryExtended ==
  ASSUME NEW R \in SUBSET Rows, NEW c \in Nat, NEW d \in Nat, d >= c, Placed(R, c),
         NEW st \in [Slots -> Int], NEW slot \in Slots, NEW val \in Int, History(R, st)
  PROVE  History(R \cup {Row(d, slot, val, st[slot])}, [st EXCEPT ![slot] = val])
<1> DEFINE row == Row(d, slot, val, st[slot])
           S == R \cup {row}
           after == [st EXCEPT ![slot] = val]
<1>1. /\ row.rwc = d /\ row.slot = slot /\ row.val = val /\ row.prev = st[slot]
      /\ \A r \in R : r.rwc \in Nat /\ r.rwc < d /\ r.slot \in Slots
  BY DEF Row, Rows, Placed
<1>2. S = R \cup {row} /\ row \in S
  OBVIOUS
<1> HIDE DEF row, S
<1> SUFFICES ASSUME NEW r \in S
             PROVE  /\ \A q \in S : FollowsInTable(q, r, S) => r.prev = q.val
                    /\ IsFinal(r, S) => after[r.slot] = r.val
  BY <1>2 DEF History, row, S
<1>3. CASE r \in R
  <2>1. \A q \in S : FollowsInTable(q, r, S) => q \in R /\ FollowsInTable(q, r, R)
    BY <1>1, <1>2, <1>3 DEF FollowsInTable
  <2>2. IsFinal(r, S) => r.slot # slot /\ IsFinal(r, R)
    BY <1>1, <1>2, <1>3 DEF IsFinal
  <2> QED
    BY <1>1, <1>3, <2>1, <2>2 DEF History
<1>4. CASE r = row
  <2>1. ASSUME NEW q \in S, FollowsInTable(q, r, S)
        PROVE  r.prev = q.val
    <3>1. q \in R /\ q.slot = slot /\ IsFinal(q, R)
      BY <1>1, <1>2, <1>4, <2>1 DEF FollowsInTable, IsFinal
    <3> QED
      BY <1>1, <1>4, <3>1 DEF History
  <2> QED
    BY <1>1, <1>4, <2>1
<1> QED
  BY <1>2, <1>3, <1>4

\* A pending write more.
LEMMA ChainExtended ==
  ASSUME NEW P \in SUBSET Pending, NEW n \in Nat, NEW off \in Nat, off >= n, Covered(P, n),
         NEW st \in [Slots -> Int], NEW slot \in Slots, NEW val \in Int, Chained(P, st)
  PROVE  Chained(P \cup {[off |-> off, slot |-> slot, val |-> val, prev |-> st[slot]]},
                 [st EXCEPT ![slot] = val])
<1> DEFINE new == [off |-> off, slot |-> slot, val |-> val, prev |-> st[slot]]
           S == P \cup {new}
           after == [st EXCEPT ![slot] = val]
<1>1. /\ new.off = off /\ new.slot = slot /\ new.val = val /\ new.prev = st[slot]
      /\ \A w \in P : w.off \in Nat /\ w.off < off /\ w.slot \in Slots
  BY DEF Pending, Covered
<1>2. S = P \cup {new} /\ new \in S
  OBVIOUS
<1> HIDE DEF new, S
<1> SUFFICES ASSUME NEW w \in S
             PROVE  /\ \A v \in S : FollowsInCall(w, v, S) => v.prev = w.val
                    /\ IsLatest(w, S) => after[w.slot] = w.val
  BY <1>2 DEF Chained, new, S
<1>3. CASE w \in P
  <2>1. ASSUME NEW v \in S, FollowsInCall(w, v, S)
        PROVE  v.prev = w.val
    <3>1. CASE v \in P
      BY <1>2, <1>3, <2>1, <3>1 DEF FollowsInCall, Chained
    <3>2. CASE v = new
      <4>1. w.slot = slot /\ IsLatest(w, P)
        BY <1>1, <1>2, <1>3, <2>1, <3>2 DEF FollowsInCall, IsLatest
      <4> QED
        BY <1>1, <1>3, <3>2, <4>1 DEF Chained
    <3> QED
      BY <1>2, <3>1, <3>2
  <2>2. IsLatest(w, S) => w.slot # slot /\ IsLatest(w, P)
    BY <1>1, <1>2, <1>3 DEF IsLatest
  <2> QED
    BY <1>1, <1>3, <2>1, <2>2 DEF Chained
<1>4. CASE w = new
  <2>1. \A v \in S : ~FollowsInCall(w, v, S)
    BY <1>1, <1>2, <1>4 DEF FollowsInCall
  <2> QED
    BY <1>1, <1>4, <2>1
<1> QED
  BY <1>2, <1>3, <1>4

\* A reversible write keeps a trace sound.
LEMMA ReversibleWriteSound ==
  ASSUME NEW t, NEW c \in Nat, NEW n \in Nat, NEW entry \in [Slots -> Int],
         NEW d \in Nat, d >= c, NEW slot \in Slots, NEW val \in Int, NEW off \in Nat, off >= n,
         Sound(t, c, n, entry)
  PROVE  Sound(ReversibleWrite(t, d, slot, val, off), d + 1, off + 1, entry)
<1> DEFINE u == ReversibleWrite(t, d, slot, val, off)
           row == Row(d, slot, val, t.state[slot])
           new == [off |-> off, slot |-> slot, val |-> val, prev |-> t.state[slot]]
<1>1. t \in Traces /\ t.state \in [Slots -> Int] /\ t.rows \subseteq Rows /\ t.pending \subseteq Pending
  BY DEF Sound, Traces
<1>2. row \in Rows /\ row.rwc = d /\ new \in Pending
  BY <1>1 DEF Row, Rows, Pending
<1>3. /\ u.state = [t.state EXCEPT ![slot] = val]
      /\ u.rows = t.rows \cup {row}
      /\ u.pending = t.pending \cup {new}
      /\ u \in Traces
  BY <1>1, <1>2 DEF ReversibleWrite, Write, Traces
<1>4. Placed(u.rows, d + 1)
  BY <1>1, <1>2, <1>3 DEF Sound, Placed, Rows
<1>5. Covered(u.pending, off + 1)
  BY <1>1, <1>2, <1>3 DEF Sound, Covered, Pending
<1>6. Undoes(u.pending, entry, u.state)
  <2> SUFFICES ASSUME NEW s \in Slots
               PROVE  \/ u.state[s] = entry[s] /\ \A w \in u.pending : w.slot # s
                      \/ \E w \in u.pending : w.slot = s /\ w.prev = entry[s] /\ IsEarliest(w, u.pending)
    BY DEF Undoes
  <2>1. CASE \E w \in t.pending : w.slot = s /\ w.prev = entry[s] /\ IsEarliest(w, t.pending)
    <3>1. PICK w \in t.pending : w.slot = s /\ w.prev = entry[s] /\ IsEarliest(w, t.pending)
      BY <2>1
    <3>2. w.off <= new.off
      BY <1>1, <3>1 DEF Sound, Covered, Pending
    <3> QED
      BY <1>3, <3>1, <3>2 DEF IsEarliest
  <2>2. CASE t.state[s] = entry[s] /\ \A w \in t.pending : w.slot # s
    <3>1. CASE s = slot
      <4>1. new.slot = s /\ new.prev = entry[s] /\ new.off <= new.off
        BY <1>2, <2>2, <3>1
      <4>2. IsEarliest(new, u.pending)
        BY <1>3, <2>2, <4>1 DEF IsEarliest
      <4> QED
        BY <1>3, <4>1, <4>2
    <3>2. CASE s # slot
      BY <1>1, <1>3, <2>2, <3>2
    <3> QED
      BY <3>1, <3>2
  <2> QED
    BY <2>1, <2>2 DEF Sound, Undoes
<1>7. History(u.rows, u.state)
  BY <1>1, <1>3, HistoryExtended DEF Sound
<1>8. Chained(u.pending, u.state)
  BY <1>1, <1>3, ChainExtended, SMTT(30) DEF Sound
<1> QED
  BY <1>3, <1>4, <1>5, <1>6, <1>7, <1>8 DEF Sound

\* So does one that is not, as long as nothing is to be undone.
LEMMA WriteSound ==
  ASSUME NEW t, NEW c \in Nat, NEW n \in Nat, NEW entry,
         NEW d \in Nat, d >= c, NEW slot \in Slots, NEW val \in Int,
         Sound(t, c, n, entry), t.pending = {}
  PROVE  LET u == Write(t, d, slot, val)
         IN  /\ Sound(u, d + 1, n, u.state)
             /\ u.pending = {}
             /\ u.state = [t.state EXCEPT ![slot] = val]
<1> DEFINE u == Write(t, d, slot, val)
           row == Row(d, slot, val, t.state[slot])
<1>1. t \in Traces /\ t.state \in [Slots -> Int] /\ t.rows \subseteq Rows
  BY DEF Sound, Traces
<1>2. row \in Rows /\ row.rwc = d
  BY <1>1 DEF Row, Rows
<1>3. /\ u.state = [t.state EXCEPT ![slot] = val]
      /\ u.rows = t.rows \cup {row}
      /\ u.pending = {}
      /\ u \in Traces
  BY <1>1, <1>2 DEF Write, Traces
<1>4. Placed(u.rows, d + 1)
  BY <1>1, <1>2, <1>3 DEF Sound, Placed, Rows
<1>5. History(u.rows, u.state)
  BY <1>1, <1>3, HistoryExtended DEF Sound
<1> QED
  BY <1>3, <1>4, <1>5 DEF Sound, Covered, Undoes, Chained

\* Counters and distances may be left out.
LEMMA SoundLater ==
  ASSUME NEW t, NEW c \in Nat, NEW n \in Nat, NEW entry,
         NEW d \in Nat, d >= c, NEW m \in Nat, m >= n,
         Sound(t, c, n, entry)
  PROVE  Sound(t, d, m, entry)
<1>1. t.rows \subseteq Rows /\ t.pending \subseteq Pending
  BY DEF Sound, Traces
<1>2. (\A r \in t.rows : r.rwc \in Nat) /\ \A w \in t.pending : w.off \in Nat
  BY <1>1 DEF Rows, Pending
<1> QED
  BY <1>2 DEF Sound, Placed, Covered

\* Both together, for the steps below.
LEMMA Reversible ==
  ASSUME NEW t, NEW c \in Nat, NEW n \in Nat, NEW entry \in [Slots -> Int],
         NEW d \in Nat, d >= c, NEW slot \in Slots, NEW val \in Int, NEW off \in Nat, off >= n,
         Sound(t, c, n, entry),
         NEW e \in Nat, e > d, NEW m \in Nat, m > off
  PROVE  Sound(ReversibleWrite(t, d, slot, val, off), e, m, entry)
<1> DEFINE u == ReversibleWrite(t, d, slot, val, off)
<1>1. Sound(u, d + 1, off + 1, entry)
  BY ReversibleWriteSound
<1>2. d + 1 \in Nat /\ off + 1 \in Nat /\ e >= d + 1 /\ m >= off + 1
  OBVIOUS
<1> HIDE DEF u
<1>3. Sound(u, e, m, entry)
  BY <1>1, <1>2, SoundLater
<1> QED
  BY <1>3 DEF u

-----------------------------------------------------------------------------
(* The end of a call.                                                      *)

\* An undoing row is that of a pending write.
LEMMA UndoRow ==
  ASSUME NEW P, NEW end
  PROVE  /\ \A w \in P : Row(end - w.off, w.slot, w.prev, w.val) \in UndoRows(P, end)
         /\ \A r \in UndoRows(P, end) : \E w \in P : r = Row(end - w.off, w.slot, w.prev, w.val)
BY DEF UndoRows, rw_counter_of_reversion

\* The rows that undo a call fit between the counters before and after.
LEMMA UndoPlaced ==
  ASSUME NEW R \in SUBSET Rows, NEW P \in SUBSET Pending, NEW c \in Nat, NEW n \in Nat,
         Placed(R, c), Covered(P, n)
  PROVE  LET undone == R \cup UndoRows(P, c + n - 1)
         IN  undone \subseteq Rows /\ Placed(undone, c + n)
<1> DEFINE end == c + n - 1
           undo == UndoRows(P, end)
<1>1. \A r \in R : r \in Rows /\ r.rwc \in Nat
  BY DEF Rows
<1>2. \A w \in P : w.off \in Nat /\ w.slot \in Slots /\ w.val \in Int /\ w.prev \in Int
  BY DEF Pending
<1>3. end = c + n - 1
  OBVIOUS
<1> HIDE DEF end
<1>4. \A r \in undo : \E w \in P : r = Row(end - w.off, w.slot, w.prev, w.val)
  BY UndoRow
<1>5. \A r \in undo : r \in Rows /\ r.rwc >= c /\ r.rwc < c + n
  BY <1>2, <1>3, <1>4 DEF Row, Rows, Covered
<1>6. \A r, q \in undo : r.rwc = q.rwc => r = q
  <2> TAKE r, q \in undo
  <2> HAVE r.rwc = q.rwc
  <2>1. PICK w \in P, v \in P : /\ r = Row(end - w.off, w.slot, w.prev, w.val)
                                /\ q = Row(end - v.off, v.slot, v.prev, v.val)
    BY <1>4
  <2>2. w.off = v.off
    BY <1>2, <1>3, <2>1 DEF Row
  <2> QED
    BY <2>1, <2>2 DEF Covered
<1> QED
  BY <1>1, <1>3, <1>5, <1>6 DEF Placed

\* And they put back the state the call began with.
LEMMA UndoRestores ==
  ASSUME NEW P \in SUBSET Pending, NEW n \in Nat, NEW end \in Int,
         NEW entry \in [Slots -> Int], NEW st \in [Slots -> Int],
         Covered(P, n), Undoes(P, entry, st)
  PROVE  Replayed(st, UndoRows(P, end)) = entry
<1> DEFINE undo == UndoRows(P, end)
           UndoOf(w) == Row(end - w.off, w.slot, w.prev, w.val)
           Mine(s) == {r \in undo : r.slot = s}
<1>1. \A w \in P : w.off \in Nat
  BY DEF Pending
<1>2. /\ \A w \in P : UndoOf(w) \in undo
      /\ \A r \in undo : \E w \in P : r = UndoOf(w)
  BY UndoRow
<1>3. \A w : UndoOf(w).rwc = end - w.off /\ UndoOf(w).slot = w.slot /\ UndoOf(w).val = w.prev
  BY DEF Row
<1> HIDE DEF UndoOf, undo
<1>4. \A s \in Slots : (IF Mine(s) = {} THEN st[s]
                         ELSE (CHOOSE r \in Mine(s) : \A q \in Mine(s) : q.rwc <= r.rwc).val) = entry[s]
  <2> TAKE s \in Slots
  <2>1. CASE st[s] = entry[s] /\ \A w \in P : w.slot # s
    <3>1. Mine(s) = {}
      BY <1>2, <1>3, <2>1
    <3> QED
      BY <2>1, <3>1
  <2>2. CASE \E w \in P : w.slot = s /\ w.prev = entry[s] /\ IsEarliest(w, P)
    <3>1. PICK w \in P : w.slot = s /\ w.prev = entry[s] /\ IsEarliest(w, P)
      BY <2>2
    <3>2. UndoOf(w) \in Mine(s)
      BY <1>2, <1>3, <3>1
    <3>3. \A q \in Mine(s) : q.rwc <= UndoOf(w).rwc
      <4> TAKE q \in Mine(s)
      <4>1. PICK v \in P : q = UndoOf(v)
        BY <1>2
      <4>2. w.off <= v.off
        BY <1>3, <3>1, <4>1 DEF IsEarliest
      <4> QED
        BY <1>1, <1>3, <4>1, <4>2
    <3>4. \A r \in Mine(s) : (\A q \in Mine(s) : q.rwc <= r.rwc) => r.val = entry[s]
      <4> TAKE r \in Mine(s)
      <4> HAVE \A q \in Mine(s) : q.rwc <= r.rwc
      <4>1. PICK v \in P : r = UndoOf(v)
        BY <1>2
      <4>2. r.rwc <= UndoOf(w).rwc /\ UndoOf(w).rwc <= r.rwc
        BY <3>2, <3>3
      <4>3. v.off = w.off
        BY <1>1, <1>3, <4>1, <4>2
      <4> QED
        BY <1>3, <3>1, <4>1, <4>3 DEF Covered
    <3> DEFINE last == CHOOSE r \in Mine(s) : \A q \in Mine(s) : q.rwc <= r.rwc
    <3>5. last \in Mine(s) /\ \A q \in Mine(s) : q.rwc <= last.rwc
      BY <3>2, <3>3
    <3>6. last.val = entry[s]
      BY <3>4, <3>5
    <3> QED
      BY <3>2, <3>6
  <2> QED
    BY <2>1, <2>2 DEF Undoes
<1>5. Replayed(st, undo) = [s \in Slots |-> entry[s]]
  BY <1>4 DEF Replayed
<1> QED
  BY <1>5 DEF undo

\* The undoing rows go on with the history: the first of a slot overwrites what the call
\* left, each of the others what the one before it put back, and the last leaves the entry.
LEMMA UndoHistory ==
  ASSUME NEW R \in SUBSET Rows, NEW P \in SUBSET Pending, NEW c \in Nat, NEW n \in Nat,
         NEW entry \in [Slots -> Int], NEW st \in [Slots -> Int],
         Placed(R, c), Covered(P, n), Undoes(P, entry, st), History(R, st), Chained(P, st)
  PROVE  History(R \cup UndoRows(P, c + n - 1), entry)
<1> DEFINE end == c + n - 1
           undo == UndoRows(P, end)
           UndoOf(w) == Row(end - w.off, w.slot, w.prev, w.val)
           all == R \cup undo
<1>1. /\ \A w \in P : w.off \in Nat /\ w.off < n /\ w.slot \in Slots
      /\ \A r \in R : r.rwc \in Nat /\ r.rwc < c /\ r.slot \in Slots
      /\ end = c + n - 1
  BY DEF Pending, Rows, Covered, Placed
<1>2. /\ \A w \in P : UndoOf(w) \in undo
      /\ \A r \in undo : \E w \in P : r = UndoOf(w)
  BY UndoRow
<1>3. \A w : /\ UndoOf(w).rwc = end - w.off /\ UndoOf(w).slot = w.slot
             /\ UndoOf(w).val = w.prev /\ UndoOf(w).prev = w.val
  BY DEF Row
<1>4. all = R \cup undo
  OBVIOUS
<1> HIDE DEF UndoOf, undo, end, all
<1>5. \A w \in P, r \in R : r.rwc < UndoOf(w).rwc
  BY <1>1, <1>3
<1>6. ASSUME NEW w \in P, NEW q \in all, FollowsInTable(q, UndoOf(w), all)
      PROVE  w.val = q.val
  <2>1. CASE q \in R
    <3>1. IsFinal(q, R)
      BY <1>3, <1>4, <1>5, <1>6 DEF IsFinal, FollowsInTable
    <3>2. IsLatest(w, P)
      <4> SUFFICES ASSUME NEW v \in P, v.slot = w.slot, ~(v.off <= w.off)
                   PROVE  FALSE
        BY DEF IsLatest
      <4>1. UndoOf(v).rwc < UndoOf(w).rwc
        BY <1>1, <1>3
      <4>2. UndoOf(v).rwc <= q.rwc /\ q.rwc < UndoOf(v).rwc
        BY <1>2, <1>3, <1>4, <1>5, <1>6, <2>1, <4>1 DEF FollowsInTable
      <4>3. q.rwc \in Int /\ UndoOf(v).rwc \in Int
        BY <1>1, <1>3, <2>1
      <4> QED
        BY <4>2, <4>3
    <3> QED
      BY <1>3, <1>6, <2>1, <3>1, <3>2 DEF History, Chained, FollowsInTable
  <2>2. CASE q \in undo
    <3>1. PICK v \in P : q = UndoOf(v)
      BY <1>2, <2>2
    <3>2. FollowsInCall(w, v, P)
      <4>1. v.slot = w.slot /\ w.off < v.off
        BY <1>1, <1>3, <1>6, <3>1 DEF FollowsInTable
      <4>2. ASSUME NEW u \in P, u.slot = w.slot, w.off < u.off
            PROVE  v.off <= u.off
        <5>1. UndoOf(u) \in all /\ UndoOf(u).slot = UndoOf(w).slot /\ UndoOf(u).rwc < UndoOf(w).rwc
          BY <1>1, <1>2, <1>3, <1>4, <4>2
        <5>2. UndoOf(u).rwc <= UndoOf(v).rwc
          BY <1>6, <3>1, <5>1 DEF FollowsInTable
        <5> QED
          BY <1>1, <1>3, <5>2
      <4> QED
        BY <4>1, <4>2 DEF FollowsInCall
    <3> QED
      BY <1>3, <3>1, <3>2 DEF Chained
  <2> QED
    BY <1>4, <2>1, <2>2
<1>7. ASSUME NEW w \in P, IsFinal(UndoOf(w), all)
      PROVE  entry[w.slot] = w.prev
  <2>1. IsEarliest(w, P)
    <3> SUFFICES ASSUME NEW v \in P, v.slot = w.slot
                 PROVE  w.off <= v.off
      BY DEF IsEarliest
    <3>1. UndoOf(v).rwc <= UndoOf(w).rwc
      BY <1>2, <1>3, <1>4, <1>7 DEF IsFinal
    <3> QED
      BY <1>1, <1>3, <3>1
  <2>2. PICK x \in P : x.slot = w.slot /\ x.prev = entry[w.slot] /\ IsEarliest(x, P)
    BY <1>1 DEF Undoes
  <2>3. x = w
    BY <1>1, <2>1, <2>2 DEF IsEarliest, Covered
  <2> QED
    BY <2>2, <2>3
<1>8. ASSUME NEW r \in R, NEW q \in all, FollowsInTable(q, r, all)
      PROVE  r.prev = q.val
  <2>1. q \in R
    <3> SUFFICES ASSUME q \in undo
                 PROVE  FALSE
      BY <1>4
    <3>1. PICK v \in P : q = UndoOf(v)
      BY <1>2
    <3>2. r.rwc < q.rwc /\ q.rwc < r.rwc /\ r.rwc \in Int /\ q.rwc \in Int
      BY <1>1, <1>3, <1>5, <1>8, <3>1 DEF FollowsInTable
    <3> QED
      BY <3>2
  <2> QED
    BY <1>4, <1>8, <2>1 DEF FollowsInTable, History
<1>9. ASSUME NEW r \in R, IsFinal(r, all)
      PROVE  entry[r.slot] = r.val
  <2>1. \A w \in P : w.slot # r.slot
    <3> SUFFICES ASSUME NEW w \in P, w.slot = r.slot
                 PROVE  FALSE
      OBVIOUS
    <3>1. UndoOf(w).rwc <= r.rwc /\ r.rwc < UndoOf(w).rwc /\ r.rwc \in Int /\ UndoOf(w).rwc \in Int
      BY <1>1, <1>2, <1>3, <1>4, <1>5, <1>9 DEF IsFinal
    <3> QED
      BY <3>1
  <2>2. st[r.slot] = entry[r.slot]
    BY <1>1, <2>1 DEF Undoes
  <2> QED
    BY <1>4, <1>9, <2>2 DEF History, IsFinal
<1>10. History(all, entry)
  <2> SUFFICES ASSUME NEW r \in all
               PROVE  /\ \A q \in all : FollowsInTable(q, r, all) => r.prev = q.val
                      /\ IsFinal(r, all) => entry[r.slot] = r.val
    BY DEF History
  <2>1. CASE r \in R
    BY <1>8, <1>9, <2>1
  <2>2. CASE r \in undo
    <3>1. PICK w \in P : r = UndoOf(w)
      BY <1>2, <2>2
    <3> QED
      BY <1>3, <1>6, <1>7, <3>1
  <2> QED
    BY <1>4, <2>1, <2>2
<1> QED
  BY <1>10 DEF all, undo, end

\* Nothing to undo, nothing changed.
LEMMA NothingReplayed ==
  ASSUME NEW st \in [Slots -> Int]
  PROVE  Replayed(st, {}) = st
BY DEF Replayed

\* The pending writes of a call and those of its successful callee, further from the
\* end by the distance of the two ends, undo both.
LEMMA HandedOver ==
  ASSUME NEW caller, NEW callee, NEW n \in Nat, caller.base \in Nat,
         NEW first \in [Slots -> Int], NEW second \in [Slots -> Int], NEW st \in [Slots -> Int],
         caller.pending \subseteq Pending, callee.pending \subseteq Pending,
         Covered(caller.pending, caller.base), Undoes(caller.pending, first, second),
         Covered(callee.pending, n), Undoes(callee.pending, second, st),
         Chained(caller.pending, second), Chained(callee.pending, st)
  PROVE  LET both == handed_over(caller, callee)
         IN  /\ both \subseteq Pending
             /\ Covered(both, caller.base + n)
             /\ Undoes(both, first, st)
             /\ Chained(both, st)
<1> DEFINE base == caller.base
           P == caller.pending
           Q == callee.pending
           Moved(w) == [w EXCEPT !.off = @ + base]
           both == handed_over(caller, callee)
<1>1. \A w \in P \cup Q : w.off \in Nat /\ w \in Pending
  BY DEF Pending
<1>2. \A w \in Q : /\ Moved(w) \in Pending /\ Moved(w).off = w.off + base
                   /\ Moved(w).slot = w.slot /\ Moved(w).prev = w.prev /\ Moved(w).val = w.val
  BY DEF Pending
<1>3. /\ \A w \in Q : Moved(w) \in both
      /\ P \subseteq both
      /\ \A w \in both : w \in P \/ \E v \in Q : w = Moved(v)
  BY DEF handed_over
<1> HIDE DEF Moved, both
<1>4. both \subseteq Pending
  BY <1>1, <1>2, <1>3
<1>5. Covered(both, base + n)
  <2>1. \A w \in both : w.off < base + n
    BY <1>1, <1>2, <1>3 DEF Covered
  <2>2. \A w, v \in both : w.off = v.off => w = v
    <3> TAKE w, v \in both
    <3> HAVE w.off = v.off
    <3>1. CASE w \in P /\ v \in P
      BY <3>1 DEF Covered
    <3>2. CASE \E x \in Q, y \in Q : w = Moved(x) /\ v = Moved(y)
      BY <1>1, <1>2, <3>2 DEF Covered
    <3>3. CASE (w \in P /\ \E y \in Q : v = Moved(y)) \/ (v \in P /\ \E y \in Q : w = Moved(y))
      BY <1>1, <1>2, <3>3 DEF Covered
    <3> QED
      BY <1>3, <3>1, <3>2, <3>3
  <2> QED
    BY <2>1, <2>2 DEF Covered
<1>6. Undoes(both, first, st)
  <2> SUFFICES ASSUME NEW s \in Slots
               PROVE  \/ st[s] = first[s] /\ \A w \in both : w.slot # s
                      \/ \E w \in both : w.slot = s /\ w.prev = first[s] /\ IsEarliest(w, both)
    BY DEF Undoes
  <2>1. CASE \E w \in P : w.slot = s /\ w.prev = first[s] /\ IsEarliest(w, P)
    <3>1. PICK w \in P : w.slot = s /\ w.prev = first[s] /\ IsEarliest(w, P)
      BY <2>1
    <3>2. \A v \in Q : w.off <= Moved(v).off
      BY <1>1, <1>2 DEF Covered
    <3>3. IsEarliest(w, both)
      BY <1>3, <3>1, <3>2 DEF IsEarliest
    <3> QED
      BY <1>3, <3>1, <3>3
  <2>2. CASE second[s] = first[s] /\ \A w \in P : w.slot # s
    <3>1. CASE st[s] = second[s] /\ \A w \in Q : w.slot # s
      BY <1>2, <1>3, <2>2, <3>1
    <3>2. CASE \E w \in Q : w.slot = s /\ w.prev = second[s] /\ IsEarliest(w, Q)
      <4>1. PICK w \in Q : w.slot = s /\ w.prev = second[s] /\ IsEarliest(w, Q)
        BY <3>2
      <4>2. IsEarliest(Moved(w), both)
        <5> SUFFICES ASSUME NEW v \in both, v.slot = Moved(w).slot
                     PROVE  Moved(w).off <= v.off
          BY DEF IsEarliest
        <5>1. PICK x \in Q : v = Moved(x)
          BY <1>2, <1>3, <2>2, <4>1
        <5> QED
          BY <1>1, <1>2, <4>1, <5>1 DEF IsEarliest
      <4> QED
        BY <1>2, <1>3, <2>2, <4>1, <4>2
    <3> QED
      BY <3>1, <3>2 DEF Undoes
  <2> QED
    BY <2>1, <2>2 DEF Undoes
<1>7. \A w \in P : w.off < base
  BY DEF Covered
<1>8. Chained(both, st)
  <2>1. ASSUME NEW w \in P, NEW v \in both, FollowsInCall(w, v, both)
        PROVE  v.prev = w.val
    <3>1. CASE v \in P
      BY <1>3, <2>1, <3>1 DEF FollowsInCall, Chained
    <3>2. CASE \E y \in Q : v = Moved(y)
      <4>1. PICK y \in Q : v = Moved(y)
        BY <3>2
      <4>2. IsLatest(w, P)
        <5> SUFFICES ASSUME NEW x \in P, x.slot = w.slot, ~(x.off <= w.off)
                     PROVE  FALSE
          BY DEF IsLatest
        <5>1. v.off <= x.off /\ x.off < base /\ v.off = y.off + base
          BY <1>1, <1>2, <1>3, <1>7, <2>1, <4>1 DEF FollowsInCall
        <5> QED
          BY <1>1, <5>1
      <4>3. second[w.slot] = w.val /\ y.slot = w.slot /\ w.slot \in Slots
        BY <1>1, <1>2, <2>1, <4>1, <4>2 DEF Chained, FollowsInCall, Pending
      <4>4. IsEarliest(y, Q)
        <5> SUFFICES ASSUME NEW x \in Q, x.slot = y.slot
                     PROVE  y.off <= x.off
          BY DEF IsEarliest
        <5>1. Moved(x) \in both /\ Moved(x).slot = w.slot /\ w.off < Moved(x).off
          BY <1>1, <1>2, <1>3, <1>7, <4>3
        <5>2. Moved(y).off <= Moved(x).off
          BY <2>1, <4>1, <5>1 DEF FollowsInCall
        <5> QED
          BY <1>1, <1>2, <5>2
      <4>5. y.prev = second[w.slot]
        <5>1. PICK x \in Q : x.slot = w.slot /\ x.prev = second[w.slot] /\ IsEarliest(x, Q)
          BY <4>3 DEF Undoes
        <5>2. x.off <= y.off /\ y.off <= x.off
          BY <4>3, <4>4, <5>1 DEF IsEarliest
        <5>3. x = y
          BY <1>1, <5>2 DEF Covered
        <5> QED
          BY <5>1, <5>3
      <4> QED
        BY <1>2, <4>1, <4>3, <4>5
    <3> QED
      BY <1>3, <3>1, <3>2
  <2>2. ASSUME NEW x \in Q, NEW v \in both, FollowsInCall(Moved(x), v, both)
        PROVE  v.prev = Moved(x).val
    <3>1. v \notin P
      BY <1>1, <1>2, <1>7, <2>2 DEF FollowsInCall
    <3>2. PICK y \in Q : v = Moved(y)
      BY <1>3, <3>1
    <3>3. FollowsInCall(x, y, Q)
      <4>1. y.slot = x.slot /\ x.off < y.off
        BY <1>1, <1>2, <2>2, <3>2 DEF FollowsInCall
      <4>2. ASSUME NEW u \in Q, u.slot = x.slot, x.off < u.off
            PROVE  y.off <= u.off
        <5>1. Moved(u) \in both /\ Moved(u).slot = Moved(x).slot /\ Moved(x).off < Moved(u).off
          BY <1>1, <1>2, <1>3, <4>2
        <5>2. Moved(y).off <= Moved(u).off
          BY <2>2, <3>2, <5>1 DEF FollowsInCall
        <5> QED
          BY <1>1, <1>2, <5>2
      <4> QED
        BY <4>1, <4>2 DEF FollowsInCall
    <3> QED
      BY <1>2, <3>2, <3>3 DEF Chained
  <2>3. ASSUME NEW w \in P, IsLatest(w, both)
        PROVE  st[w.slot] = w.val
    <3>1. IsLatest(w, P) /\ w.slot \in Slots
      BY <1>1, <1>3, <2>3 DEF IsLatest, Pending
    <3>2. \A x \in Q : x.slot # w.slot
      BY <1>1, <1>2, <1>3, <1>7, <2>3 DEF IsLatest
    <3>3. st[w.slot] = second[w.slot]
      BY <3>1, <3>2 DEF Undoes
    <3> QED
      BY <3>1, <3>3 DEF Chained
  <2>4. ASSUME NEW x \in Q, IsLatest(Moved(x), both)
        PROVE  st[x.slot] = x.val
    <3>1. IsLatest(x, Q)
      <4> SUFFICES ASSUME NEW u \in Q, u.slot = x.slot
                   PROVE  u.off <= x.off
        BY DEF IsLatest
      <4>1. Moved(u).off <= Moved(x).off
        BY <1>2, <1>3, <2>4 DEF IsLatest
      <4> QED
        BY <1>1, <1>2, <4>1
    <3> QED
      BY <3>1 DEF Chained
  <2> QED
    BY <1>2, <1>3, <2>1, <2>2, <2>3, <2>4 DEF Chained
<1> QED
  BY <1>4, <1>5, <1>6, <1>8 DEF both

-----------------------------------------------------------------------------
(* The inductive invariant.                                                *)

\* The calls in progress, all of contracts.
CallFrames ==
  [op : {"BeginTx"} \cup CallOps, id : Nat, addr : Contracts, caller : Accounts,
   static : BOOLEAN, entry : [Slots -> Int], pending : SUBSET Pending, base : Nat, saved : Nat,
   outcomes : {BOOLEAN}]

Types ==
  /\ execution_state \in {"BeginTx", "Run", "EndTx", "EndBlock", "Done"}
  /\ rw_counter \in Nat /\ reversible_write_counter \in Nat
  /\ frames \in Seq(CallFrames)
  /\ frames # <<>> <=> execution_state = "Run"
  /\ tx \in [id : TxIds, invalid : BOOLEAN, persistent : BOOLEAN]
  /\ state \in [Slots -> Int] /\ committed \in [Slots -> Int]
  /\ rows \subseteq Rows
  /\ is_success \in BOOLEAN

\* The counter a call has come to: its own while it runs, and where the end of its
\* callee lies while it waits.
Counter(i) == IF i = Len(frames) THEN reversible_write_counter ELSE frames[i].base

\* The state a call has left: the present one, or that its callee began with.
Seen(i) == IF i = Len(frames) THEN state ELSE frames[i + 1].entry

\* Each call's counter covers its pending writes, which are a chain, and undoing them leads
\* back to its entry; a call that waits has saved its counter.
FramesInv ==
  \A i \in DOMAIN frames :
    /\ Covered(frames[i].pending, Counter(i))
    /\ Undoes(frames[i].pending, frames[i].entry, Seen(i))
    /\ Chained(frames[i].pending, Seen(i))
    /\ i < Len(frames) => frames[i].saved = frames[i].base

\* Where the rows end: at the counter, and once the block is done after what EndBlock
\* has looked up and paid.
RowsEnd ==
  IF execution_state = "Done" THEN rw_counter + 2 + total_withdrawals ELSE rw_counter

IInv == Types /\ Placed(rows, RowsEnd) /\ History(rows, state) /\ FramesInv

\* A step keeps the invariant and is one of SnapshotEvm.
Refines == IInv' /\ Snapshots!Next

LEMMA SlotsAreSlots ==
  /\ \A a \in Accounts : Balance(a) \in Slots
  /\ \A t \in TxIds, a \in Accounts : AccessListAccount(t, a) \in Slots
  /\ \A a \in Contracts, k \in StorageKeys : Storage(a, k) \in Slots
  /\ \A t \in TxIds, a \in Contracts, k \in StorageKeys : AccessListStorage(t, a, k) \in Slots
  /\ \A t \in TxIds : Refund(t) \in Slots /\ CumulativeGasUsed(t) \in Slots
  /\ Nonce(Sender) \in Slots
BY DEF Slots

LEMMA AccountsAreAccounts ==
  Contracts \subseteq Accounts /\ Plain \subseteq Accounts /\ Sender \in Accounts /\ Coinbase \in Accounts
BY DEF Accounts

LEMMA RowsBelow ==
  ASSUME IInv, execution_state # "Done"
  PROVE  Placed(rows, rw_counter)
BY DEF IInv, RowsEnd

\* While a call runs, its state, rows and pending writes are a sound trace.
LEMMA TopSound ==
  ASSUME IInv, Running
  PROVE  /\ Len(frames) \in DOMAIN frames /\ Len(frames) \in Nat \ {0}
         /\ Top \in CallFrames
         /\ Sound(Here, rw_counter, reversible_write_counter, Top.entry)
<1>1. frames # <<>> /\ frames \in Seq(CallFrames)
  BY DEF IInv, Types, Running
<1>2. Len(frames) \in DOMAIN frames /\ Len(frames) \in Nat \ {0} /\ Top \in CallFrames
  BY <1>1 DEF Top
<1>3. Top.pending \subseteq Pending
  BY <1>2 DEF CallFrames
<1>4. Here \in Traces
  BY <1>3 DEF Here, Traces, IInv, Types
<1>5. /\ Covered(Top.pending, reversible_write_counter) /\ Undoes(Top.pending, Top.entry, state)
      /\ Chained(Top.pending, state)
  BY <1>2 DEF IInv, FramesInv, Counter, Seen, Top
<1>6. Placed(rows, rw_counter)
  BY RowsBelow DEF Running
<1> QED
  BY <1>2, <1>4, <1>5, <1>6 DEF Here, Sound, IInv

\* A step that stays in its call.
LEMMA SameContextRefines ==
  ASSUME IInv, Running, NEW t, NEW n, NEW rw \in Nat, NEW rev \in Nat,
         Sound(t, rw_counter + rw, reversible_write_counter + rev, Top.entry),
         SameContext(t, n, rw, rev)
  PROVE  Refines
<1> DEFINE L == Len(frames)
           new == [Top EXCEPT !.pending = t.pending, !.outcomes = Top.outcomes]
<1>1. L \in DOMAIN frames /\ L \in Nat \ {0} /\ Top \in CallFrames /\ frames \in Seq(CallFrames)
  BY TopSound DEF IInv, Types
<1>2. t.state \in [Slots -> Int] /\ t.rows \subseteq Rows /\ t.pending \subseteq Pending
  BY DEF Sound, Traces
<1>3. /\ state' = t.state /\ rows' = t.rows
      /\ rw_counter' = rw_counter + rw
      /\ reversible_write_counter' = reversible_write_counter + rev
      /\ UNCHANGED <<execution_state, tx, committed, is_success>>
      /\ frames' = [frames EXCEPT ![L].pending = t.pending, ![L].outcomes = Top.outcomes]
  BY DEF SameContext, StaysInCall
<1>4. frames' = [frames EXCEPT ![L] = new]
  BY <1>1, <1>3 DEF Top
<1>5. new \in CallFrames /\ new.pending = t.pending /\ new.entry = Top.entry
  BY <1>1, <1>2 DEF CallFrames
<1> HIDE DEF new
<1>6. /\ frames' \in Seq(CallFrames) /\ Len(frames') = L /\ DOMAIN frames' = DOMAIN frames
      /\ frames'[L] = new
      /\ \A i \in DOMAIN frames : i # L => frames'[i] = frames[i]
  BY <1>1, <1>4, <1>5
<1>7. Types'
  BY <1>1, <1>2, <1>3, <1>6 DEF IInv, Types
<1>8. Placed(rows, RowsEnd)' /\ History(rows, state)'
  BY <1>3 DEF Sound, RowsEnd, Running
<1>9. FramesInv'
  <2> SUFFICES ASSUME NEW i \in DOMAIN frames
               PROVE  /\ Covered(frames'[i].pending, Counter(i)')
                      /\ Undoes(frames'[i].pending, frames'[i].entry, Seen(i)')
                      /\ Chained(frames'[i].pending, Seen(i)')
                      /\ i < L => frames'[i].saved = frames'[i].base
    BY <1>6 DEF FramesInv
  <2>1. CASE i = L
    BY <1>3, <1>5, <1>6, <2>1 DEF Sound, Counter, Seen
  <2>2. CASE i # L
    <3>1. i \in 1 .. L - 1
      BY <1>1, <2>2
    <3>2. frames'[i] = frames[i] /\ frames'[i + 1].entry = frames[i + 1].entry
      BY <1>1, <1>5, <1>6, <3>1 DEF Top
    <3> QED
      BY <1>6, <2>2, <3>2 DEF IInv, FramesInv, Counter, Seen
  <2> QED
    BY <2>1, <2>2
<1>10. Snapshots!Next
  <2>1. [i \in DOMAIN frames |-> frames[i].entry]' = [i \in DOMAIN frames |-> frames[i].entry]
    BY <1>1, <1>5, <1>6 DEF Top
  <2> QED
    BY <1>2, <1>3, <2>1 DEF Snapshots!Next, Snapshots!Execute
<1> QED
  BY <1>7, <1>8, <1>9, <1>10 DEF IInv, Refines

-----------------------------------------------------------------------------
(* The steps that stay in their call.                                      *)

LEMMA SloadRefines ==
  ASSUME IInv, Sload
  PROVE  Refines
<1>1. PICK k \in StorageKeys : sload(k)
  BY DEF Sload
<1>2. Running
  BY DEF Sload, MayExecute
<1> DEFINE slot == AccessListStorage(tx.id, Top.addr, k)
           t == ReversibleWrite(Here, rw_counter + 7, slot, 1, reversible_write_counter)
<1>3. /\ rw_counter \in Nat /\ reversible_write_counter \in Nat
      /\ Top.entry \in [Slots -> Int] /\ slot \in Slots
  BY <1>2, TopSound, SlotsAreSlots DEF IInv, Types, CallFrames
<1>4. Sound(t, rw_counter + 8, reversible_write_counter + 1, Top.entry)
  BY <1>2, <1>3, TopSound, Reversible
<1>5. SameContext(t, 8, 8, 1)
  BY <1>1 DEF sload
<1> QED
  BY <1>2, <1>4, <1>5, SameContextRefines

LEMMA GasRefundType ==
  ASSUME ConstantsAssumption, NEW original \in Int, NEW prev \in Int, NEW val \in Int, NEW refund \in Int
  PROVE  gas_refund(original, prev, val, refund) \in Int
BY DEF gas_refund, ConstantsAssumption

LEMMA SstoreRefines ==
  ASSUME ConstantsAssumption, IInv, Sstore
  PROVE  Refines
<1>1. PICK k \in StorageKeys, v \in Values : sstore(k, v)
  BY DEF Sstore
<1>2. Running
  BY DEF Sstore, MayExecute
<1> DEFINE r == reversible_write_counter
           slot == Storage(Top.addr, k)
           warm == AccessListStorage(tx.id, Top.addr, k)
           refund == gas_refund(committed[slot], state[slot], v, state[Refund(tx.id)])
           stored == ReversibleWrite(Here, rw_counter + 7, slot, v, r)
           warmed == ReversibleWrite(stored, rw_counter + 8, warm, 1, r + 1)
           refunded == ReversibleWrite(warmed, rw_counter + 9, Refund(tx.id), refund, r + 2)
<1>3. /\ rw_counter \in Nat /\ r \in Nat /\ v \in Int
      /\ Top.entry \in [Slots -> Int]
      /\ slot \in Slots /\ warm \in Slots /\ Refund(tx.id) \in Slots
  <2>1. v \in Int
    BY DEF ConstantsAssumption
  <2> QED
    BY <1>2, <2>1, TopSound, SlotsAreSlots DEF IInv, Types, CallFrames
<1>4. refund \in Int
  <2>1. committed[slot] \in Int /\ state[slot] \in Int /\ state[Refund(tx.id)] \in Int
    BY <1>3 DEF IInv, Types
  <2> QED
    BY <1>3, <2>1, GasRefundType
<1>5. Sound(stored, rw_counter + 8, r + 1, Top.entry)
  BY <1>2, <1>3, TopSound, Reversible
<1> HIDE DEF slot, warm, refund, stored
<1>6. Sound(warmed, rw_counter + 9, r + 2, Top.entry)
  BY <1>3, <1>5, Reversible
<1> HIDE DEF warmed
<1>7. Sound(refunded, rw_counter + 10, r + 3, Top.entry)
  BY <1>3, <1>4, <1>6, Reversible
<1>8. SameContext(refunded, 10, 10, 3)
  BY <1>1 DEF sstore, refunded, warmed, stored, refund, warm, slot
<1> HIDE DEF refunded
<1> QED
  BY <1>2, <1>7, <1>8, SameContextRefines

LEMMA TouchAccountRefines ==
  ASSUME IInv, Counted, TouchAccount
  PROVE  Refines
<1>1. PICK a \in Contracts \cup Plain : touch_account("EXTCODESIZE", a)
  BY DEF TouchAccount, Counted
<1>2. Running
  BY DEF TouchAccount, MayExecute
<1> DEFINE slot == AccessListAccount(tx.id, a)
           t == ReversibleWrite(Here, rw_counter + 4, slot, 1, reversible_write_counter)
<1>3. /\ rw_counter \in Nat /\ reversible_write_counter \in Nat
      /\ Top.entry \in [Slots -> Int] /\ slot \in Slots
  BY <1>2, TopSound, SlotsAreSlots, AccountsAreAccounts DEF IInv, Types, CallFrames
<1>4. Sound(t, rw_counter + 5, reversible_write_counter + 1, Top.entry)
  BY <1>2, <1>3, TopSound, Reversible
<1>5. Sound(t, rw_counter + 7, reversible_write_counter + 1, Top.entry)
  BY <1>3, <1>4, SoundLater
<1>6. SameContext(t, 7, 7, 1)
  <2>1. rw_counter + 1 + 3 = rw_counter + 4
    BY <1>3
  <2>2. touch_lookups("EXTCODESIZE") = 7
    BY DEF touch_lookups
  <2> QED
    BY <1>1, <2>1, <2>2 DEF touch_account, add_account_to_access_list
<1> QED
  BY <1>2, <1>5, <1>6, SameContextRefines

-----------------------------------------------------------------------------
(* Calls.                                                                  *)

\* Where the writes of a call opcode are, among its lookups.
LEMMA CallLookups ==
  ASSUME rw_counter \in Nat, NEW op \in {"CALL", "CALLCODE", "DELEGATECALL", "STATICCALL"},
         NEW ok \in BOOLEAN
  PROVE  /\ access_list_at(op) \in Nat /\ access_list_at(op) >= rw_counter
         /\ transfer_at(op) \in Nat /\ transfer_at(op) > access_list_at(op)
         /\ call_lookups(op, ok) \in Nat
         /\ rw_counter + call_lookups(op, ok) >= transfer_at(op)
         /\ op = "CALL" /\ ok => rw_counter + call_lookups(op, ok) = transfer_at(op) + 2
<1> DEFINE at == [CALL |-> 15, CALLCODE |-> 15, DELEGATECALL |-> 16, STATICCALL |-> 14][op]
<1>1. at \in Nat /\ access_list_at(op) = rw_counter + at
  BY DEF access_list_at
<1> HIDE DEF at
<1> QED
  BY <1>1 DEF transfer_at, call_lookups

\* A transfer is two reversible writes.
LEMMA TransferSound ==
  ASSUME NEW t, NEW c \in Nat, NEW n \in Nat, NEW entry \in [Slots -> Int],
         NEW d \in Nat, d >= c, NEW off \in Nat, off >= n,
         NEW payer \in Accounts, NEW payee \in Accounts, NEW value \in Int, NEW fee \in Int,
         Sound(t, c, n, entry)
  PROVE  Sound(transfer_with_gas_fee(t, d, payer, payee, value, fee, off), d + 2, off + 2, entry)
<1> DEFINE less == t.state[Balance(payer)] - (value + fee)
           paid == ReversibleWrite(t, d, Balance(payer), less, off)
           more == paid.state[Balance(payee)] + value
           u == ReversibleWrite(paid, d + 1, Balance(payee), more, off + 1)
<1>1. Balance(payer) \in Slots /\ Balance(payee) \in Slots
  BY SlotsAreSlots
<1>2. t.state \in [Slots -> Int]
  BY DEF Sound, Traces
<1>3. less \in Int
  <2>1. t.state[Balance(payer)] \in Int
    BY <1>1, <1>2
  <2> QED
    BY <2>1
<1> HIDE DEF less
<1>4. Sound(paid, d + 1, off + 1, entry)
  BY <1>1, <1>3, Reversible
<1> HIDE DEF paid
<1>5. more \in Int
  <2>1. paid.state[Balance(payee)] \in Int
    BY <1>1, <1>4 DEF Sound, Traces
  <2> QED
    BY <2>1
<1> HIDE DEF more
<1>6. Sound(u, d + 2, off + 2, entry)
  BY <1>1, <1>4, <1>5, Reversible
<1> QED
  BY <1>6 DEF transfer_with_gas_fee, less, paid, more

\* The caller puts the callee on its access list.
LEMMA WarmedSound ==
  ASSUME IInv, Running, NEW op \in {"CALL", "CALLCODE", "DELEGATECALL", "STATICCALL"},
         NEW a \in Accounts
  PROVE  LET warm == warmed_callee(op, a)
         IN  /\ Sound(warm, access_list_at(op) + 1, reversible_write_counter + 1, Top.entry)
             /\ warm.state = [state EXCEPT ![AccessListAccount(tx.id, a)] = 1]
<1> DEFINE warm == warmed_callee(op, a)
           slot == AccessListAccount(tx.id, a)
<1>1. /\ rw_counter \in Nat /\ reversible_write_counter \in Nat
      /\ Top.entry \in [Slots -> Int] /\ slot \in Slots
      /\ access_list_at(op) \in Nat /\ access_list_at(op) >= rw_counter
  BY TopSound, SlotsAreSlots, CallLookups DEF IInv, Types, CallFrames
<1>2. warm = ReversibleWrite(Here, access_list_at(op), slot, 1, reversible_write_counter)
  BY DEF warmed_callee, add_account_to_access_list
<1>3. Sound(warm, access_list_at(op) + 1, reversible_write_counter + 1, Top.entry)
  BY <1>1, <1>2, TopSound, Reversible
<1>4. warm.state = [state EXCEPT ![slot] = 1]
  BY <1>2 DEF ReversibleWrite, Write, Here
<1> QED
  BY <1>3, <1>4

LEMMA CallPlainRefines ==
  ASSUME ConstantsAssumption, IInv, Counted, CallPlain
  PROVE  Refines
<1>1. PICK op \in CallOps, a \in Contracts \cup Plain \cup NewAccounts,
           value \in CallValues \cup {0} : CallStays(op, a, value)
  BY DEF CallPlain
<1>2. /\ Running
      /\ op \in {"CALL", "CALLCODE", "DELEGATECALL", "STATICCALL"}
      /\ a \in Accounts /\ value \in Int
  BY <1>1, AccountsAreAccounts DEF CallStays, CallInput, MayExecute, ConstantsAssumption, Counted
<1> DEFINE r == reversible_write_counter
           ok == is_precheck_ok(op, value)
           n == call_lookups(op, ok) + 3
           warm == warmed_callee(op, a)
           t == transferred(warm, op, a, value, ok, callee_base)
<1>3. ok \in BOOLEAN
  BY DEF is_precheck_ok
<1> HIDE DEF ok
<1>4. /\ rw_counter \in Nat /\ r \in Nat /\ Top.entry \in [Slots -> Int] /\ Top.addr \in Accounts
  BY <1>2, TopSound, AccountsAreAccounts DEF IInv, Types, CallFrames
<1>5. /\ access_list_at(op) \in Nat
      /\ transfer_at(op) \in Nat /\ transfer_at(op) >= access_list_at(op) + 1
      /\ n \in Nat /\ rw_counter + n >= transfer_at(op) + 3
      /\ op = "CALL" /\ ok => rw_counter + n = transfer_at(op) + 5
  BY <1>2, <1>3, <1>4, CallLookups
<1> HIDE DEF n
<1>6. Sound(warm, access_list_at(op) + 1, r + 1, Top.entry)
  BY <1>2, WarmedSound
<1> HIDE DEF warm
<1>7. Sound(t, rw_counter + n, r + 3, Top.entry)
  <2>1. CASE op = "CALL" /\ ok
    <3>1. t = transfer_with_gas_fee(warm, transfer_at(op), Top.addr, a, value, 0, r + 1)
      BY <2>1 DEF transferred, transfer, callee_base
    <3>2. Sound(t, transfer_at(op) + 2, (r + 1) + 2, Top.entry)
      <4>1. r + 1 \in Nat /\ 0 \in Int /\ access_list_at(op) + 1 \in Nat
        BY <1>4, <1>5
      <4>2. Sound(transfer_with_gas_fee(warm, transfer_at(op), Top.addr, a, value, 0, r + 1),
                  transfer_at(op) + 2, (r + 1) + 2, Top.entry)
        BY <1>2, <1>4, <1>5, <1>6, <4>1, TransferSound
      <4> QED
        BY <3>1, <4>2
    <3>3. (r + 1) + 2 = r + 3
      BY <1>4
    <3> HIDE DEF t
    <3> QED
      BY <1>4, <1>5, <3>2, <3>3, SoundLater
  <2>2. CASE ~(op = "CALL" /\ ok)
    <3>1. t = warm
      BY <2>2 DEF transferred
    <3> QED
      BY <1>4, <1>5, <1>6, <3>1, SoundLater
  <2> QED
    BY <2>1, <2>2
<1>8. SameContext(t, n, n, 3)
  BY <1>1 DEF CallStays, n, t, warm, ok
<1> HIDE DEF t
<1> QED
  BY <1>2, <1>4, <1>5, <1>7, <1>8, SameContextRefines

\* A trace from which nothing is to be undone begins in its own state.
LEMMA Afresh ==
  ASSUME NEW t, NEW c, NEW n, NEW entry, Sound(t, c, n, entry)
  PROVE  LET clean == [t EXCEPT !.pending = {}]
         IN  Sound(clean, c, 0, t.state) /\ clean.state = t.state
BY DEF Sound, Traces, Covered, Undoes, Chained

\* The trace of a new call after its transfer, if there is one.
LEMMA CalleeSound ==
  ASSUME IInv, Running, NEW op \in {"CALL", "CALLCODE", "DELEGATECALL", "STATICCALL"},
         NEW a \in Accounts, NEW value \in Int
  PROVE  LET warm == warmed_callee(op, a)
             t == transferred([warm EXCEPT !.pending = {}], op, a, value, TRUE, 0)
         IN  Sound(t, rw_counter + call_lookups(op, TRUE), 2, warm.state)
<1> DEFINE warm == warmed_callee(op, a)
           clean == [warm EXCEPT !.pending = {}]
           t == transferred(clean, op, a, value, TRUE, 0)
           c == access_list_at(op) + 1
           d == transfer_at(op)
           n == call_lookups(op, TRUE)
<1>1. rw_counter \in Nat /\ Top.addr \in Accounts
  BY TopSound, AccountsAreAccounts DEF IInv, Types, CallFrames
<1>2. /\ c \in Nat /\ d \in Nat /\ d >= c /\ rw_counter + n \in Nat
      /\ rw_counter + n >= c
      /\ op = "CALL" => rw_counter + n = d + 2
  <2>1. TRUE \in BOOLEAN
    OBVIOUS
  <2>2. /\ access_list_at(op) \in Nat /\ d \in Nat /\ d > access_list_at(op)
        /\ n \in Nat /\ rw_counter + n >= d
        /\ op = "CALL" => rw_counter + n = d + 2
    BY <1>1, <2>1, CallLookups
  <2> HIDE DEF d, n
  <2> QED
    BY <1>1, <2>2
<1>3. Sound(warm, c, reversible_write_counter + 1, Top.entry) /\ warm.state \in [Slots -> Int]
  BY WarmedSound DEF Sound, Traces
<1> HIDE DEF c, d, n, warm
<1>4. Sound(clean, c, 0, warm.state)
  BY <1>3, Afresh
<1> HIDE DEF clean
<1>5. CASE op = "CALL"
  <2>1. t = transfer_with_gas_fee(clean, d, Top.addr, a, value, 0, 0)
    BY <1>5 DEF transferred, transfer, d
  <2>2. 0 \in Nat /\ 0 \in Int /\ 0 >= 0 /\ 0 + 2 = 2
    OBVIOUS
  <2>3. Sound(transfer_with_gas_fee(clean, d, Top.addr, a, value, 0, 0), d + 2, 0 + 2, warm.state)
    BY <1>1, <1>2, <1>3, <1>4, <2>2, TransferSound
  <2>4. Sound(t, rw_counter + n, 2, warm.state)
    BY <1>2, <1>5, <2>1, <2>2, <2>3
  <2> QED
    BY <2>4 DEF n, clean, warm
<1>6. CASE op # "CALL"
  <2>1. t = clean
    BY <1>6 DEF transferred
  <2>2. Sound(clean, rw_counter + n, 2, warm.state)
    BY <1>2, <1>4, SoundLater
  <2> QED
    BY <2>1, <2>2 DEF n, clean, warm
<1> QED
  BY <1>5, <1>6

\* A call more, on top of one that is changed.
LEMMA Pushed ==
  ASSUME NEW F, NEW s \in Seq(F), s # <<>>, NEW x \in F, NEW y \in F
  PROVE  LET u == Append([s EXCEPT ![Len(s)] = x], y)
         IN  /\ u \in Seq(F) /\ Len(u) = Len(s) + 1
             /\ u[Len(s) + 1] = y /\ u[Len(s)] = x
             /\ \A i \in 1 .. Len(s) - 1 : u[i] = s[i]
OBVIOUS

\* The states that SnapshotEvm remembers.
Entries(s) == [i \in DOMAIN s |-> s[i].entry]

LEMMA EntriesType ==
  ASSUME NEW s \in Seq(CallFrames)
  PROVE  Entries(s) \in Seq([Slots -> Int]) /\ Len(Entries(s)) = Len(s)
<1>1. \A i \in 1 .. Len(s) : s[i] \in CallFrames
  OBVIOUS
<1>2. \A i \in 1 .. Len(s) : s[i].entry \in [Slots -> Int]
  BY <1>1 DEF CallFrames
<1> QED
  BY <1>2 DEF Entries

LEMMA SnapshotPushed ==
  ASSUME NEW s \in Seq(CallFrames), NEW u \in Seq(CallFrames), Len(u) = Len(s) + 1,
         \A i \in 1 .. Len(s) : u[i].entry = s[i].entry
  PROVE  /\ Len(Entries(u)) = Len(Entries(s)) + 1
         /\ SubSeq(Entries(u), 1, Len(Entries(u)) - 1) = Entries(s)
         /\ Entries(u)[Len(Entries(u))] = u[Len(u)].entry
<1>1. /\ Entries(s) \in Seq([Slots -> Int]) /\ Len(Entries(s)) = Len(s)
      /\ Entries(u) \in Seq([Slots -> Int]) /\ Len(Entries(u)) = Len(u)
  BY EntriesType
<1>2. /\ \A i \in 1 .. Len(s) : Entries(s)[i] = s[i].entry /\ Entries(u)[i] = u[i].entry
      /\ Entries(u)[Len(u)] = u[Len(u)].entry
  BY DEF Entries
<1>3. \A i \in 1 .. Len(s) : Entries(u)[i] = Entries(s)[i]
  BY <1>2
<1> QED
  BY <1>1, <1>2, <1>3

\* The start of a call, which puts a frame on those of the calls that wait for it.
LEMMA CallContractRefines ==
  ASSUME ConstantsAssumption, IInv, Counted, CallContract
  PROVE  Refines
<1>1. PICK op \in CallOps, a \in Contracts, value \in CallValues \cup {0} :
        EnterCall(op, a, value, 23, "Run")
  BY DEF CallContract, HasCode, Counted
<1>2. /\ Running
      /\ op \in {"CALL", "CALLCODE", "DELEGATECALL", "STATICCALL"}
      /\ a \in Accounts /\ value \in Int
  BY <1>1, AccountsAreAccounts DEF EnterCall, CallInput, MayExecute, ConstantsAssumption
<1> DEFINE L == Len(frames)
           r == reversible_write_counter
           warm == warmed_callee(op, a)
           t == transferred([warm EXCEPT !.pending = {}], op, a, value, TRUE, 0)
           n == call_lookups(op, TRUE)
           addr == IF op \in {"CALLCODE", "DELEGATECALL"} THEN Top.addr ELSE a
           by == IF op = "DELEGATECALL" THEN Top.caller ELSE Top.addr
           caller == [Top EXCEPT !.pending = warm.pending, !.base = r + 1, !.saved = r + 1]
           callee == Frame(op, addr, by, Top.static, warm.state, t.pending, BOOLEAN)
<1>3. /\ L \in DOMAIN frames /\ L \in Nat \ {0} /\ Top \in CallFrames /\ frames \in Seq(CallFrames)
      /\ rw_counter \in Nat /\ r \in Nat /\ frames # <<>>
  BY <1>2, TopSound DEF IInv, Types
<1>4. /\ Covered(warm.pending, r + 1) /\ Undoes(warm.pending, Top.entry, warm.state)
      /\ Chained(warm.pending, warm.state)
      /\ warm.state = [state EXCEPT ![AccessListAccount(tx.id, a)] = 1]
      /\ warm.state \in [Slots -> Int] /\ warm.pending \subseteq Pending
  BY <1>2, WarmedSound DEF Sound, Traces
<1>5. Sound(t, rw_counter + n, 2, warm.state) /\ n \in Nat
  BY <1>2, <1>3, CalleeSound, CallLookups
<1>6. /\ frames' = Append([frames EXCEPT ![L].pending = warm.pending, ![L].base = r + 1,
                                          ![L].saved = r + 1], callee)
      /\ state' = t.state /\ rows' = t.rows
      /\ execution_state' = "Run"
      /\ rw_counter' = rw_counter + n + 23
      /\ reversible_write_counter' = 2
      /\ UNCHANGED <<tx, committed, is_success>>
  BY <1>1 DEF EnterCall, callee_base, callee_counter
<1> HIDE DEF warm, n, t
<1>7. Sound(t, rw_counter + n + 23, 2, warm.state)
  BY <1>3, <1>5, SoundLater
<1>8. t.state \in [Slots -> Int] /\ t.rows \subseteq Rows /\ t.pending \subseteq Pending
  BY <1>7 DEF Sound, Traces
<1>9. /\ callee \in CallFrames
      /\ callee.entry = warm.state /\ callee.pending = t.pending
  <2>1. addr \in Contracts /\ by \in Accounts /\ Top.static \in BOOLEAN
    BY <1>3, AccountsAreAccounts DEF CallFrames
  <2>2. op \in {"BeginTx"} \cup CallOps /\ t.pending \in SUBSET Pending
    BY <1>8
  <2> HIDE DEF addr, by
  <2> QED
    BY <1>3, <1>4, <2>1, <2>2 DEF CallFrames, Frame
<1>10. /\ caller \in CallFrames
       /\ caller.pending = warm.pending /\ caller.entry = Top.entry
       /\ caller.base = r + 1 /\ caller.saved = r + 1
  <2>1. r + 1 \in Nat /\ warm.pending \in SUBSET Pending
    BY <1>3, <1>4
  <2> QED
    BY <1>3, <2>1 DEF CallFrames
<1>11. frames' = Append([frames EXCEPT ![L] = caller], callee)
  BY <1>3, <1>6 DEF Top
<1> HIDE DEF caller, callee
<1>12. /\ frames' \in Seq(CallFrames) /\ Len(frames') = L + 1 /\ DOMAIN frames' = 1 .. L + 1
       /\ frames'[L + 1] = callee /\ frames'[L] = caller
       /\ \A i \in 1 .. L - 1 : frames'[i] = frames[i]
  BY <1>3, <1>9, <1>10, <1>11, Pushed
<1>13. Types'
  <2>1. frames' # <<>>
    BY <1>3, <1>12
  <2> QED
    BY <1>3, <1>5, <1>6, <1>8, <1>12, <2>1 DEF IInv, Types
<1>14. Placed(rows, RowsEnd)' /\ History(rows, state)'
  BY <1>6, <1>7 DEF Sound, RowsEnd
<1>15. FramesInv'
  <2> SUFFICES ASSUME NEW i \in 1 .. L + 1
               PROVE  /\ Covered(frames'[i].pending, Counter(i)')
                      /\ Undoes(frames'[i].pending, frames'[i].entry, Seen(i)')
                      /\ Chained(frames'[i].pending, Seen(i)')
                      /\ i < L + 1 => frames'[i].saved = frames'[i].base
    BY <1>12 DEF FramesInv
  <2>1. CASE i = L + 1
    BY <1>3, <1>6, <1>7, <1>9, <1>12, <2>1 DEF Sound, Counter, Seen
  <2>2. CASE i = L
    <3>1. Counter(i)' = r + 1 /\ Seen(i)' = warm.state
      BY <1>3, <1>9, <1>10, <1>12, <2>2 DEF Counter, Seen
    <3> QED
      BY <1>4, <1>10, <1>12, <2>2, <3>1
  <2>3. CASE i \in 1 .. L - 1
    <3>1. frames'[i] = frames[i] /\ frames'[i + 1].entry = frames[i + 1].entry
      BY <1>3, <1>10, <1>12, <2>3, SMTT(30) DEF Top
    <3>2. i # L /\ i # L + 1 /\ i < L /\ i \in DOMAIN frames
      <4> HIDE DEF L
      <4>1. i # L /\ i # L + 1 /\ i < L /\ i \in 1 .. L
        BY <1>3, <2>3
      <4> QED
        BY <1>3, <4>1 DEF L
    <3>3. Counter(i)' = Counter(i) /\ Seen(i)' = Seen(i)
      BY <1>12, <3>1, <3>2 DEF Counter, Seen
    <3> QED
      BY <3>1, <3>2, <3>3 DEF IInv, FramesInv
  <2> QED
    BY <1>3, <2>1, <2>2, <2>3
<1>16. Snapshots!Next
  <2>1. \A i \in 1 .. L : frames'[i].entry = frames[i].entry
    <3> SUFFICES ASSUME NEW i \in 1 .. L
                 PROVE  frames'[i].entry = frames[i].entry
      OBVIOUS
    <3>1. CASE i = L
      BY <1>3, <1>10, <1>12, <3>1 DEF Top
    <3>2. CASE i # L
      BY <1>3, <1>10, <1>12, <3>2
    <3> QED
      BY <3>1, <3>2
  <2>2. /\ Len(Entries(frames')) = Len(Entries(frames)) + 1
        /\ SubSeq(Entries(frames'), 1, Len(Entries(frames')) - 1) = Entries(frames)
        /\ Entries(frames')[Len(Entries(frames'))] = warm.state
    <3>1. /\ frames \in Seq(CallFrames) /\ frames' \in Seq(CallFrames)
          /\ Len(frames') = Len(frames) + 1 /\ Len(frames) = L
      BY <1>3, <1>12
    <3>2. frames'[Len(frames')].entry = warm.state
      BY <1>9, <1>12
    <3> HIDE DEF L
    <3>3. \A i \in 1 .. Len(frames) : frames'[i].entry = frames[i].entry
      BY <2>1, <3>1
    <3> QED
      BY <3>1, <3>2, <3>3, SnapshotPushed
  <2>3. \A slot \in Slots : slot.tag \notin {"TxAccessListAccount", "Nonce"} =>
          warm.state[slot] = state[slot]
    BY <1>4 DEF IInv, Types, AccessListAccount, Slot
  <2>4. Snapshots!Enter
    BY <1>6, <1>8, <2>2, <2>3
       DEF Snapshots!Enter, Snapshots!Popped, Snapshots!LastOf, Snapshots!Preliminary, Entries
  <2> QED
    BY <2>4 DEF Snapshots!Next
<1> QED
  BY <1>13, <1>14, <1>15, <1>16 DEF IInv, Refines

-----------------------------------------------------------------------------
(* The start of a transaction.                                             *)

\* A trace from which nothing is to be undone.
Clean(t, c) == Sound(t, c, 0, t.state) /\ t.pending = {}

\* A write that nothing undoes leaves such a trace.
LEMMA WriteClean ==
  ASSUME NEW t, NEW c \in Nat, NEW d \in Nat, d >= c, NEW e \in Nat, e > d,
         NEW slot \in Slots, NEW val \in Int, Clean(t, c)
  PROVE  Clean(Write(t, d, slot, val), e)
<1> DEFINE u == Write(t, d, slot, val)
<1>1. Sound(t, c, 0, t.state) /\ t.pending = {}
  BY DEF Clean
<1>2. 0 \in Nat /\ d + 1 \in Nat /\ e >= d + 1 /\ 0 >= 0
  OBVIOUS
<1>3. Sound(u, d + 1, 0, u.state) /\ u.pending = {}
  BY <1>1, <1>2, WriteSound
<1> HIDE DEF u
<1>4. Sound(u, e, 0, u.state)
  BY <1>2, <1>3, SoundLater
<1> QED
  BY <1>3, <1>4 DEF u, Clean

\* SnapshotEvm lets a call change some slots before it remembers the state.
Kept(t) == \A slot \in Slots : ~Snapshots!Preliminary(slot) => t.state[slot] = state[slot]

LEMMA PreliminaryWrite ==
  ASSUME NEW t, NEW c, NEW d, NEW slot \in Slots, NEW val,
         Clean(t, c), Kept(t), Snapshots!Preliminary(slot)
  PROVE  Kept(Write(t, d, slot, val))
<1> DEFINE u == Write(t, d, slot, val)
<1>1. t \in Traces /\ t.state \in [Slots -> Int]
  BY DEF Clean, Sound, Traces
<1>2. u.state = [t.state EXCEPT ![slot] = val]
  BY <1>1 DEF Write, Traces
<1> QED
  BY <1>1, <1>2 DEF Kept

\* The nonce and the access list, where nothing is to be undone.
LEMMA PreparedSound ==
  ASSUME IInv, frames = <<>>, execution_state # "Done",
         NEW to \in Accounts, NEW invalid \in BOOLEAN
  PROVE  LET t == tx_prepared(to, invalid)
         IN  Clean(t, rw_counter + 8) /\ Kept(t)
<1> DEFINE t == [state |-> state, rows |-> rows, pending |-> {}]
           nonce == state[Nonce(Sender)] + (IF invalid THEN 0 ELSE 1)
           bumped == Write(t, rw_counter + 4, Nonce(Sender), nonce)
           warm1 == Write(bumped, rw_counter + 5, AccessListAccount(tx.id, Coinbase), 1)
           warm2 == Write(warm1, rw_counter + 6, AccessListAccount(tx.id, Sender), 1)
           warm3 == Write(warm2, rw_counter + 7, AccessListAccount(tx.id, to), 1)
<1>1. /\ rw_counter \in Nat /\ state \in [Slots -> Int] /\ rows \subseteq Rows
      /\ tx.id \in TxIds
  BY DEF IInv, Types
<1>2. /\ rw_counter + 4 \in Nat /\ rw_counter + 4 >= rw_counter
      /\ rw_counter + 5 \in Nat /\ rw_counter + 5 > rw_counter + 4 /\ rw_counter + 5 >= rw_counter + 5
      /\ rw_counter + 6 \in Nat /\ rw_counter + 6 > rw_counter + 5 /\ rw_counter + 6 >= rw_counter + 6
      /\ rw_counter + 7 \in Nat /\ rw_counter + 7 > rw_counter + 6 /\ rw_counter + 7 >= rw_counter + 7
      /\ rw_counter + 8 \in Nat /\ rw_counter + 8 > rw_counter + 7
      /\ 1 \in Int
  BY <1>1
<1>3. /\ Nonce(Sender) \in Slots /\ Snapshots!Preliminary(Nonce(Sender))
      /\ \A a \in Accounts : /\ AccessListAccount(tx.id, a) \in Slots
                             /\ Snapshots!Preliminary(AccessListAccount(tx.id, a))
      /\ Coinbase \in Accounts /\ Sender \in Accounts
  BY <1>1, SlotsAreSlots, AccountsAreAccounts DEF Nonce, AccessListAccount, Slot, Snapshots!Preliminary
<1>4. nonce \in Int
  <2>1. state[Nonce(Sender)] \in Int
    BY <1>1, <1>3
  <2> QED
    BY <2>1
<1>5. Clean(t, rw_counter) /\ Kept(t)
  <2>1. Placed(rows, rw_counter)
    BY RowsBelow
  <2> QED
    BY <1>1, <2>1 DEF Clean, Sound, Traces, Covered, Undoes, Chained, IInv, Kept
<1> HIDE DEF nonce, t
<1>6. Clean(bumped, rw_counter + 5) /\ Kept(bumped)
  BY <1>1, <1>2, <1>3, <1>4, <1>5, WriteClean, PreliminaryWrite
<1> HIDE DEF bumped
<1>7. Clean(warm1, rw_counter + 6) /\ Kept(warm1)
  BY <1>2, <1>3, <1>6, WriteClean, PreliminaryWrite
<1> HIDE DEF warm1
<1>8. Clean(warm2, rw_counter + 7) /\ Kept(warm2)
  BY <1>2, <1>3, <1>7, WriteClean, PreliminaryWrite
<1> HIDE DEF warm2
<1>9. Clean(warm3, rw_counter + 8) /\ Kept(warm3)
  BY <1>2, <1>3, <1>8, WriteClean, PreliminaryWrite
<1>10. tx_prepared(to, invalid) = warm3
  BY DEF tx_prepared, t, nonce, bumped, warm1, warm2
<1> HIDE DEF warm3
<1> QED
  BY <1>9, <1>10

\* A step before or after a transaction's calls.
LEMMA OutsideRefines ==
  ASSUME IInv, frames = <<>>, frames' = frames, execution_state' \in {"BeginTx", "EndTx", "EndBlock", "Done"},
         rw_counter' \in Nat, rows' \subseteq Rows, Placed(rows, RowsEnd)', History(rows', state'),
         state' \in [Slots -> Int], committed' \in [Slots -> Int],
         tx' \in [id : TxIds, invalid : BOOLEAN, persistent : BOOLEAN],
         UNCHANGED <<reversible_write_counter, is_success>>
  PROVE  Refines
<1>1. Types'
  BY DEF IInv, Types
<1>2. FramesInv'
  BY DEF FramesInv
<1>3. Snapshots!Next
  <2>1. [i \in DOMAIN frames |-> frames[i].entry]' = [i \in DOMAIN frames |-> frames[i].entry]
    OBVIOUS
  <2> QED
    BY <2>1 DEF Snapshots!Next, Snapshots!Execute
<1> QED
  BY <1>1, <1>2, <1>3 DEF IInv, Refines

\* The transfer of a transaction.
LEMMA TxTransferredSound ==
  ASSUME ConstantsAssumption, IInv, frames = <<>>, execution_state # "Done",
         NEW to \in Accounts, NEW invalid \in BOOLEAN, NEW value \in Int, NEW fee \in Int, NEW n \in Nat, n >= 10
  PROVE  LET t == tx_prepared(to, invalid)
         IN  Sound(tx_transferred(t, to, value, fee), rw_counter + n, 2, t.state)
<1> DEFINE t == tx_prepared(to, invalid)
           u == transfer_with_gas_fee(t, rw_counter + 8, Sender, to, value, fee, 0)
<1>1. Clean(t, rw_counter + 8)
  BY PreparedSound
<1> HIDE DEF t
<1>2. Sound(t, rw_counter + 8, 0, t.state) /\ t.state \in [Slots -> Int]
  BY <1>1 DEF Clean, Sound, Traces
<1>3. /\ rw_counter + 8 \in Nat /\ rw_counter + n \in Nat /\ 0 \in Nat /\ 2 \in Nat
      /\ rw_counter + 8 >= rw_counter + 8 /\ (rw_counter + 8) + 2 \in Nat
      /\ rw_counter + n >= (rw_counter + 8) + 2 /\ 0 + 2 = 2 /\ 0 >= 0 /\ 2 >= 2
      /\ Sender \in Accounts
  BY AccountsAreAccounts DEF IInv, Types
<1>4. Sound(u, (rw_counter + 8) + 2, 0 + 2, t.state)
  BY <1>2, <1>3, TransferSound
<1> HIDE DEF u
<1>5. Sound(u, rw_counter + n, 2, t.state)
  BY <1>3, <1>4, SoundLater
<1> QED
  BY <1>5 DEF u, tx_transferred, t

\* The root call starts: the state remembered is the one before the transfer.
LEMMA BeginTxCallRefines ==
  ASSUME ConstantsAssumption, IInv, Counted, BeginTxCall
  PROVE  Refines
<1>1. /\ frames = <<>> /\ rw_counter \in Nat /\ state \in [Slots -> Int]
      /\ tx \in [id : TxIds, invalid : BOOLEAN, persistent : BOOLEAN]
      /\ execution_state # "Done"
  BY DEF BeginTxCall, IInv, Types
<1>2. PICK to \in Contracts, value \in CallValues :
        LET t0 == tx_prepared(to, FALSE)
            t == tx_transferred(t0, to, value, Gas)
        IN  /\ state' = t.state
            /\ rows' = t.rows
            /\ frames' = <<Frame("BeginTx", to, Sender, FALSE, t0.state, t.pending, BOOLEAN)>>
            /\ tx' = [tx EXCEPT !.invalid = FALSE]
            /\ rw_counter' = rw_counter + 24
  BY DEF BeginTxCall, Receivers, Counted, HasCode
<1> DEFINE t0 == tx_prepared(to, FALSE)
           t == tx_transferred(t0, to, value, Gas)
           root == Frame("BeginTx", to, Sender, FALSE, t0.state, t.pending, BOOLEAN)
<1>3. /\ to \in Accounts /\ Sender \in Accounts /\ FALSE \in BOOLEAN
      /\ value \in Int /\ Gas \in Int /\ 24 \in Nat /\ 24 >= 10
  BY AccountsAreAccounts DEF ConstantsAssumption
<1>4. Sound(t, rw_counter + 24, 2, t0.state)
  BY <1>1, <1>3, TxTransferredSound
<1>5. Kept(t0) /\ t0.state \in [Slots -> Int]
  <2>1. Kept(t0) /\ Clean(t0, rw_counter + 8)
    BY <1>1, <1>3, PreparedSound
  <2> HIDE DEF t0
  <2> QED
    BY <2>1 DEF Clean, Sound, Traces
<1>6. /\ state' = t.state /\ rows' = t.rows /\ frames' = <<root>>
      /\ tx' = [tx EXCEPT !.invalid = FALSE]
      /\ rw_counter' = rw_counter + 24
      /\ execution_state' = "Run"
      /\ reversible_write_counter' = 2
      /\ committed' = state
      /\ UNCHANGED is_success
  BY <1>2 DEF BeginTxCall, callee_counter
<1> HIDE DEF t0, t
<1>7. t.state \in [Slots -> Int] /\ t.rows \subseteq Rows /\ t.pending \subseteq Pending
  BY <1>4 DEF Sound, Traces
<1>8. root \in CallFrames /\ root.entry = t0.state /\ root.pending = t.pending
  BY <1>1, <1>3, <1>5, <1>7 DEF CallFrames, Frame
<1> HIDE DEF root
<1>9. /\ frames' \in Seq(CallFrames) /\ Len(frames') = 1 /\ DOMAIN frames' = 1 .. 1
      /\ frames'[1] = root /\ frames' # <<>>
  BY <1>6, <1>8
<1>10. Types'
  <2>1. tx' \in [id : TxIds, invalid : BOOLEAN, persistent : BOOLEAN]
    BY <1>1, <1>6
  <2>2. rw_counter' \in Nat /\ reversible_write_counter' \in Nat
    BY <1>1, <1>6
  <2> QED
    BY <1>1, <1>6, <1>7, <1>9, <2>1, <2>2 DEF IInv, Types
<1>11. Placed(rows, RowsEnd)' /\ History(rows, state)'
  BY <1>4, <1>6 DEF Sound, RowsEnd
<1>12. FramesInv'
  BY <1>4, <1>6, <1>8, <1>9 DEF FramesInv, Counter, Seen, Sound
<1>13. Snapshots!Next
  <2>1. /\ frames \in Seq(CallFrames) /\ Len(frames) = 0
        /\ Len(frames') = Len(frames) + 1
        /\ \A i \in 1 .. Len(frames) : frames'[i].entry = frames[i].entry
    BY <1>1, <1>9
  <2>2. /\ Len(Entries(frames')) = Len(Entries(frames)) + 1
        /\ SubSeq(Entries(frames'), 1, Len(Entries(frames')) - 1) = Entries(frames)
        /\ Entries(frames')[Len(Entries(frames'))] = frames'[Len(frames')].entry
    BY <1>9, <2>1, SnapshotPushed
  <2>3. Entries(frames')[Len(Entries(frames'))] = t0.state
    BY <1>8, <1>9, <2>2
  <2>4. Snapshots!Enter
    BY <1>5, <1>6, <1>7, <2>2, <2>3
       DEF Snapshots!Enter, Snapshots!Popped, Snapshots!LastOf, Kept, Entries
  <2> QED
    BY <2>4 DEF Snapshots!Next
<1> QED
  BY <1>10, <1>11, <1>12, <1>13 DEF IInv, Refines

LEMMA BeginTxPlainRefines ==
  ASSUME ConstantsAssumption, IInv, Counted, BeginTxPlain
  PROVE  Refines
<1>1. /\ frames = <<>> /\ rw_counter \in Nat /\ state \in [Slots -> Int]
      /\ tx \in [id : TxIds, invalid : BOOLEAN, persistent : BOOLEAN]
      /\ execution_state # "Done"
  BY DEF BeginTxPlain, IInv, Types
<1> DEFINE Begun(is_create, rejected, to, value) ==
             LET invalid == is_tx_invalid(value, rejected)
                 t == tx_transferred(tx_prepared(to, invalid), to,
                                     IF invalid THEN 0 ELSE value, IF invalid THEN 0 ELSE Gas)
                 n == IF is_create THEN 10 ELSE 11
             IN  /\ invalid \/ is_create \/ ~HasCode(to)
                 /\ state' = t.state
                 /\ rows' = t.rows
                 /\ tx' = [tx EXCEPT !.invalid = invalid, !.persistent = TRUE]
                 /\ rw_counter' = rw_counter + n
                 /\ lookups' = lookups + n
<1>2. PICK is_create \in BOOLEAN, rejected \in BOOLEAN :
      \E to \in Receivers(is_create), value \in CallValues :
        Begun(is_create, rejected, to, value)
  BY DEF BeginTxPlain
<1> HIDE DEF Begun
<1>3. PICK to \in Receivers(is_create), value \in CallValues :
        Begun(is_create, rejected, to, value)
  BY <1>2
<1>4. ~is_create /\ to \in Contracts \cup Plain
  BY DEF Receivers, Counted
<1> DEFINE invalid == is_tx_invalid(value, rejected)
<1>5. invalid \in BOOLEAN
  BY DEF is_tx_invalid
<1> DEFINE sent == IF invalid THEN 0 ELSE value
           fee == IF invalid THEN 0 ELSE Gas
           t0 == tx_prepared(to, invalid)
           t == tx_transferred(t0, to, sent, fee)
<1>6. to \in Accounts /\ sent \in Int /\ fee \in Int /\ 11 \in Nat /\ 11 >= 10
  BY <1>4, AccountsAreAccounts DEF ConstantsAssumption
<1>7. /\ state' = t.state /\ rows' = t.rows /\ rw_counter' = rw_counter + 11
      /\ tx' = [tx EXCEPT !.invalid = invalid, !.persistent = TRUE]
  BY <1>3, <1>4 DEF Begun
<1> HIDE DEF sent, fee, invalid
<1>8. Sound(t, rw_counter + 11, 2, t0.state)
  BY <1>1, <1>5, <1>6, TxTransferredSound
<1> HIDE DEF t, t0
<1>9. /\ t.state \in [Slots -> Int] /\ t.rows \subseteq Rows
      /\ Placed(t.rows, rw_counter + 11) /\ History(t.rows, t.state)
  BY <1>8 DEF Sound, Traces
<1>10. tx' \in [id : TxIds, invalid : BOOLEAN, persistent : BOOLEAN]
  BY <1>1, <1>5, <1>7
<1>11. /\ frames' = frames /\ execution_state' \in {"BeginTx", "EndTx", "EndBlock", "Done"}
       /\ committed' \in [Slots -> Int]
       /\ UNCHANGED <<reversible_write_counter, is_success>>
  BY <1>1 DEF BeginTxPlain
<1>12. /\ rw_counter' \in Nat /\ state' \in [Slots -> Int] /\ rows' \subseteq Rows
       /\ Placed(rows, RowsEnd)' /\ History(rows', state')
  <2>1. execution_state' # "Done"
    BY DEF BeginTxPlain
  <2> QED
    BY <1>1, <1>7, <1>9, <2>1 DEF RowsEnd
<1> QED
  BY <1>1, <1>10, <1>11, <1>12, OutsideRefines

-----------------------------------------------------------------------------
(* The ends of calls.                                                      *)

\* How calls end: in success, in an error state, or by a REVERT of nothing.
Ends(success, halts) == success = halts \/ (~success /\ Top.pending = {})

\* The end of a call leaves the state the call began with, or the one it has made,
\* and the undoing rows on counters nothing else has.
LEMMA EndOfCallEffect ==
  ASSUME IInv, Running, NEW n \in Nat, NEW more, NEW success \in BOOLEAN, NEW halts \in BOOLEAN,
         EndOfCall(Here, n, more, success, halts), Ends(success, halts)
  PROVE  /\ state' = IF success THEN state ELSE Top.entry
         /\ state' \in [Slots -> Int]
         /\ rows' \subseteq Rows /\ Placed(rows', rw_counter') /\ History(rows', state')
         /\ rw_counter' \in Nat /\ is_success' = success /\ committed' = committed
<1> DEFINE c == rw_counter + n
           r == reversible_write_counter
           undo == UndoRows(Top.pending, c + r - 1)
<1>1. /\ c \in Nat /\ r \in Nat /\ c >= rw_counter /\ rw_counter \in Nat
      /\ state \in [Slots -> Int] /\ rows \in SUBSET Rows
  BY DEF IInv, Types
<1>2. /\ Top.entry \in [Slots -> Int] /\ Top.pending \in SUBSET Pending
      /\ Covered(Top.pending, r) /\ Undoes(Top.pending, Top.entry, state)
      /\ Placed(rows, rw_counter) /\ History(rows, state) /\ Chained(Top.pending, state)
  <2>1. Top \in CallFrames /\ Sound(Here, rw_counter, r, Top.entry)
    BY TopSound
  <2> QED
    BY <2>1 DEF CallFrames, Sound, Here
<1>3. Placed(rows, c)
  <2>1. \A row \in rows : row.rwc \in Nat
    BY <1>1 DEF Rows
  <2> QED
    BY <1>1, <1>2, <2>1 DEF Placed
<1> DEFINE gone == IF success THEN {} ELSE undo
<1>4. /\ \E done \in IF ~success /\ ~halts THEN {gone} ELSE SUBSET gone : state' = Replayed(state, done)
      /\ rows' = rows \cup gone
      /\ rw_counter' = c + (IF ~success /\ ~halts THEN r ELSE 0)
      /\ is_success' = success /\ committed' = committed
  BY DEF EndOfCall, InErrorState, Here
<1>5. CASE success \/ (~success /\ halts)
  <2>1. ~success => Top.pending = {}
    BY <1>5 DEF Ends
  <2>2. gone = {}
    BY <2>1 DEF UndoRows
  <2> HIDE DEF gone, c
  <2>3. state' = state
    <3>1. \E done \in SUBSET gone : state' = Replayed(state, done)
      BY <1>4, <1>5
    <3>2. state' = Replayed(state, {})
      BY <2>2, <3>1
    <3> QED
      BY <1>1, <3>2, NothingReplayed
  <2>4. rows' = rows /\ rw_counter' = c
    BY <1>1, <1>4, <1>5, <2>2
  <2>5. ~success => state = Top.entry
    <3>1. ~success => \A s \in Slots : state[s] = Top.entry[s]
      BY <1>2, <2>1 DEF Undoes
    <3> QED
      BY <1>1, <1>2, <3>1
  <2> QED
    BY <1>1, <1>2, <1>3, <1>4, <2>3, <2>4, <2>5
<1>6. CASE ~success /\ ~halts
  <2>1. c + r - 1 \in Int
    BY <1>1
  <2>2. Replayed(state, undo) = Top.entry
    BY <1>1, <1>2, <2>1, UndoRestores
  <2>3. rows \cup undo \subseteq Rows /\ Placed(rows \cup undo, c + r)
    BY <1>1, <1>2, <1>3, UndoPlaced
  <2>4. History(rows \cup undo, Top.entry)
    BY <1>1, <1>2, <1>3, UndoHistory
  <2>5. rw_counter' = c + r /\ rows' = rows \cup undo /\ state' = Top.entry
    <3>1. gone = undo
      BY <1>6
    <3> HIDE DEF gone, undo
    <3> QED
      BY <1>4, <1>6, <2>2, <3>1
  <2> HIDE DEF undo, gone
  <2> QED
    BY <1>1, <1>2, <1>4, <1>6, <2>3, <2>4, <2>5
<1> QED
  BY <1>5, <1>6

\* A call less, and the one below it changed.
Returned(s, u, x, F) ==
  /\ u \in Seq(F) /\ Len(u) = Len(s) - 1 /\ DOMAIN u = 1 .. Len(s) - 1
  /\ u[Len(s) - 1] = x /\ u # <<>>
  /\ \A i \in 1 .. Len(s) - 2 : u[i] = s[i]

LEMMA Popped ==
  ASSUME NEW F, NEW s, s \in Seq(F), Len(s) >= 2, NEW x, x \in F
  PROVE  Returned(s, Append(SubSeq(s, 1, Len(s) - 2), x), x, F)
<1> DEFINE L == Len(s)
           t == SubSeq(s, 1, L - 2)
<1>1. L \in Nat /\ DOMAIN s = 1 .. L /\ \A i \in 1 .. L : s[i] \in F
  OBVIOUS
<1> HIDE DEF L
<1>2. /\ 1 \in Int /\ L - 2 \in Int /\ L >= 2 /\ (L - 2) - 1 + 1 = L - 2 /\ (L - 2) + 1 = L - 1
      /\ \A i \in 1 .. L - 2 : s[i] \in F /\ 1 + i - 1 = i
      /\ (IF 1 <= L - 2 THEN (L - 2) - 1 + 1 ELSE 0) = L - 2
  BY <1>1 DEF L
<1>3. t \in Seq(F) /\ Len(t) = L - 2 /\ \A i \in 1 .. L - 2 : t[i] = s[i]
  BY <1>2, SubSeqProperties
<1> HIDE DEF t
<1>4. /\ Append(t, x) \in Seq(F) /\ Append(t, x) # <<>>
      /\ Len(Append(t, x)) = Len(t) + 1 /\ Append(t, x)[Len(t) + 1] = x
      /\ \A i \in 1 .. Len(t) : Append(t, x)[i] = t[i]
  BY <1>3, AppendProperties
<1>5. DOMAIN Append(t, x) = 1 .. Len(Append(t, x))
  BY <1>4
<1> QED
  BY <1>2, <1>3, <1>4, <1>5 DEF Returned, t, L

\* The end of a call is that of SnapshotEvm if its frame alone goes.
LEMMA SnapshotPopped ==
  ASSUME IInv, Running, frames' \in Seq(CallFrames), Len(frames) = Len(frames') + 1,
         \A i \in 1 .. Len(frames') : frames'[i].entry = frames[i].entry,
         NEW success \in BOOLEAN, is_success' = success,
         state' = IF success THEN state ELSE Top.entry
  PROVE  Snapshots!Next
<1>1. frames \in Seq(CallFrames) /\ frames # <<>> /\ \A i \in 1 .. Len(frames') : frames[i].entry = frames'[i].entry
  BY DEF IInv, Types, Running
<1>2. /\ Len(Entries(frames)) = Len(Entries(frames')) + 1
      /\ SubSeq(Entries(frames), 1, Len(Entries(frames)) - 1) = Entries(frames')
      /\ Entries(frames)[Len(Entries(frames))] = frames[Len(frames)].entry
  BY <1>1, SnapshotPushed
<1>3. Entries(frames) # <<>>
  <2>1. Entries(frames) \in Seq([Slots -> Int]) /\ Len(Entries(frames)) = Len(frames)
    BY <1>1, EntriesType
  <2>2. Len(frames) # 0
    BY <1>1
  <2> QED
    BY <2>1, <2>2
<1>4. CASE success
  <2>1. Snapshots!Succeed
    BY <1>2, <1>3, <1>4 DEF Snapshots!Succeed, Snapshots!Popped, Entries
  <2> QED
    BY <2>1 DEF Snapshots!Next
<1>5. CASE ~success
  <2>1. Snapshots!Fail
    BY <1>2, <1>3, <1>5 DEF Snapshots!Fail, Snapshots!Popped, Snapshots!LastOf, Entries, Top
  <2> QED
    BY <2>1 DEF Snapshots!Next
<1> QED
  BY <1>4, <1>5

\* The root call ends.
LEMMA EndRootRefines ==
  ASSUME IInv, Running, NEW n \in Nat, NEW more, NEW success \in BOOLEAN, NEW halts \in BOOLEAN,
         EndRoot(Here, n, more, success, halts), Ends(success, halts)
  PROVE  Refines
<1>1. /\ state' = IF success THEN state ELSE Top.entry
      /\ state' \in [Slots -> Int]
      /\ rows' \subseteq Rows /\ Placed(rows', rw_counter') /\ History(rows', state')
      /\ rw_counter' \in Nat /\ is_success' = success /\ committed' = committed
  BY EndOfCallEffect DEF EndRoot
<1>2. /\ Len(frames) = 1 /\ frames' = <<>> /\ execution_state' = "EndTx"
      /\ tx' = [tx EXCEPT !.persistent = success]
      /\ UNCHANGED reversible_write_counter
  BY DEF EndRoot, IsRoot
<1>3. frames' \in Seq(CallFrames) /\ Len(frames') = 0
  BY <1>2
<1>4. Types'
  <2>1. tx' \in [id : TxIds, invalid : BOOLEAN, persistent : BOOLEAN]
    BY <1>2 DEF IInv, Types
  <2> QED
    BY <1>1, <1>2, <1>3, <2>1 DEF IInv, Types
<1>5. FramesInv'
  BY <1>2 DEF FramesInv
<1>6. Snapshots!Next
  BY <1>1, <1>2, <1>3, SnapshotPopped
<1>7. RowsEnd' = rw_counter'
  BY <1>2 DEF RowsEnd
<1> QED
  BY <1>1, <1>4, <1>5, <1>6, <1>7 DEF IInv, Refines

\* Any other call ends, and its caller goes on, with the callee's writes if it
\* succeeded.
LEMMA RestoreContextRefines ==
  ASSUME ConstantsAssumption, IInv, Running, NEW n \in Nat, NEW more, NEW success \in BOOLEAN,
         NEW halts \in BOOLEAN, RestoreContext(Here, n, more, success, halts), Ends(success, halts)
  PROVE  Refines
<1> DEFINE L == Len(frames)
           r == reversible_write_counter
           both == handed_over(Caller, Top)
           pending == IF success THEN both ELSE Caller.pending
           caller == [Caller EXCEPT !.pending = pending]
           counter == Caller.base + IF halts THEN r ELSE 0
<1>1. /\ L \in Nat /\ L >= 2 /\ frames \in Seq(CallFrames) /\ Top \in CallFrames
      /\ Caller \in CallFrames /\ Caller = frames[L - 1] /\ Top = frames[L]
      /\ DOMAIN frames = 1 .. L /\ L - 1 \in 1 .. L /\ L \in 1 .. L
      /\ r \in Nat /\ state \in [Slots -> Int]
  <2>1. L \in Nat \ {0} /\ frames \in Seq(CallFrames) /\ Top \in CallFrames /\ L # 1
    BY TopSound DEF RestoreContext, IsRoot, IInv, Types
  <2>2. L >= 2 /\ L - 1 \in 1 .. L /\ L \in 1 .. L
    <3> HIDE DEF L
    <3> QED
      BY <2>1
  <2>3. \A i \in 1 .. L : frames[i] \in CallFrames
    BY <2>1
  <2> QED
    BY <2>1, <2>2, <2>3 DEF Caller, Top, IInv, Types
<1>2. n + 12 \in Nat /\ EndOfCall(Here, n + 12, more, success, halts)
  BY DEF RestoreContext
<1>3. /\ state' = IF success THEN state ELSE Top.entry
      /\ state' \in [Slots -> Int]
      /\ rows' \subseteq Rows /\ Placed(rows', rw_counter') /\ History(rows', state')
      /\ rw_counter' \in Nat /\ is_success' = success /\ committed' = committed
  BY <1>2, EndOfCallEffect
<1>4. /\ Caller.base \in Nat /\ Caller.entry \in [Slots -> Int] /\ Top.entry \in [Slots -> Int]
      /\ Caller.pending \subseteq Pending /\ Top.pending \subseteq Pending
  BY <1>1 DEF CallFrames
<1>5. /\ Covered(Caller.pending, Caller.base) /\ Undoes(Caller.pending, Caller.entry, Top.entry)
      /\ Covered(Top.pending, r) /\ Undoes(Top.pending, Top.entry, state)
      /\ Chained(Caller.pending, Top.entry) /\ Chained(Top.pending, state)
      /\ Caller.saved = Caller.base
  BY <1>1, SMTT(30) DEF IInv, FramesInv, Counter, Seen
<1>6. /\ pending \subseteq Pending /\ Covered(pending, counter)
      /\ Undoes(pending, Caller.entry, state') /\ Chained(pending, state')
  <2>1. CASE success /\ halts
    <3>1. /\ both \subseteq Pending /\ Covered(both, Caller.base + r)
          /\ Undoes(both, Caller.entry, state) /\ Chained(both, state)
      BY <1>1, <1>4, <1>5, HandedOver
    <3> HIDE DEF both
    <3> QED
      BY <1>3, <2>1, <3>1
  <2>2. CASE ~success
    <3>1. Covered(Caller.pending, counter)
      <4>1. counter >= Caller.base /\ \A w \in Caller.pending : w.off \in Nat
        BY <1>1, <1>4 DEF Pending
      <4> QED
        BY <1>1, <1>4, <1>5, <4>1 DEF Covered
    <3> QED
      BY <1>3, <1>4, <1>5, <2>2, <3>1
  <2>3. success => halts
    BY DEF Ends
  <2> QED
    BY <2>1, <2>2, <2>3
<1>7. /\ frames' = Append(SubSeq(frames, 1, L - 2), caller)
      /\ reversible_write_counter' = counter
      /\ execution_state' = "Run" /\ tx' = tx
  <2>1. ~IsCreate(Top)
    BY <1>1 DEF IsCreate, CallFrames, ConstantsAssumption
  <2>2. [Caller EXCEPT !.outcomes = Caller.outcomes] = Caller /\ [Caller EXCEPT !.pending = Caller.pending] = Caller
    BY <1>1 DEF CallFrames
  <2>3. reversible_write_counter' = counter
    BY <1>5 DEF RestoreContext, restored_counter
  <2> QED
    BY <2>1, <2>2, <2>3 DEF RestoreContext
<1> HIDE DEF pending, counter, both
<1>8. caller \in CallFrames /\ caller.entry = Caller.entry /\ caller.pending = pending
  BY <1>1, <1>6 DEF CallFrames
<1> HIDE DEF caller
<1>9. /\ frames' \in Seq(CallFrames) /\ Len(frames') = L - 1 /\ DOMAIN frames' = 1 .. L - 1
      /\ frames'[L - 1] = caller /\ frames' # <<>>
      /\ \A i \in 1 .. L - 2 : frames'[i] = frames[i]
  <2>1. frames \in Seq(CallFrames) /\ Len(frames) >= 2 /\ caller \in CallFrames
    BY <1>1, <1>8
  <2>2. Returned(frames, frames', caller, CallFrames)
    BY <1>7, <2>1, Popped
  <2> QED
    BY <2>2 DEF Returned
<1>10. \A i \in 1 .. L - 1 : frames'[i].entry = frames[i].entry
  <2>0. L \in Nat /\ frames'[L - 1] = caller /\ frames[L - 1] = Caller /\ caller.entry = Caller.entry
        /\ \A i \in 1 .. L - 2 : frames'[i] = frames[i]
    BY <1>1, <1>8, <1>9
  <2> HIDE DEF L
  <2> SUFFICES ASSUME NEW i \in 1 .. L - 1
               PROVE  frames'[i].entry = frames[i].entry
    OBVIOUS
  <2>1. CASE i = L - 1
    BY <2>0, <2>1
  <2>2. CASE i # L - 1
    <3>1. i \in 1 .. L - 2
      BY <2>0, <2>2
    <3> QED
      BY <2>0, <3>1
  <2> QED
    BY <2>1, <2>2
<1>11. Types'
  <2>1. counter \in Nat
    BY <1>1, <1>4 DEF counter
  <2> QED
    BY <1>3, <1>7, <1>9, <2>1 DEF IInv, Types
<1>12. FramesInv'
  <2> SUFFICES ASSUME NEW i \in 1 .. L - 1
               PROVE  /\ Covered(frames'[i].pending, Counter(i)')
                      /\ Undoes(frames'[i].pending, frames'[i].entry, Seen(i)')
                      /\ Chained(frames'[i].pending, Seen(i)')
                      /\ i < L - 1 => frames'[i].saved = frames'[i].base
    BY <1>9 DEF FramesInv
  <2>1. CASE i = L - 1
    BY <1>6, <1>7, <1>8, <1>9, <2>1 DEF Counter, Seen
  <2>2. CASE i \in 1 .. L - 2
    <3>1. frames'[i] = frames[i] /\ frames'[i + 1].entry = frames[i + 1].entry
      BY <1>1, <1>9, <1>10, <2>2
    <3>2. i # L /\ i # L - 1 /\ i < L /\ i \in 1 .. L
      <4> HIDE DEF L
      <4> QED
        BY <1>1, <2>2
    <3>3. Counter(i)' = Counter(i) /\ Seen(i)' = Seen(i)
      BY <1>9, <3>1, <3>2 DEF Counter, Seen
    <3> QED
      BY <1>1, <3>1, <3>2, <3>3 DEF IInv, FramesInv
  <2>3. i = L - 1 \/ i \in 1 .. L - 2
    <3> HIDE DEF L
    <3> QED
      BY <1>1
  <2> QED
    BY <2>1, <2>2, <2>3
<1>13. Snapshots!Next
  BY <1>1, <1>3, <1>9, <1>10, SnapshotPopped
<1>14. RowsEnd' = rw_counter'
  BY <1>7 DEF RowsEnd
<1> QED
  BY <1>3, <1>11, <1>12, <1>13, <1>14 DEF IInv, Refines

\* STOP, RETURN, REVERT and the errors end calls in these ways.
Halts(n, success, halts) ==
  /\ Ends(success, halts)
  /\ EndRoot(Here, n, 0, success, halts) \/ RestoreContext(Here, n, 0, success, halts)

LEMMA HaltEnds ==
  ASSUME ConstantsAssumption, Counted, IInv, Stop \/ Return \/ Revert \/ Error
  PROVE  /\ Running
         /\ \E n \in {1, 4, 5}, success, halts \in BOOLEAN : Halts(n, success, halts)
<1>1. Running /\ Top \in CallFrames
  BY TopSound DEF Stop, Return, Revert, Error
<1>2. ~IsCreate(Top)
  BY <1>1 DEF IsCreate, CallFrames, ConstantsAssumption
<1>3. CASE Stop \/ Return
  <2>1. Ends(TRUE, TRUE)
    BY DEF Ends
  <2>2. \E n \in {1, 4, 5} : Halts(n, TRUE, TRUE)
    BY <1>3, <2>1 DEF Stop, Return, return_data, Halts
  <2> QED
    BY <1>1, <2>2
<1>4. CASE Revert
  <2>1. Ends(FALSE, TRUE)
    BY <1>4 DEF Ends, Revert, Counted
  <2>2. \E n \in {1, 4, 5} : Halts(n, FALSE, TRUE)
    BY <1>2, <1>4, <2>1 DEF Revert, return_data, return_code, Halts
  <2> QED
    BY <1>1, <2>2
<1>5. CASE Error
  <2>1. Ends(FALSE, FALSE)
    BY DEF Ends
  <2>2. \E n \in {1, 4, 5} : Halts(n, FALSE, FALSE)
    BY <1>5, <2>1 DEF Error, Halts
  <2> QED
    BY <1>1, <2>2
<1> QED
  BY <1>3, <1>4, <1>5

LEMMA HaltRefines ==
  ASSUME ConstantsAssumption, Counted, IInv, Stop \/ Return \/ Revert \/ Error
  PROVE  Refines
<1>1. PICK n \in {1, 4, 5}, success, halts \in BOOLEAN : Halts(n, success, halts)
  BY HaltEnds
<1>2. n \in Nat
  OBVIOUS
<1> QED
  BY <1>1, <1>2, HaltEnds, EndRootRefines, RestoreContextRefines DEF Halts

\* There are no creations and no precompiled contracts.
LEMMA NothingElse ==
  ASSUME ConstantsAssumption, IInv, Counted
  PROVE  /\ ~CallPrecompile /\ ~PrecompileReturns /\ ~PrecompileFails
         /\ ~CreatePlain /\ ~CreateContract /\ ~ReturnCode
<1>1. ~CallPrecompile /\ ~CreatePlain /\ ~CreateContract
  BY DEF CallPrecompile, CreatePlain, CreateContract, Counted
<1>2. ~PrecompileReturns /\ ~PrecompileFails
  BY DEF PrecompileReturns, PrecompileFails, IInv, Types
<1>3. ~ReturnCode
  BY TopSound DEF ReturnCode, return_code, IsCreate, CallFrames, ConstantsAssumption
<1> QED
  BY <1>1, <1>2, <1>3

-----------------------------------------------------------------------------
(* The end of a transaction and of the block.                              *)

\* The three writes of the end of a transaction.
LEMMA EndTxRefines ==
  ASSUME ConstantsAssumption, IInv, NEW next \in {"BeginTx", "EndBlock"}, NEW n,
         NEW delta \in Nat, delta >= 9, EndTx(next, n, delta),
         tx' \in [id : TxIds, invalid : BOOLEAN, persistent : BOOLEAN]
  PROVE  Refines
<1>1. /\ frames = <<>> /\ rw_counter \in Nat /\ state \in [Slots -> Int] /\ rows \subseteq Rows
      /\ tx.id \in TxIds
  BY DEF EndTx, IInv, Types
<1>2. PICK used \in GasUsed :
        LET t == [state |-> state, rows |-> rows, pending |-> {}]
            refund == Smaller(used \div MaxRefundQuotient, state[Refund(tx.id)])
            first == tx.id = 1
            refunded == Write(t, rw_counter + 3, Balance(Sender),
                              state[Balance(Sender)] + (Gas - used) + refund)
            tipped == Write(refunded, rw_counter + 4, Balance(Coinbase),
                            refunded.state[Balance(Coinbase)] + used)
            receipt == Write(tipped, rw_counter + (IF first THEN 7 ELSE 8),
                             CumulativeGasUsed(tx.id),
                             used + IF first THEN 0 ELSE state[CumulativeGasUsed(tx.id - 1)])
        IN  /\ state' = receipt.state
            /\ rows' = receipt.rows
            /\ rw_counter' = rw_counter + delta - (IF first THEN 1 ELSE 0)
  BY DEF EndTx
<1> DEFINE t == [state |-> state, rows |-> rows, pending |-> {}]
           refund == Smaller(used \div MaxRefundQuotient, state[Refund(tx.id)])
           first == tx.id = 1
           back == state[Balance(Sender)] + (Gas - used) + refund
           refunded == Write(t, rw_counter + 3, Balance(Sender), back)
           tip == refunded.state[Balance(Coinbase)] + used
           tipped == Write(refunded, rw_counter + 4, Balance(Coinbase), tip)
           at == rw_counter + (IF first THEN 7 ELSE 8)
           sum == used + IF first THEN 0 ELSE state[CumulativeGasUsed(tx.id - 1)]
           receipt == Write(tipped, at, CumulativeGasUsed(tx.id), sum)
           after == rw_counter + delta - (IF first THEN 1 ELSE 0)
<1>3. state' = receipt.state /\ rows' = receipt.rows /\ rw_counter' = after
  BY <1>2
<1>4. /\ rw_counter + 3 \in Nat /\ rw_counter + 3 >= rw_counter
      /\ rw_counter + 4 \in Nat /\ rw_counter + 4 > rw_counter + 3 /\ rw_counter + 4 >= rw_counter + 4
      /\ rw_counter + 5 \in Nat /\ rw_counter + 5 > rw_counter + 4
      /\ at \in Nat /\ at >= rw_counter + 5 /\ after \in Nat /\ after > at
  BY <1>1
<1>5. /\ Balance(Sender) \in Slots /\ Balance(Coinbase) \in Slots
      /\ Refund(tx.id) \in Slots /\ CumulativeGasUsed(tx.id) \in Slots
  BY <1>1, SlotsAreSlots, AccountsAreAccounts
<1>6. used \in Int /\ Gas \in Int /\ used \div MaxRefundQuotient \in Int
  BY DEF ConstantsAssumption
<1>7. back \in Int
  <2>1. state[Balance(Sender)] \in Int /\ state[Refund(tx.id)] \in Int
    BY <1>1, <1>5
  <2>2. refund \in Int
    BY <1>6, <2>1 DEF Smaller
  <2> HIDE DEF refund
  <2> QED
    BY <1>6, <2>1, <2>2
<1>8. sum \in Int
  <2>1. CASE first
    BY <1>6, <2>1
  <2>2. CASE ~first
    <3>1. tx.id - 1 \in TxIds
      BY <1>1, <2>2 DEF TxIds, ConstantsAssumption
    <3>2. state[CumulativeGasUsed(tx.id - 1)] \in Int
      BY <1>1, <3>1, SlotsAreSlots
    <3> QED
      BY <1>6, <2>2, <3>2
  <2> QED
    BY <2>1, <2>2
<1>9. Clean(t, rw_counter)
  <2>1. Placed(rows, rw_counter)
    BY RowsBelow DEF EndTx
  <2> QED
    BY <1>1, <2>1 DEF Clean, Sound, Traces, Covered, Undoes, Chained, IInv
<1> HIDE DEF t, back, at, sum, after
<1>10. Clean(refunded, rw_counter + 4)
  BY <1>1, <1>4, <1>5, <1>7, <1>9, WriteClean
<1>11. tip \in Int
  <2> HIDE DEF refunded
  <2>1. refunded.state[Balance(Coinbase)] \in Int
    BY <1>5, <1>10 DEF Clean, Sound, Traces
  <2> QED
    BY <1>6, <2>1
<1> HIDE DEF refunded, tip
<1>12. Clean(tipped, rw_counter + 5)
  BY <1>4, <1>5, <1>10, <1>11, WriteClean
<1> HIDE DEF tipped
<1>13. Clean(receipt, after)
  BY <1>4, <1>5, <1>8, <1>12, WriteClean
<1> HIDE DEF receipt
<1>14. /\ state' \in [Slots -> Int] /\ rows' \subseteq Rows
       /\ rw_counter' \in Nat /\ Placed(rows, RowsEnd)' /\ History(rows', state')
  <2>1. execution_state' # "Done"
    BY DEF EndTx
  <2> QED
    BY <1>3, <1>4, <1>13, <2>1 DEF Clean, Sound, Traces, RowsEnd
<1>15. /\ frames' = frames /\ execution_state' \in {"BeginTx", "EndTx", "EndBlock", "Done"}
       /\ committed' \in [Slots -> Int]
       /\ UNCHANGED <<reversible_write_counter, is_success>>
  BY DEF EndTx, IInv, Types
<1> QED
  BY <1>1, <1>14, <1>15, OutsideRefines

\* The transaction ends, and the next one begins or the block ends.
LEMMA EndTxsRefine ==
  ASSUME ConstantsAssumption, IInv, EndTxToBeginTx \/ EndTxToEndBlock
  PROVE  Refines
<1>1. tx \in [id : TxIds, invalid : BOOLEAN, persistent : BOOLEAN]
  BY DEF IInv, Types
<1>2. CASE EndTxToBeginTx
  <2>1. tx.id \in 1 .. MaxTxs /\ tx.id < MaxTxs /\ tx' = [tx EXCEPT !.id = tx.id + 1]
    BY <1>1, <1>2 DEF EndTxToBeginTx, TxIds
  <2>2. tx.id + 1 \in TxIds
    BY <2>1 DEF TxIds, ConstantsAssumption
  <2>3. tx' \in [id : TxIds, invalid : BOOLEAN, persistent : BOOLEAN]
    BY <1>1, <2>1, <2>2
  <2>4. EndTx("BeginTx", 1, 10) /\ 10 \in Nat /\ 10 >= 9
    BY <1>2 DEF EndTxToBeginTx
  <2> QED
    BY <2>3, <2>4, EndTxRefines
<1>3. CASE EndTxToEndBlock
  <2>1. EndTx("EndBlock", 0, 9) /\ 9 \in Nat /\ 9 >= 9 /\ tx' = tx
    BY <1>3 DEF EndTxToEndBlock
  <2> QED
    BY <1>1, <2>1, EndTxRefines
<1> QED
  BY <1>2, <1>3

\* The block ends without withdrawals to pay.
-----------------------------------------------------------------------------
(* Withdrawals.                                                            *)

LEMMA PaidOutFinite ==
  ASSUME ConstantsAssumption, NEW table \in WithdrawalTables
  PROVE  /\ Len(table) \in Nat /\ DOMAIN table = 1 .. Len(table)
         /\ \A i \in DOMAIN table : table[i].address \in Accounts /\ table[i].amount \in Nat
         /\ IsFiniteSet(PaidOut(table)) /\ Cardinality(PaidOut(table)) \in Nat
<1> DEFINE R == [address : Accounts, amount : Nat]
<1>1. table \in Seq(R)
  BY DEF ConstantsAssumption
<1> HIDE DEF R
<1>2. /\ Len(table) \in Nat /\ DOMAIN table = 1 .. Len(table)
      /\ \A i \in DOMAIN table : table[i] \in R
  <2>1. Len(table) \in Nat /\ DOMAIN table = 1 .. Len(table)
    BY <1>1
  <2>2. \A i \in 1 .. Len(table) : table[i] \in R
    BY <1>1
  <2> QED
    BY <2>1, <2>2
<1>3. PaidOut(table) \in SUBSET (1 .. Len(table))
  <2>1. PaidOut(table) \subseteq DOMAIN table
    BY Zenon DEF PaidOut
  <2> QED
    BY <1>2, <2>1, Zenon
<1>4. IsFiniteSet(1 .. Len(table))
  <2>1. 1 \in Int /\ Len(table) \in Int
    BY <1>2
  <2> QED
    BY <2>1, FS_Interval, Zenon
<1>5. IsFiniteSet(PaidOut(table))
  BY <1>3, <1>4, FS_Subset, Zenon
<1>6. Cardinality(PaidOut(table)) \in Nat
  BY <1>5, FS_CardinalityType, Zenon
<1>7. \A i \in DOMAIN table : table[i].address \in Accounts /\ table[i].amount \in Nat
  BY <1>2 DEF R
<1> QED
  BY <1>2, <1>5, <1>6, <1>7

\* Each payment takes one counter, and padding none.
LEMMA CreditAt ==
  ASSUME ConstantsAssumption, NEW table \in WithdrawalTables, NEW c \in Nat
  PROVE  /\ credit_at(table, c, 1) = c
         /\ credit_at(table, c, Len(table) + 1) = c + Cardinality(PaidOut(table))
         /\ \A i \in 1 .. Len(table) :
              /\ credit_at(table, c, i) \in Nat
              /\ credit_at(table, c, i + 1)
                   = credit_at(table, c, i) + (IF i \in PaidOut(table) THEN 1 ELSE 0)
<1> DEFINE P == PaidOut(table)
           Before(i) == {j \in P : j < i}
<1>1. /\ Len(table) \in Nat /\ IsFiniteSet(P) /\ P \subseteq 1 .. Len(table)
  <2>1. PaidOut(table) \subseteq DOMAIN table
    BY Zenon DEF PaidOut
  <2>2. Len(table) \in Nat /\ DOMAIN table = 1 .. Len(table) /\ IsFiniteSet(PaidOut(table))
    BY PaidOutFinite, Zenon
  <2> QED
    BY <2>1, <2>2, Zenon
<1> HIDE DEF P
<1>2. \A i \in Nat : IsFiniteSet(Before(i)) /\ Cardinality(Before(i)) \in Nat
  <2> SUFFICES ASSUME NEW i \in Nat
               PROVE  IsFiniteSet(Before(i)) /\ Cardinality(Before(i)) \in Nat
    OBVIOUS
  <2>1. Before(i) \in SUBSET P
    OBVIOUS
  <2> HIDE DEF Before
  <2>2. IsFiniteSet(Before(i))
    BY <1>1, <2>1, FS_Subset, Zenon
  <2> QED
    BY <2>2, FS_CardinalityType, Zenon
<1>3. Before(1) = {} /\ Before(Len(table) + 1) = P
  <2>1. \A j \in P : j \in Nat /\ 1 <= j /\ j <= Len(table)
    BY <1>1
  <2>2. \A j \in P : ~(j < 1) /\ j < Len(table) + 1
    BY <1>1, <2>1
  <2> QED
    BY <2>2
<1>4. ASSUME NEW i \in 1 .. Len(table)
      PROVE  Cardinality(Before(i + 1)) = Cardinality(Before(i)) + (IF i \in P THEN 1 ELSE 0)
  <2>1. i \in Nat /\ i \notin Before(i)
    OBVIOUS
  <2>4. \A j \in P : j \in Nat
    BY <1>1
  <2>5. \A j : j \in Before(i + 1) <=> j \in P /\ (j < i \/ j = i)
    BY <2>1, <2>4
  <2>6. \A j : j \in Before(i) <=> j \in P /\ j < i
    OBVIOUS
  <2> HIDE DEF Before
  <2>2. CASE i \in P
    <3>1. Before(i + 1) = Before(i) \cup {i}
      BY <2>2, <2>5, <2>6
    <3>2. IsFiniteSet(Before(i))
      BY <1>2, <2>1, Zenon
    <3>3. Cardinality(Before(i) \cup {i}) = IF i \in Before(i) THEN Cardinality(Before(i))
                                                              ELSE Cardinality(Before(i)) + 1
      BY <3>2, FS_AddElement, Zenon
    <3> QED
      BY <2>1, <2>2, <3>1, <3>3
  <2>3. CASE i \notin P
    <3>1. Before(i + 1) = Before(i)
      BY <2>3, <2>5, <2>6
    <3>2. Cardinality(Before(i)) \in Nat
      BY <1>2, <2>1
    <3> QED
      BY <2>3, <3>1, <3>2
  <2> QED
    BY <2>2, <2>3
<1>5. \A i : credit_at(table, c, i) = c + Cardinality(Before(i))
  BY DEF credit_at, P
<1> HIDE DEF Before
<1>6. Cardinality(Before(1)) = 0
  BY <1>3, FS_EmptySet
<1>7. \A i \in 1 .. Len(table) : i \in Nat
  OBVIOUS
<1>8. /\ credit_at(table, c, 1) = c
      /\ credit_at(table, c, Len(table) + 1) = c + Cardinality(P)
  BY <1>3, <1>5, <1>6
<1>9. ASSUME NEW i \in 1 .. Len(table)
      PROVE  /\ credit_at(table, c, i) \in Nat
             /\ credit_at(table, c, i + 1)
                  = credit_at(table, c, i) + (IF i \in P THEN 1 ELSE 0)
  <2>1. i \in Nat /\ Cardinality(Before(i)) \in Nat
    BY <1>2, <1>7
  <2>2. Cardinality(Before(i + 1)) = Cardinality(Before(i)) + (IF i \in P THEN 1 ELSE 0)
    BY <1>4
  <2>3. /\ credit_at(table, c, i) = c + Cardinality(Before(i))
        /\ credit_at(table, c, i + 1) = c + Cardinality(Before(i + 1))
    BY <1>5
  <2> QED
    BY <2>1, <2>2, <2>3
<1> QED
  BY <1>8, <1>9 DEF P

\* What is paid to, and where.
Payment(table, c, t, i) ==
  LET slot == Balance(table[i].address)
  IN  IF i \in PaidOut(table)
      THEN Write(t, credit_at(table, c, i), slot, t.state[slot] + table[i].amount)
      ELSE t

\* g goes through the table, one withdrawal after the other.
Pays(g, table, c, n) ==
  g = [i \in 0 .. n |-> IF i = 0 THEN [state |-> state, rows |-> rows, pending |-> {}]
                         ELSE Payment(table, c, g[i - 1], i)]

LEMMA PaysExist ==
  ASSUME NEW table, NEW c, NEW n \in Nat
  PROVE  \E g : Pays(g, table, c, n)
<1> DEFINE S == {m \in Nat : \E g : Pays(g, table, c, m)}
           start == [state |-> state, rows |-> rows, pending |-> {}]
           next(t, i) == Payment(table, c, t, i)
<1>1. \A g, m : Pays(g, table, c, m) <=>
        g = [i \in 0 .. m |-> IF i = 0 THEN start ELSE next(g[i - 1], i)]
  BY DEF Pays
<1> HIDE DEF start, next
<1>2. 0 \in S
  <2> DEFINE g == [i \in 0 .. 0 |-> start]
  <2>1. g = [i \in 0 .. 0 |-> IF i = 0 THEN start ELSE next(g[i - 1], i)]
    OBVIOUS
  <2> QED
    BY <1>1, <2>1
<1>3. ASSUME NEW m \in Nat, m \in S
      PROVE  m + 1 \in S
  <2>1. PICK g : Pays(g, table, c, m)
    BY <1>3
  <2>2. \A i \in 0 .. m : g[i] = IF i = 0 THEN start ELSE next(g[i - 1], i)
    BY <1>1, <2>1
  <2> DEFINE h == [i \in 0 .. m + 1 |-> IF i = m + 1 THEN next(g[m], m + 1) ELSE g[i]]
             body(i) == IF i = 0 THEN start ELSE next(h[i - 1], i)
  <2>3. ASSUME NEW i \in 0 .. m + 1
        PROVE  h[i] = body(i)
    <3>1. CASE i = m + 1
      <4>1. m \in 0 .. m + 1 /\ m # m + 1 /\ i # 0 /\ i - 1 = m
        BY <3>1
      <4> QED
        BY <3>1, <4>1
    <3>2. CASE i # m + 1
      <4>1. i \in 0 .. m /\ (i # 0 => i - 1 \in 0 .. m + 1 /\ i - 1 # m + 1)
        BY <3>2
      <4>2. h[i] = g[i] /\ (i # 0 => h[i - 1] = g[i - 1])
        BY <3>2, <4>1
      <4> QED
        BY <2>2, <4>1, <4>2
    <3> QED
      BY <3>1, <3>2
  <2>4. h = [i \in 0 .. m + 1 |-> body(i)]
    BY <2>3
  <2> HIDE DEF h
  <2>5. Pays(h, table, c, m + 1)
    BY <1>1, <2>4
  <2> QED
    BY <2>5
<1> HIDE DEF S
<1>4. n \in S
  BY <1>2, <1>3, Induct
<1> QED
  BY <1>4 DEF S

\* The payments of a table, each of which finds what the one before it left.
LEMMA CreditedBySteps ==
  ASSUME ConstantsAssumption, NEW table \in WithdrawalTables, NEW c
  PROVE  \E g : /\ Credited(table, c) = g[Len(table)]
                /\ g[0] = [state |-> state, rows |-> rows, pending |-> {}]
                /\ \A i \in 1 .. Len(table) : g[i] = Payment(table, c, g[i - 1], i)
<1> DEFINE n == Len(table)
           h == CHOOSE g : Pays(g, table, c, n)
           start == [state |-> state, rows |-> rows, pending |-> {}]
<1>1. n \in Nat
  BY PaidOutFinite
<1>2. Pays(h, table, c, n)
  BY <1>1, PaysExist
<1>3. Credited(table, c) = h[n]
  BY DEF Credited, Pays, Payment
<1> HIDE DEF h
<1>4. \A i \in 0 .. n : h[i] = IF i = 0 THEN start ELSE Payment(table, c, h[i - 1], i)
  BY <1>2 DEF Pays
<1>5. 0 \in 0 .. n /\ \A i \in 1 .. n : i \in 0 .. n /\ i # 0
  BY <1>1
<1> QED
  BY <1>3, <1>4, <1>5

\* The payments are rows behind all others, on as many counters as there are payments.
LEMMA CreditedClean ==
  ASSUME ConstantsAssumption, NEW table \in WithdrawalTables, NEW c \in Nat,
         state \in [Slots -> Int], rows \subseteq Rows, Placed(rows, c), History(rows, state)
  PROVE  Clean(Credited(table, c), c + Cardinality(PaidOut(table)))
<1> DEFINE n == Len(table)
           at(i) == credit_at(table, c, i)
<1>1. PICK g : /\ Credited(table, c) = g[n]
               /\ g[0] = [state |-> state, rows |-> rows, pending |-> {}]
               /\ \A i \in 1 .. n : g[i] = Payment(table, c, g[i - 1], i)
  BY CreditedBySteps, ZenonT(60)
<1>2. n \in Nat /\ DOMAIN table = 1 .. n
      /\ \A i \in 1 .. n : table[i].address \in Accounts /\ table[i].amount \in Nat
  BY PaidOutFinite
<1>3. /\ at(1) = c /\ at(n + 1) = c + Cardinality(PaidOut(table))
      /\ \A i \in 1 .. n : at(i) \in Nat
                         /\ at(i + 1) = at(i) + (IF i \in PaidOut(table) THEN 1 ELSE 0)
  BY CreditAt
<1> HIDE DEF n, at
<1> DEFINE S == {m \in Nat : m <= n => Clean(g[m], at(m + 1))}
<1>4. 0 \in S
  <2>1. Clean(g[0], c)
    BY <1>1 DEF Clean, Sound, Traces, Covered, Undoes, Chained
  <2> QED
    BY <1>3, <2>1
<1>5. ASSUME NEW m \in Nat, m \in S
      PROVE  m + 1 \in S
  <2> SUFFICES ASSUME m + 1 <= n
               PROVE  Clean(g[m + 1], at((m + 1) + 1))
    OBVIOUS
  <2> DEFINE i == m + 1
             t == g[m]
             slot == Balance(table[i].address)
  <2>1. i \in 1 .. n /\ i - 1 = m /\ Clean(t, at(i))
    BY <1>2, <1>5
  <2>2. g[i] = Payment(table, c, t, i)
    BY <1>1, <2>1
  <2>3. at(i) \in Nat /\ at(i + 1) = at(i) + (IF i \in PaidOut(table) THEN 1 ELSE 0)
    BY <1>3, <2>1
  <2>4. slot \in Slots /\ table[i].amount \in Int
    BY <1>2, <2>1, SlotsAreSlots
  <2> HIDE DEF i, t, slot
  <2>5. t.state[slot] + table[i].amount \in Int
    <3>1. t.state[slot] \in Int
      BY <2>1, <2>4 DEF Clean, Sound, Traces
    <3> QED
      BY <2>4, <3>1
  <2>6. CASE i \in PaidOut(table)
    <3>1. g[i] = Write(t, at(i), slot, t.state[slot] + table[i].amount)
      BY <2>2, <2>6 DEF Payment, slot, at
    <3>2. at(i + 1) \in Nat /\ at(i + 1) > at(i) /\ at(i) >= at(i)
      BY <2>3, <2>6
    <3>3. Clean(g[i], at(i + 1))
      BY <2>1, <2>3, <2>4, <2>5, <3>1, <3>2, WriteClean
    <3> QED
      BY <3>3 DEF i
  <2>7. CASE i \notin PaidOut(table)
    <3>1. g[i] = t /\ at(i + 1) = at(i)
      BY <2>2, <2>3, <2>7 DEF Payment
    <3>2. Clean(g[i], at(i + 1))
      BY <2>1, <3>1
    <3> QED
      BY <3>2 DEF i
  <2> QED
    BY <2>6, <2>7
<1> HIDE DEF S
<1>6. n \in S
  BY <1>2, <1>4, <1>5, Induct
<1> QED
  BY <1>1, <1>2, <1>3, <1>6 DEF S

\* The block ends, and its withdrawals are paid where no call is left to undo them.
LEMMA EndBlocksRefine ==
  ASSUME ConstantsAssumption, IInv, EndEmptyBlock \/ EndBlock
  PROVE  Refines
<1>1. /\ frames = <<>> /\ frames' = frames /\ rw_counter' = rw_counter /\ execution_state' = "Done"
      /\ tx' = tx /\ committed' = committed /\ withdrawals' \in WithdrawalTables
      /\ execution_state # "Done" /\ rw_counter \in Nat
      /\ state \in [Slots -> Int] /\ committed \in [Slots -> Int] /\ rows \subseteq Rows
      /\ tx \in [id : TxIds, invalid : BOOLEAN, persistent : BOOLEAN]
      /\ UNCHANGED <<reversible_write_counter, is_success>>
  BY DEF EndEmptyBlock, EndBlock, IInv, Types
<1>2. RowsEnd' = rw_counter + 2 + Cardinality(PaidOut(withdrawals'))
  BY <1>1 DEF RowsEnd, total_withdrawals
<1>3. Placed(rows, rw_counter) /\ History(rows, state)
  BY <1>1, RowsBelow DEF IInv
<1>4. \A row \in rows : row.rwc \in Nat
  BY <1>1 DEF Rows
<1>5. CASE EndEmptyBlock
  <2>1. UNCHANGED <<state, rows>> /\ PaidOut(withdrawals') = {}
    BY <1>5 DEF EndEmptyBlock
  <2>2. RowsEnd' = rw_counter + 2
    BY <1>1, <1>2, <2>1, FS_EmptySet
  <2>3. Placed(rows, RowsEnd)'
    BY <1>1, <1>3, <1>4, <2>1, <2>2 DEF Placed
  <2> QED
    BY <1>1, <1>3, <2>1, <2>3, OutsideRefines
<1>6. CASE EndBlock
  <2> DEFINE t == Credited(withdrawals', rw_counter + 2)
  <2>1. state' = t.state /\ rows' = t.rows
    BY <1>6 DEF EndBlock
  <2>2. Placed(rows, rw_counter + 2)
    BY <1>1, <1>3, <1>4 DEF Placed
  <2>3. Clean(t, RowsEnd')
    <3>1. rw_counter + 2 \in Nat
      BY <1>1
    <3> QED
      BY <1>1, <1>2, <1>3, <2>2, <3>1, CreditedClean
  <2> HIDE DEF t
  <2>4. Placed(rows, RowsEnd)' /\ History(rows', state') /\ rows' \subseteq Rows
        /\ state' \in [Slots -> Int]
    BY <2>1, <2>3 DEF Clean, Sound, Traces
  <2> QED
    BY <1>1, <2>4, OutsideRefines
<1> QED
  BY <1>5, <1>6

-----------------------------------------------------------------------------
(* The specification.                                                      *)

LEMMA InitialStateType ==
  ASSUME ConstantsAssumption, NEW v \in Values, NEW h \in {NoAccount, EmptyCode}
  PROVE  InitialState(v, h) \in [Slots -> Int]
<1>1. v \in Int /\ h \in Int /\ InitialBalance \in Int
  BY DEF ConstantsAssumption, NoAccount, EmptyCode
<1> QED
  BY <1>1 DEF InitialState

LEMMA InitRefines ==
  ASSUME ConstantsAssumption, Init
  PROVE  IInv /\ Snapshots!Init
<1>1. state \in [Slots -> Int]
  BY InitialStateType DEF Init
<1>2. 1 \in TxIds
  BY DEF TxIds, ConstantsAssumption
<1>3. Types
  <2>1. tx \in [id : TxIds, invalid : BOOLEAN, persistent : BOOLEAN]
    BY <1>2 DEF Init
  <2>2. frames \in Seq(CallFrames) /\ frames = <<>> /\ execution_state # "Run"
    BY DEF Init
  <2> QED
    BY <1>1, <2>1, <2>2 DEF Init, Types
<1>4. Placed(rows, RowsEnd) /\ History(rows, state) /\ FramesInv
  BY DEF Init, Placed, History, FramesInv
<1>5. Snapshots!Init
  BY <1>1 DEF Init, Snapshots!Init
<1> QED
  BY <1>3, <1>4, <1>5 DEF IInv

\* Every step keeps the invariant, and is one of SnapshotEvm or none.
LEMMA NextRefines ==
  ASSUME ConstantsAssumption, Counted, IInv, [Next]_vars
  PROVE  IInv' /\ [Snapshots!Next]_(Snapshots!vars)
<1>1. CASE UNCHANGED vars
  <2>1. IInv'
    BY <1>1 DEF vars, IInv, Types, RowsEnd, total_withdrawals, Placed, History, FramesInv,
       Counter, Seen
  <2>2. UNCHANGED Snapshots!vars
    BY <1>1 DEF vars, Snapshots!vars
  <2> QED
    BY <2>1, <2>2
<1>2. CASE Next
  <2>1. Refines
    BY <1>2, BeginTxCallRefines, BeginTxPlainRefines, SloadRefines, SstoreRefines,
       TouchAccountRefines, CallPlainRefines, CallContractRefines, HaltRefines, NothingElse,
       EndTxsRefine, EndBlocksRefine
       DEF Next
  <2> QED
    BY <2>1 DEF Refines
<1> QED
  BY <1>1, <1>2

\* The invariant: while calls nest, each call's counter covers its pending writes and
\* undoing these leads back to the state it began with.
THEOREM CallsUndoable ==
  ASSUME Counted
  PROVE  Spec => []IInv
<1>1. Init => IInv
  BY ConstantsAssumption, InitRefines
<1>2. IInv /\ [Next]_vars => IInv'
  BY ConstantsAssumption, NextRefines
<1> QED
  BY <1>1, <1>2, PTL DEF Spec

\* No two rows of the rw table share a counter, those that undo failed calls included
\* (end_block.py:171).
THEOREM CountersUnique ==
  ASSUME Counted
  PROVE  Spec => []UniqueCounters
<1>1. IInv => UniqueCounters
  BY DEF IInv, Placed, UniqueCounters
<1> QED
  BY <1>1, CallsUndoable, PTL

\* Sorted by counter, the rows of a slot are a history that ends in the present state,
\* although the rows that undo a failed call are made from writes that lie many steps
\* and calls before them.
THEOREM RowsAreAHistory ==
  ASSUME Counted
  PROVE  Spec => []RowsAreHistory
<1>1. IInv => RowsAreHistory
  <2> SUFFICES ASSUME IInv, NEW r \in rows
               PROVE  LET Mine == {q \in rows : q.slot = r.slot}
                          Before == {q \in Mine : q.rwc < r.rwc}
                      IN  /\ \A q \in Before : (\A p \in Before : p.rwc <= q.rwc) => r.prev = q.val
                          /\ (\A q \in Mine : q.rwc <= r.rwc) => state[r.slot] = r.val
    BY DEF RowsAreHistory
  <2> DEFINE Mine == {q \in rows : q.slot = r.slot}
             Before == {q \in Mine : q.rwc < r.rwc}
  <2>1. \A q \in Before : (\A p \in Before : p.rwc <= q.rwc) => FollowsInTable(q, r, rows)
    BY DEF FollowsInTable
  <2>2. (\A q \in Mine : q.rwc <= r.rwc) => IsFinal(r, rows)
    BY DEF IsFinal
  <2> QED
    BY <2>1, <2>2 DEF IInv, History
<1> QED
  BY <1>1, CallsUndoable, PTL

\* The counters that a failing call skips are enough for everything it has to undo, its
\* successful callees' writes included (instruction.py:339-343).
THEOREM CounterCovers ==
  ASSUME Counted
  PROVE  Spec => []CounterCoversPending
<1>1. IInv => CounterCoversPending
  <2> SUFFICES ASSUME IInv, frames # <<>>
               PROVE  Covered(Top.pending, reversible_write_counter)
    BY DEF CounterCoversPending, Covered
  <2>1. Running
    BY DEF IInv, Types, Running
  <2> QED
    BY <2>1, TopSound DEF Sound, Here
<1> QED
  BY <1>1, CallsUndoable, PTL

\* A failed call, however deep and with all its successful callees, leaves the state it
\* began with, and a successful one all it did: the circuit's calls are SnapshotEvm's.
THEOREM RestoresSnapshots ==
  ASSUME Counted
  PROVE  Spec => ImplementsSnapshots
<1>1. Init => Snapshots!Init
  BY ConstantsAssumption, InitRefines
<1>2. IInv /\ [Next]_vars => [Snapshots!Next]_(Snapshots!vars)
  BY ConstantsAssumption, NextRefines
<1> QED
  BY <1>1, <1>2, CallsUndoable, PTL DEF Spec, ImplementsSnapshots, Snapshots!Spec

-----------------------------------------------------------------------------
(* Sums over finite sets.                                                  *)

Pick(s) == CHOOSE x \in s : TRUE

\* g gives the sum of f over each of the sets in D.
Sums(g, f, D) ==
  g = [s \in D |-> IF s = {} THEN 0 ELSE f[Pick(s)] + g[s \ {Pick(s)}]]

\* What is left of a set once an element is taken out.
LEMMA Rest ==
  ASSUME NEW A, IsFiniteSet(A), NEW s \in SUBSET A, s # {}
  PROVE  /\ Pick(s) \in s /\ s \ {Pick(s)} \in SUBSET A
         /\ IsFiniteSet(s) /\ Cardinality(s) \in Nat /\ Cardinality(s) # 0
         /\ Cardinality(s \ {Pick(s)}) = Cardinality(s) - 1
<1>1. Pick(s) \in s
  BY DEF Pick
<1>2. IsFiniteSet(s)
  BY FS_Subset
<1>3. Cardinality(s) \in Nat /\ Cardinality(s) # 0
  BY <1>2, FS_CardinalityType, FS_EmptySet
<1>4. Cardinality(s \ {Pick(s)}) = Cardinality(s) - 1
  BY <1>1, <1>2, FS_RemoveElement
<1> QED
  BY <1>1, <1>2, <1>3, <1>4

Small(A, n) == {s \in SUBSET A : Cardinality(s) <= n}

LEMMA Smallest ==
  ASSUME NEW A, IsFiniteSet(A), NEW s \in Small(A, 0)
  PROVE  s = {}
<1> SUFFICES ASSUME s # {} PROVE FALSE
  OBVIOUS
<1>1. s \in SUBSET A /\ Cardinality(s) <= 0
  BY DEF Small
<1>2. Cardinality(s) \in Nat /\ Cardinality(s) # 0
  BY <1>1, Rest
<1> QED
  BY <1>1, <1>2

LEMMA SumsExist ==
  ASSUME NEW A, IsFiniteSet(A), NEW f
  PROVE  \E g : Sums(g, f, SUBSET A)
<1> DEFINE S == {n \in Nat : \E g : Sums(g, f, Small(A, n))}
<1>1. \A s \in SUBSET A : Cardinality(s) \in Nat /\ Cardinality(s) <= Cardinality(A)
  BY FS_Subset, FS_CardinalityType
<1>2. 0 \in S
  <2>1. \A s \in Small(A, 0) : s = {}
    BY Smallest
  <2>2. Sums([s \in Small(A, 0) |-> 0], f, Small(A, 0))
    BY <2>1 DEF Sums
  <2> QED
    BY <2>2
<1>3. ASSUME NEW n \in Nat, n \in S
      PROVE  n + 1 \in S
  <2>1. PICK g : Sums(g, f, Small(A, n))
    BY <1>3
  <2> DEFINE Value(s) == IF s = {} THEN 0 ELSE f[Pick(s)] + g[s \ {Pick(s)}]
             h == [s \in Small(A, n + 1) |-> Value(s)]
  <2>2. \A s \in Small(A, n) : h[s] = g[s]
    <3> SUFFICES ASSUME NEW s \in Small(A, n)
                 PROVE  h[s] = g[s]
      OBVIOUS
    <3>1. g[s] = Value(s)
      BY <2>1 DEF Sums
    <3>2. s \in Small(A, n + 1)
      <4>1. s \in SUBSET A /\ Cardinality(s) \in Nat /\ Cardinality(s) <= n
        BY <1>1 DEF Small
      <4>2. Cardinality(s) <= n + 1
        BY <4>1
      <4> QED
        BY <4>1, <4>2 DEF Small
    <3> QED
      BY <3>1, <3>2
  <2>3. \A s \in Small(A, n + 1) : s # {} => s \ {Pick(s)} \in Small(A, n)
    BY <1>1, Rest DEF Small
  <2>4. \A s \in Small(A, n + 1) :
          Value(s) = IF s = {} THEN 0 ELSE f[Pick(s)] + h[s \ {Pick(s)}]
    BY <2>2, <2>3
  <2> HIDE DEF Value
  <2>5. Sums(h, f, Small(A, n + 1))
    BY <2>4 DEF Sums
  <2> QED
    BY <2>5
<1> HIDE DEF S
<1>4. Cardinality(A) \in S
  BY <1>2, <1>3, Induct, FS_CardinalityType
<1>5. Small(A, Cardinality(A)) = SUBSET A
  BY <1>1 DEF Small
<1> QED
  BY <1>4, <1>5 DEF S

\* e is f with d more for a; so is, for sets with a in them, the sum h.
Grown(f, e, A, a, d) == \A x \in A : f[x] \in Int /\ e[x] = f[x] + IF x = a THEN d ELSE 0
SumGrown(g, h, A, a, d) ==
  \A s \in SUBSET A : g[s] \in Int /\ h[s] = g[s] + IF a \in s THEN d ELSE 0

\* If one of the terms grows, so does the sum.
LEMMA SumsMove ==
  ASSUME NEW A, NEW f, NEW e, NEW g, NEW h, NEW a \in A, NEW d \in Int,
         IsFiniteSet(A), Grown(f, e, A, a, d), Sums(g, f, SUBSET A), Sums(h, e, SUBSET A)
  PROVE  SumGrown(g, h, A, a, d)
<1> DEFINE Right(s) == g[s] \in Int /\ h[s] = g[s] + IF a \in s THEN d ELSE 0
           S == {n \in Nat : \A s \in Small(A, n) : Right(s)}
<1>1. \A s \in SUBSET A : Cardinality(s) \in Nat /\ Cardinality(s) <= Cardinality(A)
  BY FS_Subset, FS_CardinalityType
<1>2. /\ \A x \in A : f[x] \in Int /\ e[x] = f[x] + IF x = a THEN d ELSE 0
      /\ \A s \in SUBSET A : g[s] = IF s = {} THEN 0 ELSE f[Pick(s)] + g[s \ {Pick(s)}]
      /\ \A s \in SUBSET A : h[s] = IF s = {} THEN 0 ELSE e[Pick(s)] + h[s \ {Pick(s)}]
  <2>1. \A x \in A : f[x] \in Int /\ e[x] = f[x] + IF x = a THEN d ELSE 0
    BY DEF Grown
  <2>2. \A s \in SUBSET A : g[s] = IF s = {} THEN 0 ELSE f[Pick(s)] + g[s \ {Pick(s)}]
    BY DEF Sums
  <2>3. \A s \in SUBSET A : h[s] = IF s = {} THEN 0 ELSE e[Pick(s)] + h[s \ {Pick(s)}]
    BY DEF Sums
  <2> QED
    BY <2>1, <2>2, <2>3
<1>3. 0 \in S
  <2>1. \A s \in Small(A, 0) : s = {}
    BY Smallest
  <2>2. {} \in SUBSET A
    OBVIOUS
  <2>3. Right({})
    <3>1. g[{}] = 0 /\ h[{}] = 0
      BY <1>2, <2>2
    <3> QED
      BY <3>1
  <2>4. \A s \in Small(A, 0) : Right(s)
    BY <2>1, <2>3
  <2> QED
    BY <2>4
<1>4. ASSUME NEW n \in Nat, n \in S
      PROVE  n + 1 \in S
  <2> SUFFICES ASSUME NEW s \in Small(A, n + 1), s # {}
               PROVE  Right(s)
    <3>1. {} \in Small(A, n)
      BY FS_EmptySet DEF Small
    <3>2. Right({})
      BY <1>4, <3>1
    <3>3. \A s \in Small(A, n + 1) : Right(s)
      BY <3>2
    <3> QED
      BY <3>3
  <2> DEFINE x == Pick(s)
             t == s \ {x}
  <2>1. /\ s \in SUBSET A /\ x \in s /\ x \in A /\ t \in SUBSET A
        /\ t \in Small(A, n)
    BY <1>1, Rest DEF Small
  <2>2. g[t] \in Int /\ h[t] = g[t] + IF a \in t THEN d ELSE 0
    BY <1>4, <2>1
  <2>3. g[s] = f[x] + g[t] /\ h[s] = e[x] + h[t]
    BY <1>2, <2>1
  <2>4. a \in s <=> a = x \/ a \in t
    BY <2>1
  <2>5. ~(a = x /\ a \in t)
    OBVIOUS
  <2> HIDE DEF x, t
  <2> QED
    BY <1>2, <2>1, <2>2, <2>3, <2>4, <2>5
<1> HIDE DEF S
<1>5. Cardinality(A) \in S
  BY <1>3, <1>4, Induct, FS_CardinalityType
<1>6. Small(A, Cardinality(A)) = SUBSET A
  BY <1>1 DEF Small
<1> QED
  BY <1>5, <1>6 DEF S, SumGrown

-----------------------------------------------------------------------------
(* The ether in the accounts.                                              *)

Balances(st) == [a \in Accounts |-> st[Balance(a)]]

\* The sum that Ether is.
EtherSums(st) == CHOOSE g : Sums(g, Balances(st), SUBSET Accounts)

LEMMA EtherIsASum ==
  ASSUME NEW st, IsFiniteSet(Accounts)
  PROVE  /\ Sums(EtherSums(st), Balances(st), SUBSET Accounts)
         /\ Ether(st) = EtherSums(st)[Accounts]
<1>1. \A s \in SUBSET Accounts : s # {} => Balances(st)[Pick(s)] = st[Balance(Pick(s))]
  BY DEF Balances, Pick
<1>2. \A g : Sums(g, Balances(st), SUBSET Accounts) <=>
         g = [s \in SUBSET Accounts |->
                IF s = {} THEN 0 ELSE st[Balance(CHOOSE x \in s : TRUE)] + g[s \ {CHOOSE x \in s : TRUE}]]
  BY <1>1 DEF Sums, Pick
<1>3. Sums(EtherSums(st), Balances(st), SUBSET Accounts)
  BY SumsExist DEF EtherSums
<1>4. Ether(st) = EtherSums(st)[Accounts]
  BY <1>2, ZenonT(60) DEF Ether, MapThenSumSet, MapThenFoldSet, EtherSums
<1> QED
  BY <1>3, <1>4

\* Only balances count.
LEMMA SameBalances ==
  ASSUME NEW st, NEW u, IsFiniteSet(Accounts), \A a \in Accounts : u[Balance(a)] = st[Balance(a)]
  PROVE  Ether(u) = Ether(st)
<1>1. Balances(u) = Balances(st)
  BY DEF Balances
<1>2. EtherSums(u) = EtherSums(st)
  BY <1>1 DEF EtherSums
<1> QED
  BY <1>2, EtherIsASum

LEMMA Paid ==
  ASSUME IsFiniteSet(Accounts), NEW st \in [Slots -> Int], NEW a \in Accounts, NEW d \in Int
  PROVE  /\ Ether(st) \in Int
         /\ Ether([st EXCEPT ![Balance(a)] = st[Balance(a)] + d]) = Ether(st) + d
<1> DEFINE u == [st EXCEPT ![Balance(a)] = st[Balance(a)] + d]
<1>1. Balances(st) \in [Accounts -> Int]
  BY SlotsAreSlots DEF Balances
<1>2. \A b \in Accounts : b # a => Balance(b) # Balance(a)
  BY DEF Balance, Slot
<1>3. Grown(Balances(st), Balances(u), Accounts, a, d)
  BY <1>2, SlotsAreSlots DEF Balances, Grown
<1> HIDE DEF u
<1>4. /\ Sums(EtherSums(st), Balances(st), SUBSET Accounts)
      /\ Sums(EtherSums(u), Balances(u), SUBSET Accounts)
      /\ Ether(st) = EtherSums(st)[Accounts] /\ Ether(u) = EtherSums(u)[Accounts]
  BY EtherIsASum
<1>5. SumGrown(EtherSums(st), EtherSums(u), Accounts, a, d)
  BY <1>3, <1>4, SumsMove
<1> QED
  BY <1>4, <1>5 DEF u, SumGrown

-----------------------------------------------------------------------------
(* The refund counter.                                                     *)

\* The storage that was in use before the transaction, whose values are base, and that st
\* has cleared.
Cleared(st, base) ==
  {p \in Contracts \X StorageKeys : base[Storage(p[1], p[2])] # 0 /\ st[Storage(p[1], p[2])] = 0}

\* The refund counter of transaction id has the credit of all of it at least: no debit for
\* storage used again can come without the credit that was given before.
Owes(st, base, id) ==
  /\ \A t \in TxIds : st[Refund(t)] >= 0
  /\ st[Refund(id)] >= ClearsSchedule * Cardinality(Cleared(st, base))

LEMMA ClearedFinite ==
  ASSUME ConstantsAssumption, NEW st, NEW base
  PROVE  IsFiniteSet(Cleared(st, base)) /\ Cardinality(Cleared(st, base)) \in Nat
<1>1. IsFiniteSet(Contracts)
  BY FS_Subset, AccountsAreAccounts DEF ConstantsAssumption
<1>2. IsFiniteSet(Contracts \X StorageKeys)
  BY <1>1, FS_Product DEF ConstantsAssumption
<1>3. Cleared(st, base) \subseteq Contracts \X StorageKeys
  BY DEF Cleared
<1> QED
  BY <1>2, <1>3, FS_Subset, FS_CardinalityType

LEMMA OneMore ==
  ASSUME NEW m \in Nat, NEW n \in Nat
  PROVE  m * (n + 1) = m * n + m /\ m * n \in Nat
OBVIOUS

\* SSTORE of v over what st has in a slot.
Stored(st, u, base, id, a, k, v) ==
  LET slot == Storage(a, k)
  IN  /\ u[slot] = v
      /\ \A b \in Contracts, j \in StorageKeys :
           <<b, j>> # <<a, k>> => u[Storage(b, j)] = st[Storage(b, j)]
      /\ u[Refund(id)] = gas_refund(base[slot], st[slot], v, st[Refund(id)])
      /\ \A t \in TxIds : t # id => u[Refund(t)] = st[Refund(t)]

LEMMA StoredOwes ==
  ASSUME ConstantsAssumption, NEW st \in [Slots -> Int], NEW u, NEW base \in [Slots -> Int],
         NEW id \in TxIds, NEW a \in Contracts, NEW k \in StorageKeys, NEW v \in Int,
         Owes(st, base, id), Stored(st, u, base, id, a, k, v)
  PROVE  Owes(u, base, id)
<1> DEFINE slot == Storage(a, k)
           p == <<a, k>>
           C == Cleared(st, base)
           D == Cleared(u, base)
           c == st[Refund(id)]
           n == Cardinality(C)
<1>1. /\ base[slot] \in Int /\ st[slot] \in Int /\ c \in Int
      /\ ClearsSchedule \in Nat /\ SetRefund \in Nat /\ ResetRefund \in Nat
      /\ c >= ClearsSchedule * n
  BY SlotsAreSlots DEF ConstantsAssumption, Owes
<1>2. IsFiniteSet(C) /\ n \in Nat
  BY ClearedFinite
<1>3. /\ u[slot] = v
      /\ u[Refund(id)] = gas_refund(base[slot], st[slot], v, c)
  BY DEF Stored
<1>4. /\ p \in C <=> base[slot] # 0 /\ st[slot] = 0
      /\ p \in D <=> base[slot] # 0 /\ v = 0
  BY <1>3 DEF Cleared
<1>5. \A q : q # p => (q \in D <=> q \in C)
  <2> SUFFICES ASSUME NEW q \in Contracts \X StorageKeys, q # p
               PROVE  u[Storage(q[1], q[2])] = st[Storage(q[1], q[2])]
    BY DEF Cleared
  <2>1. q[1] \in Contracts /\ q[2] \in StorageKeys /\ <<q[1], q[2]>> # <<a, k>>
    OBVIOUS
  <2> QED
    BY <2>1 DEF Stored
<1> HIDE DEF slot, p, C, D, c
<1>6. u[Refund(id)] >= ClearsSchedule * Cardinality(D)
  <2>1. CASE base[slot] # 0 /\ st[slot] = 0 /\ v # 0
    <3>1. p \in C /\ D = C \ {p}
      BY <1>4, <1>5, <2>1
    <3>2. Cardinality(D) = n - 1
      BY <1>2, <3>1, FS_RemoveElement DEF n
    <3>3. n # 0
      BY <1>2, <3>1, FS_EmptySet DEF n
    <3>4. u[Refund(id)] >= c - ClearsSchedule /\ u[Refund(id)] \in Int
      BY <1>1, <1>3, <2>1 DEF gas_refund
    <3>5. n - 1 \in Nat /\ n = (n - 1) + 1
      BY <1>2, <3>3
    <3> HIDE DEF n
    <3>6. ClearsSchedule * n = ClearsSchedule * (n - 1) + ClearsSchedule /\ ClearsSchedule * (n - 1) \in Nat
      BY <1>1, <3>5, OneMore
    <3> QED
      BY <1>1, <1>2, <3>2, <3>4, <3>6
  <2>2. CASE base[slot] # 0 /\ st[slot] # 0 /\ v = 0
    <3>1. p \notin C /\ D = C \cup {p}
      BY <1>4, <1>5, <2>2
    <3>2. Cardinality(D) = n + 1
      BY <1>2, <3>1, FS_AddElement DEF n
    <3>3. u[Refund(id)] = c + ClearsSchedule
      BY <1>1, <1>3, <2>2 DEF gas_refund
    <3> HIDE DEF n
    <3>4. ClearsSchedule * (n + 1) = ClearsSchedule * n + ClearsSchedule /\ ClearsSchedule * n \in Nat
      BY <1>1, <1>2, OneMore
    <3> QED
      BY <1>1, <1>2, <3>2, <3>3, <3>4
  <2>3. CASE base[slot] = 0 \/ (st[slot] = 0 /\ v = 0) \/ (st[slot] # 0 /\ v # 0)
    <3>1. D = C
      BY <1>4, <1>5, <2>3
    <3>2. u[Refund(id)] >= c
      BY <1>1, <1>3, <2>3 DEF gas_refund
    <3>3. u[Refund(id)] \in Int
      BY <1>1, <1>3, <2>3 DEF gas_refund
    <3>4. ClearsSchedule * n \in Nat
      BY <1>1, <1>2, OneMore
    <3> QED
      BY <1>1, <3>1, <3>2, <3>3, <3>4 DEF n
  <2> QED
    BY <2>1, <2>2, <2>3
<1>7. ClearsSchedule * Cardinality(D) \in Nat
  BY <1>1, ClearedFinite, OneMore DEF D
<1>8. u[Refund(id)] \in Int
  BY <1>1, <1>3 DEF gas_refund
<1> QED
  BY <1>6, <1>7, <1>8 DEF Owes, Stored, D

-----------------------------------------------------------------------------
(* What writes do to the state.                                            *)

\* A record that steps thread through their writes.
IsTrace(t) == t = [state |-> t.state, rows |-> t.rows, pending |-> t.pending]

\* The state st after one write.
Put(st, slot, val) == [st EXCEPT ![slot] = val]

LEMMA Written ==
  ASSUME NEW t, IsTrace(t), NEW c, NEW slot, NEW val, NEW off
  PROVE  /\ IsTrace(Write(t, c, slot, val)) /\ IsTrace(ReversibleWrite(t, c, slot, val, off))
         /\ Write(t, c, slot, val).state = Put(t.state, slot, val)
         /\ ReversibleWrite(t, c, slot, val, off).state = Put(t.state, slot, val)
<1> DEFINE w == Write(t, c, slot, val)
           v == ReversibleWrite(t, c, slot, val, off)
           row == Row(c, slot, val, t.state[slot])
           new == [off |-> off, slot |-> slot, val |-> val, prev |-> t.state[slot]]
<1>1. w = [t EXCEPT !.state[slot] = val, !.rows = @ \cup {row}]
  BY DEF Write
<1>2. v = [w EXCEPT !.pending = @ \cup {new}]
  BY DEF ReversibleWrite
<1> HIDE DEF w, v, row, new
<1>3. w = [state |-> [t.state EXCEPT ![slot] = val], rows |-> t.rows \cup {row}, pending |-> t.pending]
  BY <1>1 DEF IsTrace
<1>4. v = [state |-> w.state, rows |-> w.rows, pending |-> w.pending \cup {new}]
  BY <1>2, <1>3
<1> QED
  BY <1>3, <1>4 DEF IsTrace, Put, w, v

\* From st to u no storage and no refund changes, and the accounts lose fee.
Moves(st, u, fee) ==
  /\ u \in [Slots -> Int]
  /\ \A s \in Slots : s.tag \in {"Storage", "TxRefund"} => u[s] = st[s]
  /\ Ether(u) = Ether(st) - fee

\* Writes to other slots, such as nonces and access lists, move nothing.
Untouched(st, u) == \A s \in Slots : s.tag \in {"Storage", "TxRefund", "Balance"} => u[s] = st[s]

LEMMA UntouchedMoves ==
  ASSUME ConstantsAssumption, NEW st \in [Slots -> Int], NEW u \in [Slots -> Int], Untouched(st, u)
  PROVE  Moves(st, u, 0)
<1>1. \A a \in Accounts : u[Balance(a)] = st[Balance(a)]
  BY SlotsAreSlots DEF Balance, Slot, Untouched
<1>2. Ether(u) = Ether(st) /\ Ether(st) \in Int
  <2>1. Coinbase \in Accounts /\ 0 \in Int
    BY AccountsAreAccounts
  <2> QED
    BY <1>1, <2>1, SameBalances, Paid DEF ConstantsAssumption
<1> QED
  BY <1>2 DEF Moves, Untouched

\* A transfer moves ether from one account to another, which may be the same.
LEMMA TransferMoves ==
  ASSUME ConstantsAssumption, NEW t, IsTrace(t), t.state \in [Slots -> Int], NEW c, NEW off,
         NEW payer \in Accounts, NEW payee \in Accounts, NEW value \in Int, NEW fee \in Int
  PROVE  LET u == transfer_with_gas_fee(t, c, payer, payee, value, fee, off)
         IN  Moves(t.state, u.state, fee) /\ IsTrace(u)
<1> DEFINE less == t.state[Balance(payer)] - (value + fee)
           paid == ReversibleWrite(t, c, Balance(payer), less, off)
           more == paid.state[Balance(payee)] + value
           u == ReversibleWrite(paid, c + 1, Balance(payee), more, off + 1)
           st == t.state
           mid == [st EXCEPT ![Balance(payer)] = st[Balance(payer)] + (-(value + fee))]
           end == [mid EXCEPT ![Balance(payee)] = mid[Balance(payee)] + value]
<1>1. /\ Balance(payer) \in Slots /\ Balance(payee) \in Slots
      /\ st[Balance(payer)] \in Int /\ -(value + fee) \in Int
  BY SlotsAreSlots
<1>2. less = st[Balance(payer)] + (-(value + fee)) /\ less \in Int
  BY <1>1
<1>3. paid.state = mid /\ IsTrace(paid)
  <2> HIDE DEF less
  <2>1. paid.state = Put(st, Balance(payer), less) /\ IsTrace(paid)
    BY Written
  <2> QED
    BY <1>2, <2>1 DEF mid, Put
<1>4. mid \in [Slots -> Int]
  BY <1>1, <1>2
<1>5. Ether(st) \in Int /\ Ether(mid) = Ether(st) + (-(value + fee))
  BY <1>1, Paid DEF ConstantsAssumption
<1> HIDE DEF paid
<1>6. u.state = end /\ IsTrace(u)
  <2> DEFINE at == c + 1
             later == off + 1
  <2>1. IsTrace(paid) /\ u = ReversibleWrite(paid, at, Balance(payee), more, later)
    BY <1>3
  <2> HIDE DEF more, at, later, u
  <2>2. u.state = Put(paid.state, Balance(payee), more) /\ IsTrace(u)
    BY <2>1, Written
  <2> QED
    BY <1>3, <2>2 DEF more, end, Put
<1> HIDE DEF mid
<1>7. Ether(end) = Ether(mid) + value
  BY <1>4, Paid DEF ConstantsAssumption
<1>8. end \in [Slots -> Int]
  BY <1>1, <1>4
<1>9. \A s \in Slots : s.tag \in {"Storage", "TxRefund"} => end[s] = st[s]
  <2>1. Balance(payer).tag = "Balance" /\ Balance(payee).tag = "Balance"
    BY DEF Balance, Slot
  <2> QED
    BY <1>4, <2>1 DEF mid
<1> HIDE DEF end, u
<1>10. Moves(st, u.state, fee) /\ IsTrace(u)
  BY <1>5, <1>6, <1>7, <1>8, <1>9 DEF Moves
<1> QED
  BY <1>10 DEF u, more, paid, transfer_with_gas_fee

\* What is to be shown of the state of a call: paid is the gas the accounts have paid.
Accounted(st, base, id, paid) == Owes(st, base, id) /\ Ether(st) = Ether(base) - paid

\* A transaction has cleared nothing when it begins.
LEMMA AccountedAfresh ==
  ASSUME ConstantsAssumption, NEW st \in [Slots -> Int], NEW id \in TxIds,
         \A t \in TxIds : st[Refund(t)] >= 0
  PROVE  Accounted(st, st, id, 0)
<1>1. Cleared(st, st) = {}
  BY DEF Cleared
<1>2. ClearsSchedule * Cardinality(Cleared(st, st)) = 0
  <2>1. Cardinality(Cleared(st, st)) = 0 /\ ClearsSchedule \in Nat
    BY <1>1, FS_EmptySet DEF ConstantsAssumption
  <2> QED
    BY <2>1
<1>3. Ether(st) \in Int
  BY AccountsAreAccounts, Paid DEF ConstantsAssumption
<1> QED
  BY <1>2, <1>3 DEF Accounted, Owes

LEMMA MovesAccounted ==
  ASSUME ConstantsAssumption, NEW st \in [Slots -> Int], NEW base \in [Slots -> Int],
         NEW id \in TxIds, NEW paid \in Int, NEW fee \in Int,
         Accounted(st, base, id, paid), NEW u, Moves(st, u, fee)
  PROVE  Accounted(u, base, id, paid + fee)
<1>1. \A a \in Contracts, k \in StorageKeys : u[Storage(a, k)] = st[Storage(a, k)]
  BY SlotsAreSlots DEF Moves, Storage, Slot
<1>2. \A t \in TxIds : u[Refund(t)] = st[Refund(t)]
  BY SlotsAreSlots DEF Moves, Refund, Slot
<1>3. Cleared(u, base) = Cleared(st, base)
  BY <1>1 DEF Cleared
<1>4. Owes(u, base, id)
  BY <1>2, <1>3 DEF Accounted, Owes
<1>5. Ether(base) \in Int
  BY AccountsAreAccounts, Paid DEF ConstantsAssumption
<1>6. Ether(u) = Ether(base) - (paid + fee)
  BY <1>5 DEF Accounted, Moves
<1> QED
  BY <1>4, <1>6 DEF Accounted

\* A write to another slot.
LEMMA PutMoves ==
  ASSUME ConstantsAssumption, NEW st \in [Slots -> Int], NEW slot \in Slots, NEW val \in Int,
         slot.tag \notin {"Storage", "TxRefund", "Balance"}
  PROVE  Moves(st, Put(st, slot, val), 0)
<1>1. Put(st, slot, val) \in [Slots -> Int] /\ Untouched(st, Put(st, slot, val))
  BY DEF Put, Untouched
<1> QED
  BY <1>1, UntouchedMoves

-----------------------------------------------------------------------------
(* The invariant, on top of that of EvmCircuitProofs.                      *)

\* While calls nest, the present state and all those that calls began with are accounted
\* for; the first of these is from before the transaction paid its gas.
Accounting ==
  /\ \A t \in TxIds : state[Refund(t)] >= 0
  /\ frames # <<>> => Accounted(state, committed, tx.id, Gas)
  /\ \A i \in DOMAIN frames :
       Accounted(frames[i].entry, committed, tx.id, IF i = 1 THEN 0 ELSE Gas)

LEMMA ConstantTypes ==
  ASSUME ConstantsAssumption
  PROVE  /\ Gas \in Int /\ 0 \in Int /\ Values \subseteq Int /\ CallValues \subseteq Int
         /\ CallOps \subseteq {"CALL", "CALLCODE", "DELEGATECALL", "STATICCALL"}
         /\ IsFiniteSet(Accounts)
BY DEF ConstantsAssumption

LEMMA StateTypes ==
  ASSUME IInv
  PROVE  /\ state \in [Slots -> Int] /\ committed \in [Slots -> Int]
         /\ tx \in [id : TxIds, invalid : BOOLEAN, persistent : BOOLEAN] /\ tx.id \in TxIds
         /\ frames \in Seq(CallFrames)
BY DEF IInv, Types

\* What the running call has of it.
LEMMA TopAccounted ==
  ASSUME IInv, Running, Accounting
  PROVE  /\ Accounted(state, committed, tx.id, Gas)
         /\ Top.addr \in Accounts /\ Top.addr \in Contracts
         /\ IsTrace(Here) /\ Here.state = state
<1>1. frames # <<>>
  BY DEF IInv, Types, Running
<1>2. Top.addr \in Contracts
  BY TopSound DEF CallFrames
<1> QED
  BY <1>1, <1>2, AccountsAreAccounts DEF Accounting, IsTrace, Here

\* A step that stays in its call keeps the states that calls began with.
LEMMA SameContextAccounts ==
  ASSUME IInv, Accounting, Running, NEW t, NEW n, NEW rw, NEW rev, SameContext(t, n, rw, rev),
         Accounted(t.state, committed, tx.id, Gas)
  PROVE  Accounting'
<1> DEFINE L == Len(frames)
<1>1. L \in DOMAIN frames /\ Top \in CallFrames /\ frames \in Seq(CallFrames)
  BY TopSound, StateTypes
<1>2. /\ state' = t.state /\ tx' = tx /\ committed' = committed
      /\ frames' = [frames EXCEPT ![L].pending = t.pending, ![L].outcomes = Top.outcomes]
  BY DEF SameContext, StaysInCall
<1>3. frames' = [frames EXCEPT ![L] = [Top EXCEPT !.pending = t.pending, !.outcomes = Top.outcomes]]
  BY <1>1, <1>2 DEF Top
<1>4. [Top EXCEPT !.pending = t.pending, !.outcomes = Top.outcomes].entry = frames[L].entry
  BY <1>1 DEF CallFrames, Top
<1>5. DOMAIN frames' = DOMAIN frames /\ \A i \in DOMAIN frames : frames'[i].entry = frames[i].entry
  BY <1>1, <1>3, <1>4
<1>6. \A s \in TxIds : state'[Refund(s)] >= 0
  BY <1>2 DEF Accounted, Owes
<1>7. \A i \in DOMAIN frames' :
        Accounted(frames'[i].entry, committed', tx'.id, IF i = 1 THEN 0 ELSE Gas)
  BY <1>2, <1>5 DEF Accounting
<1> QED
  BY <1>2, <1>6, <1>7 DEF Accounting

\* What moves nothing is accounted for as what the running call has.
LEMMA StillAccounted ==
  ASSUME ConstantsAssumption, IInv, Running, Accounting, NEW u, Moves(state, u, 0)
  PROVE  Accounted(u, committed, tx.id, Gas)
<1>1. Accounted(u, committed, tx.id, Gas + 0)
  BY StateTypes, ConstantTypes, TopAccounted, MovesAccounted
<1>2. Gas + 0 = Gas
  BY ConstantTypes
<1> QED
  BY <1>1, <1>2

LEMMA SloadAccounts ==
  ASSUME ConstantsAssumption, IInv, Accounting, Sload
  PROVE  Accounting'
<1>1. PICK k \in StorageKeys : sload(k)
  BY DEF Sload
<1>2. Running
  BY DEF Sload, MayExecute
<1> DEFINE slot == AccessListStorage(tx.id, Top.addr, k)
           at == rw_counter + 7
           t == ReversibleWrite(Here, at, slot, 1, reversible_write_counter)
<1>3. SameContext(t, 8, 8, 1)
  BY <1>1 DEF sload
<1>4. slot \in Slots /\ slot.tag \notin {"Storage", "TxRefund", "Balance"} /\ 1 \in Int
  BY <1>2, StateTypes, TopAccounted, SlotsAreSlots DEF AccessListStorage, Slot
<1> HIDE DEF slot, at
<1>5. t.state = Put(state, slot, 1)
  BY <1>2, TopAccounted, Written
<1> HIDE DEF t
<1>6. Moves(state, t.state, 0)
  BY <1>4, <1>5, StateTypes, PutMoves
<1> QED
  BY <1>2, <1>3, <1>6, StillAccounted, SameContextAccounts

LEMMA SstoreAccounts ==
  ASSUME ConstantsAssumption, IInv, Accounting, Sstore
  PROVE  Accounting'
<1>1. PICK k \in StorageKeys, v \in Values : sstore(k, v)
  BY DEF Sstore
<1>2. Running
  BY DEF Sstore, MayExecute
<1> DEFINE r == reversible_write_counter
           a == Top.addr
           id == tx.id
           slot == Storage(a, k)
           warm == AccessListStorage(id, a, k)
           refund == gas_refund(committed[slot], state[slot], v, state[Refund(id)])
           c1 == rw_counter + 7
           c2 == rw_counter + 8
           c3 == rw_counter + 9
           r1 == r + 1
           r2 == r + 2
           stored == ReversibleWrite(Here, c1, slot, v, r)
           warmed == ReversibleWrite(stored, c2, warm, 1, r1)
           refunded == ReversibleWrite(warmed, c3, Refund(id), refund, r2)
           u == Put(Put(Put(state, slot, v), warm, 1), Refund(id), refund)
<1>3. SameContext(refunded, 10, 10, 3)
  BY <1>1 DEF sstore
<1>4. /\ a \in Contracts /\ id \in TxIds /\ v \in Int
      /\ state \in [Slots -> Int] /\ committed \in [Slots -> Int]
      /\ Owes(state, committed, id) /\ Ether(state) = Ether(committed) - Gas
      /\ slot \in Slots /\ warm \in Slots /\ Refund(id) \in Slots
  BY <1>2, StateTypes, ConstantTypes, TopAccounted, SlotsAreSlots DEF Accounted
<1>5. refund \in Int
  <2>1. committed[slot] \in Int /\ state[slot] \in Int /\ state[Refund(id)] \in Int
    BY <1>4
  <2> QED
    BY <1>4, <2>1, GasRefundType
<1>6. /\ slot # warm /\ slot # Refund(id) /\ warm # Refund(id)
      /\ \A b \in Contracts, j \in StorageKeys :
           /\ Storage(b, j) \in Slots /\ Storage(b, j) # warm /\ Storage(b, j) # Refund(id)
           /\ <<b, j>> # <<a, k>> => Storage(b, j) # slot
      /\ \A t \in TxIds :
           /\ Refund(t) \in Slots /\ Refund(t) # warm /\ Refund(t) # slot
           /\ t # id => Refund(t) # Refund(id)
      /\ \A b \in Accounts :
           /\ Balance(b) \in Slots /\ Balance(b) # warm
           /\ Balance(b) # slot /\ Balance(b) # Refund(id)
  BY SlotsAreSlots DEF Storage, AccessListStorage, Refund, Balance, Slot
<1> HIDE DEF slot, warm, c1, c2, c3, r1, r2
<1>7. refunded.state = u
  <2> HIDE DEF refund
  <2>1. stored.state = Put(state, slot, v) /\ IsTrace(stored)
    BY <1>2, TopAccounted, Written
  <2> HIDE DEF stored
  <2>2. warmed.state = Put(Put(state, slot, v), warm, 1) /\ IsTrace(warmed)
    BY <2>1, Written
  <2> HIDE DEF warmed
  <2> QED
    BY <2>2, Written
<1>8. Stored(state, u, committed, id, a, k, v)
  <2> HIDE DEF refund
  <2>1. /\ u[slot] = v /\ u[Refund(id)] = refund
        /\ \A s \in Slots : s # slot /\ s # warm /\ s # Refund(id) => u[s] = state[s]
    BY <1>4, <1>6 DEF Put
  <2> HIDE DEF u
  <2>2. \A b \in Contracts, j \in StorageKeys :
           <<b, j>> # <<a, k>> => u[Storage(b, j)] = state[Storage(b, j)]
    BY <1>6, <2>1
  <2>3. ASSUME NEW t \in TxIds, t # id
        PROVE  u[Refund(t)] = state[Refund(t)]
    BY <1>6, <2>1, <2>3
  <2>4. u[slot] = v /\ u[Refund(id)] = refund
    BY <2>1
  <2> QED
    BY <2>2, <2>3, <2>4 DEF Stored, slot, refund
<1>9. Ether(u) = Ether(state)
  <2>1. \A b \in Accounts : u[Balance(b)] = state[Balance(b)]
    BY <1>4, <1>6 DEF Put
  <2> HIDE DEF u
  <2> QED
    BY <2>1, ConstantTypes, SameBalances
<1> HIDE DEF u, refunded, id, a
<1>10. Accounted(u, committed, id, Gas)
  BY <1>4, <1>8, <1>9, StoredOwes DEF Accounted
<1> QED
  BY <1>2, <1>3, <1>7, <1>10, SameContextAccounts DEF id

LEMMA TouchAccountAccounts ==
  ASSUME ConstantsAssumption, Counted, IInv, Accounting, TouchAccount
  PROVE  Accounting'
<1>1. PICK a \in Contracts \cup Plain : touch_account("EXTCODESIZE", a)
  BY DEF TouchAccount, Counted
<1>2. Running
  BY DEF TouchAccount, MayExecute
<1> DEFINE slot == AccessListAccount(tx.id, a)
           at == rw_counter + 1 + 3
           t == ReversibleWrite(Here, at, slot, 1, reversible_write_counter)
<1>3. SameContext(t, touch_lookups("EXTCODESIZE"), touch_lookups("EXTCODESIZE"), 1)
  BY <1>1 DEF touch_account, add_account_to_access_list
<1>4. slot \in Slots /\ slot.tag \notin {"Storage", "TxRefund", "Balance"} /\ 1 \in Int
  BY StateTypes, AccountsAreAccounts, SlotsAreSlots DEF AccessListAccount, Slot
<1> HIDE DEF slot, at
<1>5. t.state = Put(state, slot, 1)
  BY <1>2, TopAccounted, Written
<1> HIDE DEF t
<1>6. Moves(state, t.state, 0)
  BY <1>4, <1>5, StateTypes, PutMoves
<1> QED
  BY <1>2, <1>3, <1>6, StillAccounted, SameContextAccounts

\* The callee on the access list.
LEMMA WarmedMoves ==
  ASSUME ConstantsAssumption, IInv, Running, Accounting, NEW op, NEW a \in Accounts
  PROVE  LET warm == warmed_callee(op, a)
         IN  IsTrace(warm) /\ Moves(state, warm.state, 0)
<1> DEFINE slot == AccessListAccount(tx.id, a)
           at == access_list_at(op)
           t == ReversibleWrite(Here, at, slot, 1, reversible_write_counter)
<1>1. slot \in Slots /\ slot.tag \notin {"Storage", "TxRefund", "Balance"} /\ 1 \in Int
  BY StateTypes, SlotsAreSlots DEF AccessListAccount, Slot
<1>2. warmed_callee(op, a) = t
  BY DEF warmed_callee, add_account_to_access_list
<1> HIDE DEF slot, at
<1>3. IsTrace(t) /\ t.state = Put(state, slot, 1)
  BY TopAccounted, Written
<1> HIDE DEF t
<1>4. Moves(state, t.state, 0)
  BY <1>1, <1>3, StateTypes, PutMoves
<1> QED
  BY <1>2, <1>3, <1>4

\* The transfer of a call, if there is one.
LEMMA TransferredMoves ==
  ASSUME ConstantsAssumption, IInv, Running, Accounting, NEW t, IsTrace(t), Moves(state, t.state, 0),
         NEW op, NEW a \in Accounts, NEW value \in Int, NEW ok, NEW off
  PROVE  Accounted(transferred(t, op, a, value, ok, off).state, committed, tx.id, Gas)
<1> DEFINE u == transferred(t, op, a, value, ok, off)
           st == t.state
<1>1. st \in [Slots -> Int] /\ Accounted(st, committed, tx.id, Gas)
  BY StillAccounted DEF Moves
<1>2. CASE op = "CALL" /\ ok
  <2> DEFINE c == transfer_at(op)
  <2>1. u = transfer_with_gas_fee(t, c, Top.addr, a, value, 0, off)
    BY <1>2 DEF transferred, transfer
  <2> HIDE DEF u, c
  <2>2. Moves(st, u.state, 0)
    BY <1>1, <2>1, ConstantTypes, TopAccounted, TransferMoves
  <2> HIDE DEF st
  <2>3. Accounted(u.state, committed, tx.id, Gas + 0)
    BY <1>1, <2>2, StateTypes, ConstantTypes, MovesAccounted
  <2>4. Gas + 0 = Gas
    BY ConstantTypes
  <2> QED
    BY <2>3, <2>4 DEF u
<1>3. CASE ~(op = "CALL" /\ ok)
  BY <1>1, <1>3 DEF transferred
<1> QED
  BY <1>2, <1>3

LEMMA CallPlainAccounts ==
  ASSUME ConstantsAssumption, Counted, IInv, Accounting, CallPlain
  PROVE  Accounting'
<1>1. PICK op \in CallOps, a \in Contracts \cup Plain \cup NewAccounts,
           value \in CallValues \cup {0} : CallStays(op, a, value)
  BY DEF CallPlain
<1>2. Running /\ a \in Accounts /\ value \in Int
  BY <1>1, AccountsAreAccounts, ConstantTypes DEF CallStays, CallInput, MayExecute, Counted
<1> DEFINE ok == is_precheck_ok(op, value)
           n == call_lookups(op, ok) + 3
           warm == warmed_callee(op, a)
           off == callee_base
           t == transferred(warm, op, a, value, ok, off)
<1>3. SameContext(t, n, n, 3)
  BY <1>1 DEF CallStays
<1>4. IsTrace(warm) /\ Moves(state, warm.state, 0)
  BY <1>2, WarmedMoves
<1> HIDE DEF ok, n, warm, off
<1>5. Accounted(t.state, committed, tx.id, Gas)
  BY <1>2, <1>4, TransferredMoves
<1> HIDE DEF t
<1> QED
  BY <1>2, <1>3, <1>5, SameContextAccounts

\* A new call begins with the state once its caller has warmed it.
LEMMA CallContractAccounts ==
  ASSUME ConstantsAssumption, Counted, IInv, Accounting, CallContract
  PROVE  Accounting'
<1>1. PICK op \in CallOps, a \in Contracts, value \in CallValues \cup {0} :
        EnterCall(op, a, value, 23, "Run")
  BY DEF CallContract, HasCode, Counted
<1>2. Running /\ a \in Accounts /\ value \in Int
  BY <1>1, AccountsAreAccounts, ConstantTypes DEF EnterCall, CallInput, MayExecute
<1> DEFINE L == Len(frames)
           warm == warmed_callee(op, a)
           clean == [warm EXCEPT !.pending = {}]
           ok == TRUE
           off == 0
           t == transferred(clean, op, a, value, ok, off)
           addr == IF op \in {"CALLCODE", "DELEGATECALL"} THEN Top.addr ELSE a
           by == IF op = "DELEGATECALL" THEN Top.caller ELSE Top.addr
           r == reversible_write_counter + 1
           caller == [Top EXCEPT !.pending = warm.pending, !.base = r, !.saved = r]
           callee == Frame(op, addr, by, Top.static, warm.state, t.pending, BOOLEAN)
<1>3. /\ state' = t.state /\ tx' = tx /\ committed' = committed
      /\ frames' = Append([frames EXCEPT ![L].pending = warm.pending, ![L].base = r, ![L].saved = r],
                          callee)
  BY <1>1 DEF EnterCall, callee_base
<1>4. /\ L \in DOMAIN frames /\ L \in Nat \ {0} /\ Top \in CallFrames
      /\ frames \in Seq(CallFrames) /\ frames # <<>>
  BY <1>2, TopSound, StateTypes
<1>5. IsTrace(warm) /\ Moves(state, warm.state, 0)
  BY <1>2, WarmedMoves
<1>6. Accounted(warm.state, committed, tx.id, Gas)
  BY <1>2, <1>5, StillAccounted
<1>7. clean.state = warm.state /\ IsTrace(clean)
  <2> HIDE DEF warm
  <2> QED
    BY <1>5 DEF IsTrace
<1>8. callee.entry = warm.state /\ caller.entry = Top.entry
  <2> HIDE DEF warm, t, addr, by, r
  <2> QED
    BY <1>4 DEF Frame, CallFrames
<1>9. frames' = Append([frames EXCEPT ![L] = caller], callee)
  <2> HIDE DEF callee, r, warm
  <2> QED
    BY <1>3, <1>4 DEF Top
<1> HIDE DEF warm, clean, ok, off, caller, callee, r
<1>10. Accounted(t.state, committed, tx.id, Gas)
  BY <1>2, <1>5, <1>7, TransferredMoves
<1> HIDE DEF t
<1>11. /\ DOMAIN frames' = 1 .. L + 1 /\ frames'[L + 1] = callee /\ frames'[L] = caller
       /\ \A i \in 1 .. L - 1 : frames'[i] = frames[i]
  <2>1. /\ frames \in Seq(CallFrames \cup {caller, callee})
        /\ caller \in CallFrames \cup {caller, callee} /\ callee \in CallFrames \cup {caller, callee}
    BY <1>4
  <2> QED
    BY <1>4, <1>9, <2>1, Pushed
<1>12. \A i \in 1 .. L : frames'[i].entry = frames[i].entry
  BY <1>4, <1>8, <1>11 DEF Top
<1>13. \A i \in 1 .. L + 1 :
         Accounted(frames'[i].entry, committed, tx.id, IF i = 1 THEN 0 ELSE Gas)
  <2> SUFFICES ASSUME NEW i \in 1 .. L + 1
               PROVE  Accounted(frames'[i].entry, committed, tx.id, IF i = 1 THEN 0 ELSE Gas)
    OBVIOUS
  <2>1. CASE i = L + 1
    BY <1>4, <1>6, <1>8, <1>11, <2>1
  <2>2. CASE i \in 1 .. L
    BY <1>4, <1>12, <2>2 DEF Accounting
  <2> QED
    BY <1>4, <2>1, <2>2
<1>14. \A s \in TxIds : state'[Refund(s)] >= 0
  BY <1>3, <1>10 DEF Accounted, Owes
<1> QED
  BY <1>3, <1>10, <1>11, <1>13, <1>14 DEF Accounting

\* The root call begins with the state before the transfer that pays the gas.
LEMMA BeginTxCallAccounts ==
  ASSUME ConstantsAssumption, Counted, IInv, Accounting, BeginTxCall
  PROVE  Accounting'
<1>1. /\ frames = <<>> /\ rw_counter \in Nat /\ state \in [Slots -> Int] /\ tx.id \in TxIds
      /\ execution_state # "Done"
  BY StateTypes DEF BeginTxCall, IInv, Types
<1>2. PICK to \in Contracts, value \in CallValues :
        LET t0 == tx_prepared(to, FALSE)
            t == tx_transferred(t0, to, value, Gas)
        IN  /\ state' = t.state
            /\ frames' = <<Frame("BeginTx", to, Sender, FALSE, t0.state, t.pending, BOOLEAN)>>
            /\ tx' = [tx EXCEPT !.invalid = FALSE]
  BY DEF BeginTxCall, Receivers, Counted, HasCode
<1> DEFINE t0 == tx_prepared(to, FALSE)
           at == rw_counter + 8
           off == 0
           t == transfer_with_gas_fee(t0, at, Sender, to, value, Gas, off)
           root == Frame("BeginTx", to, Sender, FALSE, t0.state, t.pending, BOOLEAN)
<1>3. /\ to \in Accounts /\ Sender \in Accounts /\ FALSE \in BOOLEAN
      /\ value \in Int /\ Gas \in Int
  BY AccountsAreAccounts, ConstantTypes
<1>4. /\ state' = t.state /\ frames' = <<root>> /\ tx'.id = tx.id /\ committed' = state
  BY <1>2, StateTypes DEF BeginTxCall, tx_transferred
<1>5. IsTrace(t0) /\ t0.state \in [Slots -> Int] /\ Kept(t0)
  <2>1. Clean(t0, rw_counter + 8) /\ Kept(t0)
    BY <1>1, <1>3, PreparedSound
  <2> HIDE DEF t0
  <2> QED
    BY <2>1 DEF Clean, Sound, Traces, IsTrace
<1> HIDE DEF t0, at, off
<1>6. Accounted(t0.state, state, tx.id, 0)
  <2>1. Untouched(state, t0.state)
    BY <1>5 DEF Untouched, Kept, Snapshots!Preliminary
  <2>2. Moves(state, t0.state, 0)
    BY <1>1, <1>5, <2>1, UntouchedMoves
  <2>3. Accounted(state, state, tx.id, 0)
    BY <1>1, AccountedAfresh DEF Accounting
  <2>4. Accounted(t0.state, state, tx.id, 0 + 0)
    BY <1>1, <2>2, <2>3, ConstantTypes, MovesAccounted
  <2> QED
    BY <2>4
<1>7. Accounted(t.state, state, tx.id, Gas)
  <2>1. Moves(t0.state, t.state, Gas)
    BY <1>3, <1>5, TransferMoves
  <2> HIDE DEF t
  <2>2. Accounted(t.state, state, tx.id, 0 + Gas)
    BY <1>1, <1>3, <1>5, <1>6, <2>1, ConstantTypes, MovesAccounted
  <2>3. 0 + Gas = Gas
    BY <1>3
  <2> QED
    BY <2>2, <2>3
<1> HIDE DEF t
<1>8. root.entry = t0.state
  BY DEF Frame
<1> HIDE DEF root
<1>9. DOMAIN frames' = {1} /\ frames'[1].entry = t0.state
  BY <1>4, <1>8
<1>10. \A s \in TxIds : state'[Refund(s)] >= 0
  BY <1>4, <1>7 DEF Accounted, Owes
<1> QED
  BY <1>4, <1>6, <1>7, <1>9, <1>10 DEF Accounting

LEMMA BeginTxPlainAccounts ==
  ASSUME ConstantsAssumption, Counted, IInv, Accounting, BeginTxPlain
  PROVE  Accounting'
<1>1. /\ frames = <<>> /\ rw_counter \in Nat /\ state \in [Slots -> Int] /\ tx.id \in TxIds
      /\ execution_state # "Done"
  BY StateTypes DEF BeginTxPlain, IInv, Types
<1> DEFINE Begun(to, invalid, sent, fee) ==
             state' = tx_transferred(tx_prepared(to, invalid), to, sent, fee).state
<1>2. PICK to \in Accounts, invalid \in BOOLEAN, sent \in Int, fee \in Int :
        Begun(to, invalid, sent, fee)
  <2>1. PICK is_create \in BOOLEAN, rejected \in BOOLEAN :
          \E to \in Receivers(is_create), value \in CallValues :
            Begun(to, is_tx_invalid(value, rejected),
                  IF is_tx_invalid(value, rejected) THEN 0 ELSE value,
                  IF is_tx_invalid(value, rejected) THEN 0 ELSE Gas)
    BY DEF BeginTxPlain
  <2> HIDE DEF Begun
  <2>2. PICK to \in Receivers(is_create), value \in CallValues :
          Begun(to, is_tx_invalid(value, rejected),
                IF is_tx_invalid(value, rejected) THEN 0 ELSE value,
                IF is_tx_invalid(value, rejected) THEN 0 ELSE Gas)
    BY <2>1
  <2>3. to \in Accounts /\ is_tx_invalid(value, rejected) \in BOOLEAN
    BY AccountsAreAccounts DEF Receivers, Counted, is_tx_invalid
  <2>4. value \in Int /\ Gas \in Int
    BY ConstantTypes
  <2> QED
    BY <2>2, <2>3, <2>4
<1> DEFINE t0 == tx_prepared(to, invalid)
           at == rw_counter + 8
           off == 0
           t == transfer_with_gas_fee(t0, at, Sender, to, sent, fee, off)
<1>3. state' = t.state /\ frames' = frames
  BY <1>2 DEF BeginTxPlain, tx_transferred
<1>4. IsTrace(t0) /\ t0.state \in [Slots -> Int] /\ Kept(t0)
  <2>1. Clean(t0, rw_counter + 8) /\ Kept(t0)
    BY <1>1, PreparedSound
  <2> HIDE DEF t0
  <2> QED
    BY <2>1 DEF Clean, Sound, Traces, IsTrace
<1> HIDE DEF t0, at, off, Begun
<1>5. Moves(t0.state, t.state, fee)
  BY <1>4, AccountsAreAccounts, TransferMoves
<1> HIDE DEF t
<1>6. \A s \in TxIds : state'[Refund(s)] = state[Refund(s)]
  BY <1>3, <1>4, <1>5, SlotsAreSlots DEF Moves, Kept, Snapshots!Preliminary, Refund, Slot
<1> QED
  BY <1>1, <1>3, <1>6 DEF Accounting

\* The end of a call: the state is the present one, or the one the call began with.
LEMMA HaltAccounts ==
  ASSUME ConstantsAssumption, Counted, IInv, Accounting, Stop \/ Return \/ Revert \/ Error
  PROVE  Accounting'
<1>1. /\ Running /\ Top \in CallFrames /\ frames \in Seq(CallFrames)
      /\ Len(frames) \in DOMAIN frames /\ Len(frames) \in Nat \ {0}
  BY TopSound, StateTypes DEF Stop, Return, Revert, Error
<1>2. ~IsCreate(Top)
  BY <1>1 DEF IsCreate, CallFrames, ConstantsAssumption
<1>3. PICK n \in {1, 4, 5}, success, halts \in BOOLEAN : Halts(n, success, halts)
  BY HaltEnds
<1>4. n \in Nat /\ n + 12 \in Nat
  OBVIOUS
<1>5. (state' = IF success THEN state ELSE Top.entry) /\ committed' = committed
  <2>1. Ends(success, halts) /\ \E m \in Nat : EndOfCall(Here, m, 0, success, halts)
    BY <1>3, <1>4 DEF Halts, EndRoot, RestoreContext
  <2> QED
    BY <1>1, <2>1, EndOfCallEffect
<1>6. /\ Accounted(state, committed, tx.id, Gas)
      /\ Accounted(Top.entry, committed, tx.id, IF Len(frames) = 1 THEN 0 ELSE Gas)
  BY <1>1, TopAccounted DEF Accounting, Top
<1>7. \A s \in TxIds : state'[Refund(s)] >= 0
  BY <1>5, <1>6 DEF Accounted, Owes
<1>8. CASE EndRoot(Here, n, 0, success, halts)
  <2>1. frames' = <<>>
    BY <1>8 DEF EndRoot
  <2> QED
    BY <1>7, <2>1 DEF Accounting
<1>9. CASE RestoreContext(Here, n, 0, success, halts)
  <2> DEFINE L == Len(frames)
             pending == IF success THEN handed_over(Caller, Top) ELSE Caller.pending
             caller == [Caller EXCEPT !.pending = pending]
  <2>1. L \in Nat /\ L >= 2 /\ Caller = frames[L - 1] /\ Caller \in CallFrames
    <3>1. L \in Nat \ {0} /\ L # 1 /\ DOMAIN frames = 1 .. L
      BY <1>1, <1>9 DEF RestoreContext, IsRoot
    <3>2. L >= 2 /\ L - 1 \in 1 .. L
      <4> HIDE DEF L
      <4> QED
        BY <3>1
    <3>3. \A i \in 1 .. L : frames[i] \in CallFrames
      BY <1>1
    <3> QED
      BY <3>1, <3>2, <3>3 DEF Caller
  <2>2. frames' = Append(SubSeq(frames, 1, L - 2), caller) /\ tx' = tx
    <3>1. [Caller EXCEPT !.outcomes = Caller.outcomes] = Caller /\ [Caller EXCEPT !.pending = Caller.pending] = Caller
      BY <2>1 DEF CallFrames
    <3> QED
      BY <1>2, <1>9, <3>1 DEF RestoreContext
  <2> HIDE DEF pending
  <2>3. caller.entry = Caller.entry
    BY <2>1 DEF CallFrames
  <2> HIDE DEF caller
  <2>4. /\ DOMAIN frames' = 1 .. L - 1 /\ frames'[L - 1] = caller
        /\ \A i \in 1 .. L - 2 : frames'[i] = frames[i]
    <3>1. /\ frames \in Seq(CallFrames \cup {caller}) /\ caller \in CallFrames \cup {caller}
      BY <1>1
    <3>2. Returned(frames, frames', caller, CallFrames \cup {caller})
      BY <2>1, <2>2, <3>1, Popped
    <3> QED
      BY <3>2 DEF Returned
  <2>5. \A i \in 1 .. L - 1 : frames'[i].entry = frames[i].entry
    BY <2>1, <2>3, <2>4
  <2>6. \A i \in DOMAIN frames' :
          Accounted(frames'[i].entry, committed, tx.id, IF i = 1 THEN 0 ELSE Gas)
    BY <1>1, <2>1, <2>4, <2>5 DEF Accounting
  <2>7. Accounted(state', committed, tx.id, Gas)
    <3>1. L # 1
      <4> HIDE DEF L
      <4> QED
        BY <2>1
    <3> QED
      BY <1>5, <1>6, <3>1
  <2> QED
    BY <1>5, <1>7, <2>2, <2>6, <2>7 DEF Accounting
<1> QED
  BY <1>3, <1>8, <1>9 DEF Halts

\* Withdrawals are paid into balances.
KeepsRefunds(st, u) == \A s \in TxIds : u[Refund(s)] = st[Refund(s)]

LEMMA CreditedRefunds ==
  ASSUME ConstantsAssumption, NEW table \in WithdrawalTables, NEW c, state \in [Slots -> Int]
  PROVE  KeepsRefunds(state, Credited(table, c).state)
<1> DEFINE n == Len(table)
<1>1. PICK g : /\ Credited(table, c) = g[n]
               /\ g[0] = [state |-> state, rows |-> rows, pending |-> {}]
               /\ \A i \in 1 .. n : g[i] = Payment(table, c, g[i - 1], i)
  BY CreditedBySteps, ZenonT(60)
<1>2. n \in Nat
  BY PaidOutFinite
<1> HIDE DEF n
<1> DEFINE Right(t) == IsTrace(t) /\ DOMAIN t.state = Slots /\ KeepsRefunds(state, t.state)
           S == {m \in Nat : m <= n => Right(g[m])}
<1>3. 0 \in S
  <2>1. Right(g[0])
    BY <1>1 DEF IsTrace, KeepsRefunds
  <2> QED
    BY <2>1
<1>4. ASSUME NEW m \in Nat, m \in S
      PROVE  m + 1 \in S
  <2> SUFFICES ASSUME m + 1 <= n
               PROVE  Right(g[m + 1])
    OBVIOUS
  <2> DEFINE i == m + 1
             t == g[m]
             slot == Balance(table[i].address)
             sum == t.state[slot] + table[i].amount
             u == Write(t, credit_at(table, c, i), slot, sum)
  <2>1. i \in 1 .. n /\ i - 1 = m /\ Right(t)
    BY <1>2, <1>4
  <2>2. g[i] = Payment(table, c, t, i)
    BY <1>1, <2>1
  <2>3. g[i] = t \/ g[i] = u
    BY <2>2 DEF Payment
  <2>4. \A s \in TxIds : Refund(s) # slot /\ Refund(s) \in Slots
    BY SlotsAreSlots DEF Refund, Balance, Slot
  <2> HIDE DEF t, slot, sum
  <2>5. IsTrace(u) /\ u.state = Put(t.state, slot, sum)
    BY <2>1, Written
  <2> HIDE DEF u
  <2>6. DOMAIN u.state = Slots /\ KeepsRefunds(state, u.state)
    BY <2>1, <2>4, <2>5 DEF KeepsRefunds, Put
  <2> QED
    BY <2>1, <2>3, <2>5, <2>6
<1> HIDE DEF S
<1>5. n \in S
  BY <1>2, <1>3, <1>4, Induct
<1> QED
  BY <1>1, <1>2, <1>5 DEF S

\* Between the transactions, what the ends of transactions and of the block write are no
\* refund counters.
LEMMA OutsideAccounts ==
  ASSUME ConstantsAssumption, Counted, IInv, Accounting,
         EndTxToBeginTx \/ EndTxToEndBlock \/ EndEmptyBlock \/ EndBlock
  PROVE  Accounting'
<1>1. frames = <<>> /\ frames' = frames
  BY DEF EndTxToBeginTx, EndTxToEndBlock, EndTx, EndEmptyBlock, EndBlock, IInv, Types
<1>2. \A s \in TxIds : state'[Refund(s)] = state[Refund(s)]
  <2>1. CASE EndEmptyBlock
    BY <2>1 DEF EndEmptyBlock
  <2>3. CASE EndBlock
    <3> DEFINE t == Credited(withdrawals', rw_counter + 2)
    <3>1. state' = t.state /\ withdrawals' \in WithdrawalTables
      BY <2>3 DEF EndBlock
    <3>2. KeepsRefunds(state, t.state)
      BY <3>1, StateTypes, CreditedRefunds
    <3> HIDE DEF t
    <3> QED
      BY <3>1, <3>2 DEF KeepsRefunds
  <2>2. CASE EndTxToBeginTx \/ EndTxToEndBlock
    <3>1. PICK next, n, delta : EndTx(next, n, delta)
      BY <2>2 DEF EndTxToBeginTx, EndTxToEndBlock
    <3> DEFINE t == [state |-> state, rows |-> rows, pending |-> {}]
    <3>2. PICK c1, v1, c2, v2, c3, v3 :
            state' = Write(Write(Write(t, c1, Balance(Sender), v1), c2, Balance(Coinbase), v2),
                           c3, CumulativeGasUsed(tx.id), v3).state
      BY <3>1 DEF EndTx
    <3>3. IsTrace(t) /\ t.state = state
      BY DEF IsTrace
    <3> HIDE DEF t
    <3> DEFINE u == Write(t, c1, Balance(Sender), v1)
               v == Write(u, c2, Balance(Coinbase), v2)
    <3>4. IsTrace(u) /\ u.state = Put(state, Balance(Sender), v1)
      BY <3>3, Written
    <3> HIDE DEF u
    <3>5. IsTrace(v) /\ v.state = Put(u.state, Balance(Coinbase), v2)
      BY <3>4, Written
    <3> HIDE DEF v
    <3>6. state' = Put(v.state, CumulativeGasUsed(tx.id), v3)
      BY <3>2, <3>5, Written DEF u, v
    <3> QED
      BY <3>4, <3>5, <3>6, StateTypes, SlotsAreSlots DEF Put, Refund, Balance, CumulativeGasUsed, Slot
  <2> QED
    BY <2>1, <2>2, <2>3
<1> QED
  BY <1>1, <1>2 DEF Accounting

LEMMA InitAccounts ==
  ASSUME ConstantsAssumption, Init
  PROVE  Accounting
<1>1. PICK v \in Values, h \in {NoAccount, EmptyCode} : state = InitialState(v, h)
  BY DEF Init
<1>2. \A s \in TxIds : state[Refund(s)] = 0
  BY <1>1, SlotsAreSlots DEF InitialState, Refund, Slot
<1> QED
  BY <1>2 DEF Init, Accounting

LEMMA NextAccounts ==
  ASSUME ConstantsAssumption, Counted, IInv, Accounting, [Next]_vars
  PROVE  Accounting'
<1>1. CASE UNCHANGED vars
  BY <1>1 DEF vars, Accounting
<1>2. CASE Next
  BY <1>2, BeginTxCallAccounts, BeginTxPlainAccounts, SloadAccounts, SstoreAccounts,
     TouchAccountAccounts, CallPlainAccounts, CallContractAccounts, HaltAccounts, NothingElse,
     OutsideAccounts
     DEF Next
<1> QED
  BY <1>1, <1>2

-----------------------------------------------------------------------------
(* The specification.                                                      *)

\* While calls nest and fail, the refund counter has the credit of all the storage cleared,
\* and the accounts have what they had but for the gas of the transaction.
THEOREM CallsAccountedFor ==
  ASSUME Counted
  PROVE  Spec => []Accounting
<1>1. Init => Accounting
  BY ConstantsAssumption, InitAccounts
<1>2. IInv /\ Accounting /\ [Next]_vars => Accounting'
  BY ConstantsAssumption, NextAccounts
<1> QED
  BY <1>1, <1>2, CallsUndoable, PTL DEF Spec

\* No sequence of SSTOREs, calls and reversions makes the refund counter negative
\* (storage.py:144-176).
THEOREM RefundCovered ==
  ASSUME Counted
  PROVE  Spec => []RefundNonNegative
<1>1. Accounting => RefundNonNegative
  BY DEF Accounting, RefundNonNegative
<1> QED
  BY <1>1, CallsAccountedFor, PTL

\* While a transaction runs, the accounts hold all the ether they held before it, but for
\* the gas it has paid (instruction.py:1006-1050).
THEOREM EtherKept ==
  ASSUME Counted
  PROVE  Spec => []EtherConserved
<1>1. Accounting => EtherConserved
  BY DEF Accounting, Accounted, EtherConserved
<1> QED
  BY <1>1, CallsAccountedFor, PTL

-----------------------------------------------------------------------------
(* How many rows are looked up.                                            *)

\* The writes of P are at all the distances below n.
Filled(P, n) == \A i \in 0 .. n - 1 : \E w \in P : w.off = i

\* The rows that undo a call take no more counters than the call has counted writes, and
\* just as many if none was counted that was not made.
LEMMA UndoCounted ==
  ASSUME NEW P \in SUBSET Pending, NEW n \in Nat, NEW end \in Int, Covered(P, n)
  PROVE  /\ Cardinality(UndoRows(P, end)) \in Nat
         /\ Filled(P, n) => Cardinality(UndoRows(P, end)) = n
<1> DEFINE undo == UndoRows(P, end)
           T == 0 .. n - 1
           At == [r \in undo |-> end - r.rwc]
<1>1. /\ \A r \in undo : \E w \in P : w.off \in T /\ r.rwc = end - w.off /\ w.off \in Int
                                      /\ r = Row(end - w.off, w.slot, w.prev, w.val)
      /\ \A w \in P : Row(end - w.off, w.slot, w.prev, w.val) \in undo
  BY DEF UndoRows, rw_counter_of_reversion, Row, Pending, Covered
<1> HIDE DEF undo
<1>2. At \in [undo -> T] /\ \A r \in undo : r.rwc \in Int
  BY <1>1
<1>3. At \in Injection(undo, T)
  <2>1. ASSUME NEW r \in undo, NEW q \in undo, At[r] = At[q]
        PROVE  r = q
    <3>1. PICK w \in P : w.off \in T /\ r.rwc = end - w.off /\ w.off \in Int
                         /\ r = Row(end - w.off, w.slot, w.prev, w.val)
      BY <1>1
    <3>2. PICK v \in P : v.off \in T /\ q.rwc = end - v.off /\ v.off \in Int
                         /\ q = Row(end - v.off, v.slot, v.prev, v.val)
      BY <1>1
    <3>3. end - r.rwc = end - q.rwc
      BY <2>1
    <3>4. w.off = v.off
      BY <3>1, <3>2, <3>3
    <3>5. w = v
      BY <3>4 DEF Covered
    <3> QED
      BY <3>1, <3>2, <3>5
  <2> QED
    BY <1>2, <2>1 DEF Injection, IsInjective
<1>4. IsFiniteSet(T) /\ Cardinality(T) = n
  BY FS_Interval
<1>5. IsFiniteSet(undo) /\ (Cardinality(undo) = Cardinality(T) <=> At \in Surjection(undo, T))
  BY <1>3, <1>4, FS_Injection
<1>6. ASSUME Filled(P, n)
      PROVE  At \in Surjection(undo, T)
  <2>1. ASSUME NEW i \in T
        PROVE  \E r \in undo : At[r] = i
    <3>1. PICK w \in P : w.off = i
      BY <1>6 DEF Filled
    <3> DEFINE r == Row(end - w.off, w.slot, w.prev, w.val)
    <3>2. r \in undo /\ r.rwc = end - i
      BY <1>1, <3>1 DEF Row
    <3> HIDE DEF r
    <3>3. At[r] = i
      BY <3>2
    <3> QED
      BY <3>2, <3>3
  <2> QED
    BY <1>2, <2>1 DEF Surjection
<1> QED
  BY <1>4, <1>5, <1>6, FS_CardinalityType DEF undo

LEMMA OneMoreFilled ==
  ASSUME NEW t, IsTrace(t), NEW off \in Nat, Filled(t.pending, off), NEW c, NEW slot, NEW val
  PROVE  Filled(ReversibleWrite(t, c, slot, val, off).pending, off + 1)
<1> DEFINE new == [off |-> off, slot |-> slot, val |-> val, prev |-> t.state[slot]]
           u == ReversibleWrite(t, c, slot, val, off)
           w == Write(t, c, slot, val)
           row == Row(c, slot, val, t.state[slot])
<1>1. u = [w EXCEPT !.pending = @ \cup {new}] /\ w = [t EXCEPT !.state[slot] = val, !.rows = @ \cup {row}]
  BY DEF ReversibleWrite, Write
<1> HIDE DEF u, w, row
<1>2. u.pending = t.pending \cup {new}
  <2> HIDE DEF new
  <2>1. w = [state |-> [t.state EXCEPT ![slot] = val], rows |-> t.rows \cup {row}, pending |-> t.pending]
    BY <1>1 DEF IsTrace
  <2> QED
    BY <1>1, <2>1
<1>3. new.off = off
  OBVIOUS
<1> HIDE DEF new
<1>4. \A i \in 0 .. (off + 1) - 1 : i \in 0 .. off - 1 \/ i = off
  OBVIOUS
<1> QED
  BY <1>2, <1>3, <1>4 DEF Filled, u

LEMMA TransferFilled ==
  ASSUME NEW t, IsTrace(t), NEW off \in Nat, Filled(t.pending, off), NEW c, NEW payer, NEW payee,
         NEW value, NEW fee
  PROVE  Filled(transfer_with_gas_fee(t, c, payer, payee, value, fee, off).pending, off + 2)
<1> DEFINE less == t.state[Balance(payer)] - (value + fee)
           at == Balance(payer)
           paid == ReversibleWrite(t, c, at, less, off)
           more == paid.state[Balance(payee)] + value
           to == Balance(payee)
           d == c + 1
           u == ReversibleWrite(paid, d, to, more, off + 1)
<1>1. transfer_with_gas_fee(t, c, payer, payee, value, fee, off) = u
  BY DEF transfer_with_gas_fee
<1> HIDE DEF less, at
<1>2. IsTrace(paid) /\ Filled(paid.pending, off + 1)
  BY OneMoreFilled, Written
<1> HIDE DEF paid, more, to, d
<1>3. off + 1 \in Nat /\ (off + 1) + 1 = off + 2
  OBVIOUS
<1>4. Filled(u.pending, (off + 1) + 1)
  BY <1>2, <1>3, OneMoreFilled
<1> QED
  BY <1>1, <1>3, <1>4

LEMMA HandedOverFilled ==
  ASSUME NEW caller, NEW callee, NEW n \in Nat, caller.base \in Nat,
         callee.pending \subseteq Pending,
         Filled(caller.pending, caller.base), Filled(callee.pending, n)
  PROVE  Filled(handed_over(caller, callee), caller.base + n)
<1> DEFINE base == caller.base
           Moved(w) == [w EXCEPT !.off = @ + base]
           both == handed_over(caller, callee)
<1>1. \A w \in callee.pending : Moved(w) \in both /\ Moved(w).off = w.off + base
  BY DEF handed_over, Pending
<1>2. caller.pending \subseteq both
  BY DEF handed_over
<1> HIDE DEF Moved, both
<1> SUFFICES ASSUME NEW i \in 0 .. (base + n) - 1
             PROVE  \E w \in both : w.off = i
  BY DEF Filled, both
<1>3. CASE i < base
  <2>1. i \in 0 .. base - 1
    BY <1>3
  <2> QED
    BY <1>2, <2>1 DEF Filled
<1>4. CASE ~(i < base)
  <2>1. i - base \in 0 .. n - 1
    BY <1>4
  <2>2. PICK w \in callee.pending : w.off = i - base
    BY <2>1 DEF Filled
  <2> QED
    BY <1>1, <2>2
<1> QED
  BY <1>3, <1>4

\* Every step looks up as many rows as it adds to the counter, until the last one; and each
\* call has counted the writes it has made, and no others.
Tallied ==
  /\ RowsCounted
  /\ \A i \in DOMAIN frames : Filled(frames[i].pending, Counter(i))

LEMMA TopFilled ==
  ASSUME IInv, Running, Tallied
  PROVE  /\ Filled(Here.pending, reversible_write_counter) /\ IsTrace(Here)
         /\ lookups = rw_counter - 1
         /\ reversible_write_counter \in Nat /\ rw_counter \in Nat
<1>1. Len(frames) \in DOMAIN frames
  BY TopSound
<1>2. Filled(Top.pending, reversible_write_counter)
  BY <1>1 DEF Tallied, Counter, Top
<1> QED
  BY <1>2 DEF Here, IsTrace, Tallied, RowsCounted, Running, IInv, Types

LEMMA SameContextTallies ==
  ASSUME IInv, Running, Tallied, NEW t, NEW n \in Nat, NEW rev \in Nat, SameContext(t, n, n, rev),
         Filled(t.pending, reversible_write_counter + rev)
  PROVE  Tallied'
<1> DEFINE L == Len(frames)
           new == [Top EXCEPT !.pending = t.pending, !.outcomes = Top.outcomes]
<1>1. L \in DOMAIN frames /\ Top \in CallFrames /\ frames \in Seq(CallFrames)
  BY TopSound, StateTypes
<1>2. /\ lookups' = lookups + n /\ rw_counter' = rw_counter + n
      /\ reversible_write_counter' = reversible_write_counter + rev
      /\ execution_state' = execution_state
      /\ frames' = [frames EXCEPT ![L].pending = t.pending, ![L].outcomes = Top.outcomes]
  BY DEF SameContext, StaysInCall
<1>3. frames' = [frames EXCEPT ![L] = new]
  BY <1>1, <1>2 DEF Top
<1>4. new.pending = t.pending /\ new.base = Top.base
  BY <1>1 DEF CallFrames
<1> HIDE DEF new
<1>5. /\ DOMAIN frames' = DOMAIN frames /\ Len(frames') = L
      /\ frames'[L] = new /\ \A i \in DOMAIN frames : i # L => frames'[i] = frames[i]
  BY <1>1, <1>3
<1>6. RowsCounted'
  BY <1>2, TopFilled DEF RowsCounted, Running
<1>7. ASSUME NEW i \in DOMAIN frames
      PROVE  Filled(frames'[i].pending, Counter(i)')
  <2>1. CASE i = L
    BY <1>2, <1>4, <1>5, <2>1 DEF Counter
  <2>2. CASE i # L
    BY <1>5, <2>2 DEF Counter, Tallied
  <2> QED
    BY <2>1, <2>2
<1> QED
  BY <1>5, <1>6, <1>7 DEF Tallied

LEMMA SloadTallies ==
  ASSUME IInv, Tallied, Sload
  PROVE  Tallied'
<1>1. PICK k \in StorageKeys : sload(k)
  BY DEF Sload
<1>2. Running
  BY DEF Sload, MayExecute
<1> DEFINE slot == AccessListStorage(tx.id, Top.addr, k)
           at == rw_counter + 7
           t == ReversibleWrite(Here, at, slot, 1, reversible_write_counter)
<1>3. SameContext(t, 8, 8, 1) /\ 8 \in Nat /\ 1 \in Nat
  BY <1>1 DEF sload
<1> HIDE DEF slot, at
<1>4. Filled(t.pending, reversible_write_counter + 1)
  BY <1>2, TopFilled, OneMoreFilled
<1> HIDE DEF t
<1> QED
  BY <1>2, <1>3, <1>4, SameContextTallies

LEMMA SstoreTallies ==
  ASSUME IInv, Tallied, Sstore
  PROVE  Tallied'
<1>1. PICK k \in StorageKeys, v \in Values : sstore(k, v)
  BY DEF Sstore
<1>2. Running
  BY DEF Sstore, MayExecute
<1> DEFINE r == reversible_write_counter
           slot == Storage(Top.addr, k)
           warm == AccessListStorage(tx.id, Top.addr, k)
           owed == Refund(tx.id)
           refund == gas_refund(committed[slot], state[slot], v, state[Refund(tx.id)])
           c1 == rw_counter + 7
           c2 == rw_counter + 8
           c3 == rw_counter + 9
           stored == ReversibleWrite(Here, c1, slot, v, r)
           warmed == ReversibleWrite(stored, c2, warm, 1, r + 1)
           refunded == ReversibleWrite(warmed, c3, owed, refund, r + 2)
<1>3. SameContext(refunded, 10, 10, 3) /\ 10 \in Nat /\ 3 \in Nat
  BY <1>1 DEF sstore
<1> HIDE DEF slot, warm, owed, refund, c1, c2, c3
<1>4. /\ r \in Nat /\ r + 1 \in Nat /\ r + 2 \in Nat
      /\ (r + 1) + 1 = r + 2 /\ (r + 2) + 1 = r + 3
  BY <1>2, TopFilled
<1>5. IsTrace(stored) /\ Filled(stored.pending, r + 1)
  BY <1>2, TopFilled, OneMoreFilled, Written
<1> HIDE DEF stored
<1>6. IsTrace(warmed) /\ Filled(warmed.pending, (r + 1) + 1)
  BY <1>4, <1>5, OneMoreFilled, Written
<1> HIDE DEF warmed
<1>7. Filled(refunded.pending, (r + 2) + 1)
  BY <1>4, <1>6, OneMoreFilled
<1> HIDE DEF refunded
<1> QED
  BY <1>2, <1>3, <1>4, <1>7, SameContextTallies

LEMMA TouchAccountTallies ==
  ASSUME Counted, IInv, Tallied, TouchAccount
  PROVE  Tallied'
<1>1. PICK a \in Contracts \cup Plain : touch_account("EXTCODESIZE", a)
  BY DEF TouchAccount, Counted
<1>2. Running
  BY DEF TouchAccount, MayExecute
<1> DEFINE slot == AccessListAccount(tx.id, a)
           at == rw_counter + 1 + 3
           t == ReversibleWrite(Here, at, slot, 1, reversible_write_counter)
           n == touch_lookups("EXTCODESIZE")
<1>3. SameContext(t, n, n, 1) /\ n \in Nat /\ 1 \in Nat
  BY <1>1 DEF touch_account, add_account_to_access_list, touch_lookups
<1> HIDE DEF slot, at, n
<1>4. Filled(t.pending, reversible_write_counter + 1)
  BY <1>2, TopFilled, OneMoreFilled
<1> HIDE DEF t
<1> QED
  BY <1>2, <1>3, <1>4, SameContextTallies

\* A CALL that may not be made, for the depth of calls or the balance of the caller, makes no
\* transfer, but its two writes are counted.
CheckFails ==
  \E op \in CallOps, a \in Contracts \cup Plain \cup NewAccounts, value \in CallValues \cup {0} :
    CallStays(op, a, value) /\ ~is_precheck_ok(op, value)

\* Warming the callee and the transfer to it.
LEMMA WarmedFilled ==
  ASSUME IInv, Running, Tallied, NEW a
  PROVE  LET warm == warmed_callee("CALL", a)
         IN  IsTrace(warm) /\ Filled(warm.pending, reversible_write_counter + 1)
<1> DEFINE slot == AccessListAccount(tx.id, a)
           at == access_list_at("CALL")
           t == ReversibleWrite(Here, at, slot, 1, reversible_write_counter)
<1>1. warmed_callee("CALL", a) = t
  BY DEF warmed_callee, add_account_to_access_list
<1> HIDE DEF slot, at
<1>2. IsTrace(t) /\ Filled(t.pending, reversible_write_counter + 1)
  BY TopFilled, OneMoreFilled, Written
<1> HIDE DEF t
<1> QED
  BY <1>1, <1>2

LEMMA CallPlainTallies ==
  ASSUME ConstantsAssumption, Counted, CallOps \subseteq {"CALL"}, IInv, Tallied, CallPlain, ~CheckFails
  PROVE  Tallied'
<1>1. PICK a \in Contracts \cup Plain \cup NewAccounts, value \in CallValues \cup {0} :
        CallStays("CALL", a, value)
  BY DEF CallPlain
<1>2. Running /\ is_precheck_ok("CALL", value)
  BY <1>1 DEF CallStays, CallInput, MayExecute, CheckFails
<1> DEFINE m == call_lookups("CALL", TRUE)
           n == m + 3
           r == reversible_write_counter
           warm == warmed_callee("CALL", a)
           at == transfer_at("CALL")
           payer == Top.addr
           none == 0
           t == transfer_with_gas_fee(warm, at, payer, a, value, none, r + 1)
<1>3. SameContext(t, n, n, 3)
  <2>1. is_precheck_ok("CALL", value) = TRUE
    BY <1>2 DEF is_precheck_ok
  <2>2. SameContext(transferred(warm, "CALL", a, value, TRUE, callee_base), n, n, 3)
    BY <1>1, <2>1 DEF CallStays
  <2> HIDE DEF warm, n
  <2> QED
    BY <2>2 DEF transferred, transfer, callee_base
<1>4. n \in Nat /\ 3 \in Nat
  <2>1. m \in Nat
    BY <1>2, TopFilled, CallLookups
  <2> HIDE DEF m
  <2> QED
    BY <2>1
<1>5. r + 1 \in Nat /\ (r + 1) + 2 = r + 3
  BY <1>2, TopFilled
<1> HIDE DEF n, at, payer, none
<1>6. IsTrace(warm) /\ Filled(warm.pending, r + 1)
  BY <1>2, WarmedFilled
<1> HIDE DEF warm
<1>7. Filled(t.pending, (r + 1) + 2)
  BY <1>5, <1>6, TransferFilled
<1> HIDE DEF t
<1> QED
  BY <1>2, <1>3, <1>4, <1>5, <1>7, SameContextTallies

LEMMA CallContractTallies ==
  ASSUME ConstantsAssumption, Counted, CallOps \subseteq {"CALL"}, IInv, Tallied, CallContract
  PROVE  Tallied'
<1>1. PICK a \in Contracts, value \in CallValues \cup {0} : EnterCall("CALL", a, value, 23, "Run")
  BY DEF CallContract, HasCode, Counted
<1>2. Running
  BY <1>1 DEF EnterCall, CallInput, MayExecute
<1> DEFINE L == Len(frames)
           warm == warmed_callee("CALL", a)
           clean == [warm EXCEPT !.pending = {}]
           at == transfer_at("CALL")
           payer == Top.addr
           none == 0
           t == transfer_with_gas_fee(clean, at, payer, a, value, none, 0)
           n == call_lookups("CALL", TRUE)
           r == reversible_write_counter + 1
           caller == [Top EXCEPT !.pending = warm.pending, !.base = r, !.saved = r]
           callee == Frame("CALL", a, Top.addr, Top.static, warm.state, t.pending, BOOLEAN)
<1>3. /\ lookups' = lookups + n + 23 /\ rw_counter' = rw_counter + n + 23
      /\ reversible_write_counter' = 2 /\ execution_state' = "Run"
      /\ frames' = Append([frames EXCEPT ![L].pending = warm.pending, ![L].base = r, ![L].saved = r],
                          callee)
  BY <1>1 DEF EnterCall, callee_base, callee_counter, transferred, transfer
<1>4. /\ L \in DOMAIN frames /\ L \in Nat \ {0} /\ Top \in CallFrames
      /\ frames \in Seq(CallFrames) /\ frames # <<>>
  BY <1>2, TopSound, StateTypes
<1>5. n \in Nat
  BY <1>2, TopFilled, CallLookups
<1>6. IsTrace(warm) /\ Filled(warm.pending, r)
  BY <1>2, WarmedFilled
<1> HIDE DEF warm, n, at, payer, none
<1>7. IsTrace(clean) /\ Filled(clean.pending, 0)
  <2>1. clean = [state |-> warm.state, rows |-> warm.rows, pending |-> {}]
    BY <1>6 DEF IsTrace
  <2> HIDE DEF clean
  <2> QED
    BY <2>1 DEF IsTrace, Filled
<1> HIDE DEF clean
<1>8. Filled(t.pending, 0 + 2)
  BY <1>7, TransferFilled
<1> HIDE DEF t
<1>9. /\ callee.pending = t.pending
      /\ caller.pending = warm.pending /\ caller.base = r
  <2> HIDE DEF r
  <2> QED
    BY <1>4 DEF Frame, CallFrames
<1>10. frames' = Append([frames EXCEPT ![L] = caller], callee)
  <2> HIDE DEF callee, r
  <2> QED
    BY <1>3, <1>4 DEF Top
<1> HIDE DEF caller, callee
<1>11. /\ DOMAIN frames' = 1 .. L + 1 /\ Len(frames') = L + 1
       /\ frames'[L + 1] = callee /\ frames'[L] = caller
       /\ \A i \in 1 .. L - 1 : frames'[i] = frames[i]
  <2>1. /\ frames \in Seq(CallFrames \cup {caller, callee})
        /\ caller \in CallFrames \cup {caller, callee} /\ callee \in CallFrames \cup {caller, callee}
    BY <1>4
  <2> QED
    BY <1>4, <1>10, <2>1, Pushed
<1>12. RowsCounted'
  <2>1. lookups = rw_counter - 1 /\ rw_counter \in Nat
    BY <1>2, TopFilled
  <2>2. lookups' = rw_counter' - 1
    BY <1>3, <1>5, <2>1
  <2> QED
    BY <1>3, <2>2 DEF RowsCounted
<1>13. ASSUME NEW i \in 1 .. L + 1
       PROVE  Filled(frames'[i].pending, Counter(i)')
  <2>1. CASE i = L + 1
    BY <1>3, <1>8, <1>9, <1>11, <2>1 DEF Counter
  <2>2. CASE i = L
    <3>1. i # L + 1
      BY <1>4, <2>2, SMTT(30)
    <3> QED
      BY <1>6, <1>9, <1>11, <2>2, <3>1 DEF Counter
  <2>3. CASE i \in 1 .. L - 1
    <3>1. i # L + 1 /\ i # L /\ i \in 1 .. L /\ DOMAIN frames = 1 .. L
      BY <1>4, <2>3
    <3> HIDE DEF r
    <3> QED
      BY <1>11, <2>3, <3>1 DEF Counter, Tallied
  <2> QED
    BY <1>4, <2>1, <2>2, <2>3
<1> QED
  BY <1>11, <1>12, <1>13 DEF Tallied

\* Between the transactions only the two counts are to be compared.
LEMMA OutsideTallies ==
  ASSUME IInv, Tallied, frames' = <<>>, execution_state # "Done", execution_state' # "Done",
         NEW n \in Int, lookups' = lookups + n, rw_counter' = rw_counter + n
  PROVE  Tallied'
<1>1. rw_counter \in Nat /\ lookups = rw_counter - 1
  BY DEF IInv, Types, Tallied, RowsCounted
<1> QED
  BY <1>1 DEF Tallied, RowsCounted

LEMMA BeginTxCallTallies ==
  ASSUME ConstantsAssumption, Counted, IInv, Tallied, BeginTxCall
  PROVE  Tallied'
<1>1. /\ frames = <<>> /\ rw_counter \in Nat /\ lookups = rw_counter - 1
      /\ execution_state # "Done"
  BY DEF BeginTxCall, IInv, Types, Tallied, RowsCounted
<1>2. PICK to \in Contracts, value \in CallValues :
        LET t0 == tx_prepared(to, FALSE)
            t == tx_transferred(t0, to, value, Gas)
        IN  /\ frames' = <<Frame("BeginTx", to, Sender, FALSE, t0.state, t.pending, BOOLEAN)>>
            /\ rw_counter' = rw_counter + 24
            /\ lookups' = lookups + 24
  BY DEF BeginTxCall, Receivers, Counted, HasCode
<1> DEFINE t0 == tx_prepared(to, FALSE)
           at == rw_counter + 8
           t == transfer_with_gas_fee(t0, at, Sender, to, value, Gas, 0)
           root == Frame("BeginTx", to, Sender, FALSE, t0.state, t.pending, BOOLEAN)
<1>3. /\ frames' = <<root>> /\ reversible_write_counter' = 2 /\ execution_state' = "Run"
      /\ rw_counter' = rw_counter + 24 /\ lookups' = lookups + 24
  BY <1>2 DEF BeginTxCall, callee_counter, tx_transferred
<1>4. IsTrace(t0) /\ Filled(t0.pending, 0)
  <2>1. Clean(t0, rw_counter + 8)
    BY <1>1, AccountsAreAccounts, PreparedSound
  <2> HIDE DEF t0
  <2> QED
    BY <2>1 DEF Clean, Sound, Traces, IsTrace, Filled
<1> HIDE DEF t0, at
<1>5. Filled(t.pending, 0 + 2)
  BY <1>4, TransferFilled
<1> HIDE DEF t
<1>6. root.pending = t.pending
  BY DEF Frame
<1> HIDE DEF root
<1>7. DOMAIN frames' = {1} /\ Len(frames') = 1 /\ frames'[1] = root
  BY <1>3
<1>8. lookups' = rw_counter' - 1
  BY <1>1, <1>3
<1> QED
  BY <1>3, <1>5, <1>6, <1>7, <1>8 DEF Tallied, RowsCounted, Counter

LEMMA BeginTxPlainTallies ==
  ASSUME ConstantsAssumption, Counted, IInv, Tallied, BeginTxPlain
  PROVE  Tallied'
<1>1. /\ frames' = <<>> /\ execution_state # "Done" /\ execution_state' # "Done"
  BY DEF BeginTxPlain, IInv, Types
<1>2. PICK n \in {10, 11} : lookups' = lookups + n /\ rw_counter' = rw_counter + n
  BY DEF BeginTxPlain
<1> QED
  BY <1>1, <1>2, OutsideTallies

\* A call that fails skips as many counters as it has rows to undo.
LEMMA HaltTallies ==
  ASSUME ConstantsAssumption, Counted, IInv, Tallied, Stop \/ Return \/ Revert \/ Error
  PROVE  Tallied'
<1> DEFINE r == reversible_write_counter
<1>1. /\ Running /\ Top \in CallFrames /\ frames \in Seq(CallFrames)
      /\ Len(frames) \in DOMAIN frames /\ Len(frames) \in Nat \ {0}
      /\ Sound(Here, rw_counter, r, Top.entry)
  BY TopSound, StateTypes DEF Stop, Return, Revert, Error
<1>2. ~IsCreate(Top)
  BY <1>1 DEF IsCreate, CallFrames, ConstantsAssumption
<1>3. PICK n \in {1, 4, 5}, success, halts \in BOOLEAN : Halts(n, success, halts)
  BY HaltEnds
<1>4. /\ lookups = rw_counter - 1 /\ r \in Nat /\ rw_counter \in Nat
      /\ Filled(Top.pending, r)
  BY <1>1, TopFilled DEF Here
<1>5. PICK m \in Nat : EndOfCall(Here, m, 0, success, halts)
  BY <1>3 DEF Halts, EndRoot, RestoreContext
<1>0. /\ Ends(success, halts) /\ success \in BOOLEAN /\ halts \in BOOLEAN
      /\ Top.pending = {} => r = 0
  <2>1. Top.pending = {} => \A i \in 0 .. r - 1 : FALSE
    BY <1>4 DEF Filled
  <2>2. Top.pending = {} => r = 0
    <3> HAVE Top.pending = {}
    <3>1. ~(0 \in 0 .. r - 1)
      BY <2>1
    <3> HIDE DEF r
    <3> QED
      BY <1>4, <3>1
  <2> QED
    BY <1>3, <2>2 DEF Halts
<1>6. lookups' = rw_counter' - 1
  <2> DEFINE end == rw_counter + m + r - 1
             undo == IF success THEN {} ELSE UndoRows(Top.pending, end)
  <2>1. /\ lookups' = lookups + m + 0 + Cardinality(undo)
        /\ rw_counter' = rw_counter + m + (IF ~success /\ ~halts THEN r ELSE 0)
    BY <1>5 DEF EndOfCall, InErrorState, Here
  <2>2. end \in Int /\ Top.pending \in SUBSET Pending /\ Covered(Top.pending, r)
    BY <1>1, <1>4 DEF CallFrames, Sound, Here
  <2> HIDE DEF end
  <2>3. Cardinality(undo) = IF success THEN 0 ELSE r
    BY <1>4, <2>2, UndoCounted, FS_EmptySet
  <2> HIDE DEF undo
  <2>4. (IF success THEN 0 ELSE r) = IF ~success /\ ~halts THEN r ELSE 0
    BY <1>0 DEF Ends
  <2> QED
    BY <1>4, <2>1, <2>3, <2>4
<1>7. CASE EndRoot(Here, n, 0, success, halts)
  <2>1. frames' = <<>> /\ execution_state' = "EndTx"
    BY <1>7 DEF EndRoot
  <2> QED
    BY <1>6, <2>1 DEF Tallied, RowsCounted
<1>8. CASE RestoreContext(Here, n, 0, success, halts)
  <2> DEFINE L == Len(frames)
             pending == IF success THEN handed_over(Caller, Top) ELSE Caller.pending
             caller == [Caller EXCEPT !.pending = pending]
             counter == Caller.base + IF halts THEN r ELSE 0
  <2>1. L \in Nat /\ L >= 2 /\ Caller = frames[L - 1] /\ Caller \in CallFrames /\ L - 1 \in 1 .. L
    <3>1. L \in Nat \ {0} /\ L # 1 /\ DOMAIN frames = 1 .. L
      BY <1>1, <1>8 DEF RestoreContext, IsRoot
    <3>2. L >= 2 /\ L - 1 \in 1 .. L
      <4> HIDE DEF L
      <4> QED
        BY <3>1
    <3>3. \A i \in 1 .. L : frames[i] \in CallFrames
      BY <1>1
    <3> QED
      BY <3>1, <3>2, <3>3 DEF Caller
  <2>2. L - 1 # L /\ L - 1 < L /\ L - 1 \in DOMAIN frames
    <3> HIDE DEF L
    <3>1. DOMAIN frames = 1 .. L
      BY <1>1 DEF L
    <3> QED
      BY <2>1, <3>1
  <2>3. /\ Caller.saved = Caller.base /\ Caller.base \in Nat
        /\ Filled(Caller.pending, Caller.base)
    BY <2>1, <2>2 DEF IInv, FramesInv, Tallied, Counter, CallFrames
  <2>4. Filled(pending, counter)
    <3>1. Top.pending \subseteq Pending
      BY <1>1 DEF CallFrames
    <3>2. Filled(handed_over(Caller, Top), Caller.base + r)
      BY <1>4, <2>3, <3>1, HandedOverFilled
    <3>3. success => halts
      BY <1>0 DEF Ends
    <3>4. ~success /\ halts => r = 0
      BY <1>0 DEF Ends
    <3> QED
      BY <1>0, <2>3, <3>2, <3>3, <3>4
  <2>5. /\ frames' = Append(SubSeq(frames, 1, L - 2), caller) /\ execution_state' = "Run"
        /\ reversible_write_counter' = counter
    <3>1. [Caller EXCEPT !.outcomes = Caller.outcomes] = Caller /\ [Caller EXCEPT !.pending = Caller.pending] = Caller
      BY <2>1 DEF CallFrames
    <3>2. reversible_write_counter' = counter
      BY <1>8, <2>3 DEF RestoreContext, restored_counter
    <3> QED
      BY <1>2, <1>8, <3>1, <3>2 DEF RestoreContext
  <2> HIDE DEF pending, counter
  <2>6. caller.pending = pending
    BY <2>1 DEF CallFrames
  <2> HIDE DEF caller
  <2>7. /\ DOMAIN frames' = 1 .. L - 1 /\ Len(frames') = L - 1 /\ frames'[L - 1] = caller
        /\ \A i \in 1 .. L - 2 : frames'[i] = frames[i]
    <3>1. frames \in Seq(CallFrames \cup {caller}) /\ caller \in CallFrames \cup {caller}
      BY <1>1
    <3>2. Returned(frames, frames', caller, CallFrames \cup {caller})
      BY <2>1, <2>5, <3>1, Popped
    <3> QED
      BY <3>2 DEF Returned
  <2>8. ASSUME NEW i \in 1 .. L - 1
        PROVE  Filled(frames'[i].pending, Counter(i)')
    <3>1. CASE i = L - 1
      BY <2>4, <2>5, <2>6, <2>7, <3>1 DEF Counter
    <3>2. CASE i \in 1 .. L - 2
      <4>1. i # L /\ i # L - 1 /\ i \in DOMAIN frames
        <5> HIDE DEF L
        <5>1. DOMAIN frames = 1 .. L
          BY <1>1 DEF L
        <5> QED
          BY <2>1, <3>2, <5>1
      <4> QED
        BY <2>7, <3>2, <4>1 DEF Counter, Tallied
    <3>3. i = L - 1 \/ i \in 1 .. L - 2
      <4> HIDE DEF L
      <4> QED
        BY <2>1
    <3> QED
      BY <3>1, <3>2, <3>3
  <2> QED
    BY <1>6, <2>5, <2>7, <2>8 DEF Tallied, RowsCounted
<1> QED
  BY <1>3, <1>7, <1>8 DEF Halts

LEMMA EndTallies ==
  ASSUME ConstantsAssumption, Counted, IInv, Tallied,
         EndTxToBeginTx \/ EndTxToEndBlock \/ EndEmptyBlock \/ EndBlock
  PROVE  Tallied'
<1>1. frames' = <<>> /\ execution_state # "Done"
  BY DEF EndTxToBeginTx, EndTxToEndBlock, EndTx, EndEmptyBlock, EndBlock, IInv, Types
<1>2. CASE EndTxToBeginTx
  <2>1. execution_state' = "BeginTx"
    BY <1>2 DEF EndTxToBeginTx, EndTx
  <2>2. PICK n \in {9, 10} : lookups' = lookups + n /\ rw_counter' = rw_counter + n
    <3>1. lookups' = lookups + 1 + (IF tx.id = 1 THEN 8 ELSE 9) /\ rw_counter' = rw_counter + 10 - (IF tx.id = 1 THEN 1 ELSE 0)
      BY <1>2 DEF EndTxToBeginTx, EndTx
    <3> QED
      BY <3>1 DEF Tallied, RowsCounted, IInv, Types
  <2> QED
    BY <1>1, <2>1, <2>2, OutsideTallies
<1>3. CASE EndTxToEndBlock
  <2>1. execution_state' = "EndBlock"
    BY <1>3 DEF EndTxToEndBlock, EndTx
  <2>2. PICK n \in {8, 9} : lookups' = lookups + n /\ rw_counter' = rw_counter + n
    <3>1. lookups' = lookups + 0 + (IF tx.id = 1 THEN 8 ELSE 9) /\ rw_counter' = rw_counter + 9 - (IF tx.id = 1 THEN 1 ELSE 0)
      BY <1>3 DEF EndTxToEndBlock, EndTx
    <3> QED
      BY <1>1, <3>1 DEF Tallied, RowsCounted, IInv, Types
  <2> QED
    BY <1>1, <2>1, <2>2, OutsideTallies
<1>4. CASE EndEmptyBlock
  <2>1. /\ rw_counter = 1 /\ rw_counter' = rw_counter /\ lookups' = lookups
        /\ execution_state' = "Done" /\ PaidOut(withdrawals') = {} /\ lookups = rw_counter - 1
    BY <1>1, <1>4 DEF EndEmptyBlock, Tallied, RowsCounted
  <2>2. Cardinality(PaidOut(withdrawals')) = 0
    BY <2>1, FS_EmptySet
  <2> QED
    BY <1>1, <2>1, <2>2 DEF Tallied, RowsCounted, total_rws, total_withdrawals
<1>5. CASE EndBlock
  <2>1. /\ rw_counter # 1 /\ rw_counter' = rw_counter /\ rw_counter \in Nat
        /\ lookups' = lookups + 2 + Cardinality(PaidOut(withdrawals'))
        /\ execution_state' = "Done" /\ lookups = rw_counter - 1 /\ withdrawals' \in WithdrawalTables
    BY <1>1, <1>5 DEF EndBlock, Tallied, RowsCounted, IInv, Types
  <2>2. Cardinality(PaidOut(withdrawals')) \in Nat
    BY <2>1, PaidOutFinite
  <2> QED
    BY <1>1, <2>1, <2>2 DEF Tallied, RowsCounted, total_rws, total_withdrawals
<1> QED
  BY <1>2, <1>3, <1>4, <1>5

LEMMA NextTallies ==
  ASSUME ConstantsAssumption, Counted, CallOps \subseteq {"CALL"}, IInv, Tallied, [Next]_vars,
         ~CheckFails \/ UNCHANGED vars
  PROVE  Tallied'
<1>1. CASE UNCHANGED vars
  BY <1>1 DEF vars, Tallied, RowsCounted, total_rws, total_withdrawals, Counter
<1>2. CASE Next /\ ~CheckFails
  BY <1>2, BeginTxCallTallies, BeginTxPlainTallies, SloadTallies, SstoreTallies,
     TouchAccountTallies, CallPlainTallies, CallContractTallies, HaltTallies, NothingElse,
     EndTallies
     DEF Next
<1> QED
  BY <1>1, <1>2

\* As long as every CALL passes its checks, counters spent are rows looked up, those that
\* undo failed calls included, and in the end EndBlock takes just as many for the rows in
\* use as there are (end_block.py:166-174).
THEOREM RowsAreCounted ==
  ASSUME Counted, CallOps \subseteq {"CALL"}
  PROVE  Spec /\ [][~CheckFails]_vars => []RowsCounted
<1>1. Init => Tallied
  BY DEF Init, Tallied, RowsCounted
<1>2. IInv /\ Tallied /\ [Next]_vars /\ [~CheckFails]_vars => Tallied'
  BY ConstantsAssumption, NextTallies
<1>3. Tallied => RowsCounted
  BY DEF Tallied
<1> QED
  BY <1>1, <1>2, <1>3, CallsUndoable, PTL DEF Spec

\* What IInv says nothing of.
Looked == lookups \in Nat /\ withdrawals \in WithdrawalTables \cup {<<>>}

\* However the calls are made, each step looks up some rows.
LEMMA NextLooks ==
  ASSUME ConstantsAssumption, Counted, IInv, Looked, [Next]_vars
  PROVE  Looked'
<1>1. withdrawals' \in WithdrawalTables \cup {<<>>}
  <2>1. CASE withdrawals' = withdrawals
    BY <2>1 DEF Looked
  <2>2. CASE EndEmptyBlock \/ EndBlock
    BY <2>2 DEF EndEmptyBlock, EndBlock
  <2>3. CASE BeginTxCall \/ BeginTxPlain
    BY <2>1, <2>3 DEF BeginTxCall, BeginTxPlain
  <2>4. CASE Sload \/ Sstore \/ TouchAccount
    BY <2>1, <2>4
       DEF Sload, sload, Sstore, sstore, TouchAccount, touch_account, SameContext, StaysInCall
  <2>5. CASE CallPlain \/ CallContract
    <3>1. ASSUME NEW op, NEW a, NEW value, NEW n, NEW next, EnterCall(op, a, value, n, next)
          PROVE  withdrawals' = withdrawals
      BY <3>1 DEF EnterCall
    <3>2. ASSUME NEW op, NEW a, NEW value, CallStays(op, a, value)
          PROVE  withdrawals' = withdrawals
      BY <3>2 DEF CallStays, SameContext, StaysInCall
    <3> QED
      BY <2>1, <2>5, <3>1, <3>2 DEF CallPlain, CallContract
  <2>6. CASE Stop \/ Return \/ Revert \/ Error
    <3>1. ASSUME NEW t, NEW n, NEW more, NEW ok, NEW halts, EndOfCall(t, n, more, ok, halts)
          PROVE  withdrawals' \in WithdrawalTables \cup {<<>>}
      BY <2>1, <3>1 DEF EndOfCall
    <3>2. CASE Stop \/ Return
      BY <3>1, <3>2 DEF Stop, Return, return_data, EndRoot, RestoreContext
    <3>3. CASE Revert \/ Error
      BY <3>1, <3>3 DEF Revert, Error, return_data, return_code, EndRoot, RestoreContext
    <3> QED
      BY <2>6, <3>2, <3>3
  <2>7. CASE EndTxToBeginTx \/ EndTxToEndBlock
    BY <2>1, <2>7 DEF EndTxToBeginTx, EndTxToEndBlock, EndTx
  <2>8. CASE UNCHANGED vars
    BY <2>1, <2>8 DEF vars
  <2> QED
    BY <2>2, <2>3, <2>4, <2>5, <2>6, <2>7, <2>8, NothingElse DEF Next
<1> SUFFICES lookups' \in Nat
  BY <1>1 DEF Looked
<1>2. lookups \in Nat
  BY DEF Looked
<1>3. CASE UNCHANGED vars
  BY <1>2, <1>3 DEF vars
<1>4. ASSUME \E n \in Nat : lookups' = lookups + n
      PROVE  lookups' \in Nat
  BY <1>2, <1>4
<1>5. CASE BeginTxCall \/ BeginTxPlain
  BY <1>4, <1>5 DEF BeginTxCall, BeginTxPlain
<1>6. CASE Sload \/ Sstore
  BY <1>4, <1>6 DEF Sload, sload, Sstore, sstore, SameContext, StaysInCall
<1>7. CASE TouchAccount
  <2>1. lookups' = lookups + touch_lookups("EXTCODESIZE")
    BY <1>7 DEF TouchAccount, Counted, touch_account, SameContext, StaysInCall
  <2>2. touch_lookups("EXTCODESIZE") \in Nat
    BY DEF touch_lookups
  <2> QED
    BY <1>4, <2>1, <2>2
<1>8. CASE CallPlain
  <2>1. PICK op \in CallOps, ok \in BOOLEAN : lookups' = lookups + (call_lookups(op, ok) + 3)
    <3>1. \A op, value : is_precheck_ok(op, value) \in BOOLEAN
      BY DEF is_precheck_ok
    <3> QED
      BY <1>8, <3>1 DEF CallPlain, CallStays, SameContext, StaysInCall
  <2> DEFINE m == call_lookups(op, ok)
  <2>2. m \in Nat
    <3>1. rw_counter \in Nat /\ op \in {"CALL", "CALLCODE", "DELEGATECALL", "STATICCALL"}
      BY ConstantTypes DEF IInv, Types
    <3> QED
      BY <3>1, CallLookups
  <2> HIDE DEF m
  <2>3. m + 3 \in Nat
    BY <2>2
  <2> QED
    BY <1>4, <2>1, <2>3 DEF m
<1>9. CASE CallContract
  <2>1. PICK op \in CallOps : lookups' = lookups + call_lookups(op, TRUE) + 23
    <3>1. PICK op \in CallOps : \E a, value : EnterCall(op, a, value, 23, "Run")
      BY <1>9 DEF CallContract
    <3> QED
      BY <3>1 DEF EnterCall
  <2> DEFINE m == call_lookups(op, TRUE)
  <2>2. m \in Nat
    <3>1. rw_counter \in Nat /\ op \in {"CALL", "CALLCODE", "DELEGATECALL", "STATICCALL"}
      BY ConstantTypes DEF IInv, Types
    <3> QED
      BY <3>1, CallLookups
  <2> HIDE DEF m
  <2>3. lookups' = lookups + m + 23
    BY <2>1 DEF m
  <2> QED
    BY <1>2, <2>2, <2>3
<1>10. CASE Stop \/ Return \/ Revert \/ Error
  <2>1. Running /\ Top \in CallFrames /\ Sound(Here, rw_counter, reversible_write_counter, Top.entry)
    BY <1>10, TopSound DEF Stop, Return, Revert, Error
  <2>2. PICK m \in Nat, success, halts \in BOOLEAN : EndOfCall(Here, m, 0, success, halts)
    <3>1. PICK n \in {1, 4, 5}, ok, halts \in BOOLEAN : Halts(n, ok, halts)
      BY <1>10, HaltEnds
    <3>2. n \in Nat /\ n + 12 \in Nat
      OBVIOUS
    <3>3. EndOfCall(Here, n, 0, ok, halts) \/ EndOfCall(Here, n + 12, 0, ok, halts)
      BY <3>1 DEF Halts, EndRoot, RestoreContext
    <3> QED
      BY <3>2, <3>3
  <2> DEFINE end == rw_counter + m + reversible_write_counter - 1
             undo == IF success THEN {} ELSE UndoRows(Top.pending, end)
  <2>3. lookups' = lookups + m + 0 + Cardinality(undo)
    BY <2>2 DEF EndOfCall, Here
  <2>4. /\ end \in Int /\ Top.pending \in SUBSET Pending /\ reversible_write_counter \in Nat
        /\ Covered(Top.pending, reversible_write_counter)
    BY <2>1 DEF CallFrames, Sound, Here, IInv, Types
  <2> HIDE DEF end
  <2>5. Cardinality(undo) \in Nat
    BY <2>4, UndoCounted, FS_EmptySet
  <2> HIDE DEF undo
  <2> QED
    BY <1>2, <2>3, <2>5
<1>11. CASE EndTxToBeginTx \/ EndTxToEndBlock
  <2>1. PICK n \in {0, 1} : lookups' = lookups + n + (IF tx.id = 1 THEN 8 ELSE 9)
    BY <1>11 DEF EndTxToBeginTx, EndTxToEndBlock, EndTx
  <2> QED
    BY <1>2, <2>1
<1>12. CASE EndEmptyBlock
  BY <1>2, <1>12 DEF EndEmptyBlock
<1>13. CASE EndBlock
  <2>1. /\ lookups' = lookups + 2 + Cardinality(PaidOut(withdrawals'))
        /\ withdrawals' \in WithdrawalTables
    BY <1>13 DEF EndBlock
  <2>2. Cardinality(PaidOut(withdrawals')) \in Nat
    BY <2>1, PaidOutFinite
  <2> QED
    BY <1>2, <2>1, <2>2
<1> QED
  BY <1>3, <1>5, <1>6, <1>7, <1>8, <1>9, <1>10, <1>11, <1>12, <1>13, NothingElse DEF Next

\* Every variable has its type, and no counter becomes negative, although the ends of calls
\* restore some of them.
THEOREM TypesHold ==
  ASSUME Counted
  PROVE  Spec => []TypeOK
<1>1. Init => Looked
  BY DEF Init, Looked
<1>2. IInv /\ Looked /\ [Next]_vars => Looked'
  BY ConstantsAssumption, NextLooks
<1>3. IInv /\ Looked => TypeOK
  <2> SUFFICES ASSUME IInv, Looked
               PROVE  TypeOK
    OBVIOUS
  <2>1. CallFrames \subseteq Frames
    BY AccountsAreAccounts DEF CallFrames, Frames
  <2>2. frames \in Seq(Frames)
    BY <2>1 DEF IInv, Types
  <2> QED
    BY <2>2 DEF IInv, Types, Looked, TypeOK
<1> QED
  BY <1>1, <1>2, <1>3, CallsUndoable, PTL DEF Spec
=============================================================================
