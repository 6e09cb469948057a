------------------------------ MODULE RwMemory ------------------------------
(***************************************************************************)
(* What the state circuit promises of the cells that start at 0: they      *)
(* behave like a memory accessed one operation at a time.                  *)
(***************************************************************************)
CONSTANTS Cells, Words, Zero

VARIABLES
  mem,   \* the word each cell holds
  op     \* the last operation, <<cell, is_write, word>>, or << >>

TypeOK ==
  /\ mem \in [Cells -> Words]
  /\ op \in (Cells \X {0, 1} \X Words) \cup {<<>>}

Init == mem = [c \in Cells |-> Zero] /\ op = <<>>

\* A read returns what the cell holds.
Read(c) == op' = <<c, 0, mem[c]>> /\ UNCHANGED mem

Write(c, w) == op' = <<c, 1, w>> /\ mem' = [mem EXCEPT ![c] = w]

Next == \E c \in Cells : Read(c) \/ \E w \in Words : Write(c, w)

Spec == Init /\ [][Next]_<<mem, op>>
=============================================================================
