----------------------------- MODULE SnapshotEvm -----------------------------
(***************************************************************************)
(* What reversion promises, without counters and without rows: a call that *)
(* starts remembers the state, a call that fails puts it back, a call that *)
(* succeeds forgets it (specs/opcode/F3RETURN_FDREVERT.md:7-8).            *)
(***************************************************************************)
EXTENDS Integers, Sequences

CONSTANT Slots

VARIABLES
  state,       \* the value of every slot
  snapshots,   \* the states that the calls in progress started from
  is_success   \* how the call that ended last ended

vars == <<state, snapshots, is_success>>

LastOf(s) == s[Len(s)]
Popped(s) == SubSeq(s, 1, Len(s) - 1)

\* The slots that entering a call may change before the state is remembered: the
\* caller puts the callee on its access list, a transaction its nonce.
Preliminary(slot) == slot.tag \in {"TxAccessListAccount", "Nonce"}

Init == state \in [Slots -> Int] /\ snapshots = <<>> /\ is_success = FALSE

\* Opcodes within a call, and the steps before and after a transaction.
Execute ==
  /\ state' \in [Slots -> Int]
  /\ UNCHANGED <<snapshots, is_success>>

Enter ==
  /\ Len(snapshots') = Len(snapshots) + 1
  /\ Popped(snapshots') = snapshots
  /\ \A slot \in Slots : ~Preliminary(slot) => LastOf(snapshots')[slot] = state[slot]
  /\ state' \in [Slots -> Int]
  /\ UNCHANGED is_success

Succeed ==
  /\ snapshots # <<>>
  /\ snapshots' = Popped(snapshots)
  /\ is_success' = TRUE
  /\ UNCHANGED state

Fail ==
  /\ snapshots # <<>>
  /\ snapshots' = Popped(snapshots)
  /\ is_success' = FALSE
  /\ state' = LastOf(snapshots)

Next == Execute \/ Enter \/ Succeed \/ Fail

Spec == Init /\ [][Next]_vars
=============================================================================
