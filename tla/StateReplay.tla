----------------------------- MODULE StateReplay -----------------------------
(***************************************************************************)
(* The order the EVM circuit sees.  Once the table is closed, its rows are *)
(* replayed by increasing read/write counter, the order in which the EVM   *)
(* circuit's lookups consume them, whatever their place in the table.  For *)
(* the cells that start at 0 the replay is a run of RwMemory: check 0.5    *)
(* and the first-access checks hold between table neighbours, the memory's *)
(* Read holds between operations in time.                                  *)
(***************************************************************************)
EXTENDS StateCircuit

VARIABLES
  replayed,  \* the indices of the rows already replayed
  last       \* the index of the row replayed last, 0 before the first

replayVars == <<rows, closed, replayed, last>>

Cells == {k \in Keys : k.tag \in ZeroInitialised}

Pending == {i \in DOMAIN rows : rows[i].key \in Cells} \ replayed

ReplayInit == Init /\ replayed = {} /\ last = 0

\* While the table is laid down nothing is replayed.
Waiting == UNCHANGED <<replayed, last>>

\* Counters are unique in what the EVM circuit looks up; rows of different
\* cells that share one are taken in either order.
Replay ==
  /\ closed
  /\ \E i \in Pending :
       /\ \A j \in Pending : rows[i].rwc <= rows[j].rwc
       /\ replayed' = replayed \cup {i}
       /\ last' = i
  /\ UNCHANGED <<rows, closed>>

ReplayNext ==
  \/ FirstRow /\ Waiting
  \/ AppendStart /\ Waiting
  \/ AppendMemory /\ Waiting
  \/ AppendStack /\ Waiting
  \/ AppendStorage /\ Waiting
  \/ AppendCallContext /\ Waiting
  \/ AppendAccount /\ Waiting
  \/ AppendTxRefund /\ Waiting
  \/ AppendTxAccessListAccount /\ Waiting
  \/ AppendTxAccessListAccountStorage /\ Waiting
  \/ AppendTxLog /\ Waiting
  \/ AppendTxReceipt /\ Waiting
  \/ CloseTable /\ Waiting
  \/ Replay

ReplaySpec == ReplayInit /\ [][ReplayNext]_replayVars

-----------------------------------------------------------------------------
(* The memory the replay has built: each cell holds what was last written. *)

WritesTo(c) == {i \in replayed : rows[i].key = c /\ rows[i].wr = 1}

memOf ==
  [c \in Cells |->
     IF WritesTo(c) = {} THEN 0
     ELSE rows[CHOOSE i \in WritesTo(c) : \A j \in WritesTo(c) : rows[j].rwc <= rows[i].rwc].val]

opOf == IF last = 0 THEN <<>> ELSE <<rows[last].key, rows[last].wr, rows[last].val>>

Memory0 == INSTANCE RwMemory
             WITH Cells <- Cells, Words <- Values, Zero <- 0, mem <- memOf, op <- opOf

\* The replay of an accepted table implements the memory: every read row
\* carries the word written last, in time, to its cell.
ImplementsMemory == Memory0!Spec
=============================================================================
