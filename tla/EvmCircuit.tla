------------------------------ MODULE EvmCircuit ------------------------------
(***************************************************************************)
(* The EVM circuit's call structure and its reversions                     *)
(* (src/zkevm_specs/evm_circuit).  Every step takes the next read/write    *)
(* counters for its lookups.  A reversible write made in a call that does  *)
(* not persist asks for a second row that undoes it, at the counter        *)
(*                                                                         *)
(*     rw_counter_end_of_reversion - reversible_write_counter              *)
(*                                                                         *)
(* and the step of an error state skips reversible_write_counter counters, *)
(* where those rows have to fit.  REVERT skips none (RevertsWrites).       *)
(*                                                                         *)
(* The circuit guesses success and end of every call beforehand; here both *)
(* are known when the call ends.  Until then a frame keeps its reversible  *)
(* writes with their distance to the end of the call (off), and a call that*)
(* succeeds hands its writes to its caller, moved by the distance that     *)
(* callop puts between the two ends.  The end itself is where the documents*)
(* want it: the last counter of the skipped range (specs/error_state), and *)
(* for REVERT, where nothing constrains it, of as many counters after it.  *)
(***************************************************************************)
EXTENDS Integers, Sequences, FiniteSets, FiniteSetsExt

CONSTANTS
  Contracts,     \* accounts with code
  Plain,         \* accounts without code
  Precompiles,   \* addresses of precompiled contracts
  NewAccounts,   \* the addresses contracts are created at
  Sender,        \* the account that signs every transaction
  Coinbase,
  StorageKeys,
  Values,        \* the words SSTORE may store
  CallOps,       \* the call opcodes in use
  CreateOps,     \* the creating opcodes in use
  TouchOps,      \* the account-reading opcodes in use
  CallValues,    \* the values CALL and CALLCODE may send
  CallDepthLimit,\* 1025
  Gas,           \* gas of a transaction, at price 1 with no base fee
  GasUsed,       \* the amounts of gas an execution may use
  MaxRefundQuotient,  \* MAX_REFUND_QUOTIENT_OF_GAS_USED
  ClearsSchedule,     \* SSTORE_CLEARS_SCHEDULE
  SetRefund,          \* SSTORE_SET_GAS - SLOAD_GAS
  ResetRefund,        \* SSTORE_RESET_GAS - SLOAD_GAS
  InitialBalance, \* the balance of every account before the block
  BlockGasLimit,
  WithdrawalTables, \* the withdrawal tables a block may have, in the order of their ids
  RevertsWrites, \* whether REVERT may end calls that have writes to undo
  MaxTxs,        \* bound on the transactions of the block
  MaxDepth,      \* bound on the depth the behaviours explore
  MaxWrites      \* bound on the write rows after which only halting steps are taken

Accounts == Contracts \cup Plain \cup Precompiles \cup NewAccounts \cup {Sender, Coinbase}
TxIds == 1 .. MaxTxs

ConstantsAssumption ==
  /\ IsFiniteSet(Accounts) /\ IsFiniteSet(StorageKeys)
  /\ Values \subseteq Nat /\ CallValues \subseteq Nat
  /\ CallOps \subseteq {"CALL", "CALLCODE", "DELEGATECALL", "STATICCALL"}
  /\ CreateOps \subseteq {"CREATE", "CREATE2"}
  /\ TouchOps \subseteq {"BALANCE", "EXTCODESIZE", "EXTCODEHASH", "EXTCODECOPY"}
  /\ Gas \in Nat /\ GasUsed \subseteq 0 .. Gas /\ InitialBalance \in Nat
  /\ MaxRefundQuotient \in Nat \ {0}
  /\ ClearsSchedule \in Nat /\ SetRefund \in Nat /\ ResetRefund \in Nat
  /\ BlockGasLimit \in Nat
  /\ \A t \in WithdrawalTables : t \in Seq([address : Accounts, amount : Nat])
  /\ RevertsWrites \in BOOLEAN
  /\ MaxTxs \in Nat \ {0}
ASSUME ConstantsAssumption

VARIABLES
  execution_state,           \* of the next step: what kind of step it is
  rw_counter,                \* the next free counter
  reversible_write_counter,  \* of the current call
  frames,                    \* the calls in progress, the root call first
  tx,                        \* the current transaction: [id, invalid, persistent]
  state,                     \* the value of every slot
  committed,                 \* the same, before the current transaction
  rows,                      \* the write rows of the rw table
  lookups,                   \* how many rows the steps so far looked up
  withdrawals,               \* the withdrawal table, once the last step has read it
  is_success                 \* how the call that ended last ended

vars == <<execution_state, rw_counter, reversible_write_counter, frames, tx, state,
          committed, rows, lookups, withdrawals, is_success>>

-----------------------------------------------------------------------------
(* The slots of the state that steps write.                                *)

Slot(tag, id, addr, key) == [tag |-> tag, id |-> id, addr |-> addr, key |-> key]
Storage(a, k) == Slot("Storage", 0, a, k)
Nonce(a) == Slot("Nonce", 0, a, 0)
Balance(a) == Slot("Balance", 0, a, 0)
CodeHash(a) == Slot("CodeHash", 0, a, 0)
AccessListAccount(t, a) == Slot("TxAccessListAccount", t, a, 0)
AccessListStorage(t, a, k) == Slot("TxAccessListAccountStorage", t, a, k)
Refund(t) == Slot("TxRefund", t, 0, 0)
CumulativeGasUsed(t) == Slot("TxReceipt", t, 0, 0)

\* Values of CodeHash: no such account, EMPTY_CODE_HASH, and the code RETURN leaves.
NoAccount == 0
EmptyCode == 1
OwnCode == 2

Slots ==
  {Storage(a, k) : a \in Contracts \cup NewAccounts, k \in StorageKeys}
    \cup {Nonce(a) : a \in {Sender} \cup Contracts \cup NewAccounts}
    \cup {CodeHash(a) : a \in NewAccounts}
    \cup {Balance(a) : a \in Accounts}
    \cup {AccessListAccount(t, a) : t \in TxIds, a \in Accounts}
    \cup {AccessListStorage(t, a, k) :
            t \in TxIds, a \in Contracts \cup NewAccounts, k \in StorageKeys}
    \cup {Refund(t) : t \in TxIds}
    \cup {CumulativeGasUsed(t) : t \in TxIds}

\* Every storage slot of a contract holds v, a new account has code hash h;
\* precompiled contracts are warm in every transaction; balances start alike.
InitialState(v, h) ==
  [s \in Slots |->
     IF s.tag = "Storage" /\ s.addr \in Contracts THEN v
     ELSE IF s.tag = "CodeHash" THEN h
     ELSE IF s.tag = "Balance" THEN InitialBalance
     ELSE IF s.tag = "TxAccessListAccount" /\ s.addr \in Precompiles THEN 1 ELSE 0]

-----------------------------------------------------------------------------
(* Writes.  A step threads a record [state, rows, pending] through its     *)
(* writes; each one makes a row at counter c.                              *)

Row(c, slot, val, prev) == [rwc |-> c, slot |-> slot, val |-> val, prev |-> prev]

\* state_write without ReversionInfo.
Write(t, c, slot, val) ==
  [t EXCEPT !.state[slot] = val,
            !.rows = @ \cup {Row(c, slot, val, t.state[slot])}]

\* state_write with a ReversionInfo whose reversible_write_counter is off.
ReversibleWrite(t, c, slot, val, off) ==
  [Write(t, c, slot, val) EXCEPT
     !.pending = @ \cup {[off |-> off, slot |-> slot, val |-> val, prev |-> t.state[slot]]}]

add_account_to_access_list(t, c, a, off) ==
  ReversibleWrite(t, c, AccessListAccount(tx.id, a), 1, off)

\* transfer and transfer_with_gas_fee: two reversible writes.
transfer_with_gas_fee(t, c, sender, receiver, value, fee, off) ==
  LET paid == ReversibleWrite(t, c, Balance(sender),
                              t.state[Balance(sender)] - (value + fee), off)
  IN ReversibleWrite(paid, c + 1, Balance(receiver),
                     paid.state[Balance(receiver)] + value, off + 1)

transfer(t, c, sender, receiver, value, off) ==
  transfer_with_gas_fee(t, c, sender, receiver, value, 0, off)

-----------------------------------------------------------------------------
(* Reversion.                                                              *)

\* Faulty: the writes are undone in the order they were made.
rw_counter_of_reversion_ascending(end, off) == end + off

rw_counter_of_reversion(end, off) == end - off

\* The rows that undo the writes of a call whose reversion ends at counter end.
UndoRows(pending, end) ==
  {Row(rw_counter_of_reversion(end, w.off), w.slot, w.prev, w.val) : w \in pending}

\* The state after a set of rows: the row with the highest counter has the say.
Replayed(st, R) ==
  [s \in Slots |->
     LET Mine == {r \in R : r.slot = s}
     IN IF Mine = {} THEN st[s]
        ELSE (CHOOSE r \in Mine : \A q \in Mine : q.rwc <= r.rwc).val]

\* Faulty: the callee's end is taken before the callee is put on the access list.
handed_over_at_same_offset(caller, callee) ==
  caller.pending \cup {[w EXCEPT !.off = @ + caller.base - 1] : w \in callee.pending}

\* The writes of a successful callee, seen from the end of its caller.
handed_over(caller, callee) ==
  caller.pending \cup {[w EXCEPT !.off = @ + caller.base] : w \in callee.pending}

-----------------------------------------------------------------------------
(* Frames.  A frame is a call in progress.                                 *)

Top == frames[Len(frames)]
Caller == frames[Len(frames) - 1]
IsRoot == Len(frames) = 1
Running == execution_state = "Run"
\* After MaxWrites rows a behaviour only halts its calls.
MayExecute == Running /\ Cardinality(rows) < MaxWrites

\* entry: the state the call started from; base: the distance between the end of
\* the call and the end of the callee it is waiting for; saved: its
\* ReversibleWriteCounter while it waits; caller: its CallerAddress; outcomes:
\* the values its IsSuccess may still have.
Frame(op, addr, caller, static, st, pending, outcomes) ==
  [op |-> op, id |-> rw_counter, addr |-> addr, caller |-> caller, static |-> static,
   entry |-> st, pending |-> pending, base |-> 0, saved |-> 0, outcomes |-> outcomes]

\* IsCreate of a call.
IsCreate(frame) == frame.op \in {"CREATE", "CREATE2", "CreationTx"}
HasCode(a) == a \in Contracts \/ (a \in NewAccounts /\ state[CodeHash(a)] = OwnCode)

Here == [state |-> state, rows |-> rows, pending |-> Top.pending]

\* A step of n lookups that stays in its call, whose IsSuccess is one of outcomes.
StaysInCall(t, n, rw_delta, rev_delta, outcomes) ==
  /\ state' = t.state
  /\ rows' = t.rows
  /\ frames' = [frames EXCEPT ![Len(frames)].pending = t.pending,
                              ![Len(frames)].outcomes = outcomes]
  /\ lookups' = lookups + n
  /\ rw_counter' = rw_counter + rw_delta
  /\ reversible_write_counter' = reversible_write_counter + rev_delta
  /\ UNCHANGED <<execution_state, tx, committed, withdrawals, is_success>>

\* step_state_transition_in_same_context.
SameContext(t, n, rw_delta, rev_delta) ==
  StaysInCall(t, n, rw_delta, rev_delta, Top.outcomes)

-----------------------------------------------------------------------------
(* Opcodes that stay in their call.                                        *)

\* Faulty: SLOAD forgets that warming the slot is reversible.
sload_uncounted(k) ==
  LET t == ReversibleWrite(Here, rw_counter + 7, AccessListStorage(tx.id, Top.addr, k), 1,
                           reversible_write_counter)
  IN SameContext(t, 8, 8, 0)

sload(k) ==
  LET t == ReversibleWrite(Here, rw_counter + 7, AccessListStorage(tx.id, Top.addr, k), 1,
                           reversible_write_counter)
  IN SameContext(t, 8, 8, 1)

\* Faulty: clearing a slot gives no refund.
gas_refund_no_credit(original, prev, val, refund) ==
  IF original # 0 /\ prev = 0 /\ val # 0 THEN refund - ClearsSchedule ELSE refund

\* The refund counter after SSTORE writes val over prev.
gas_refund(original, prev, val, refund) ==
  LET cleared == IF prev = 0 THEN refund - ClearsSchedule
                 ELSE IF val = 0 THEN refund + ClearsSchedule
                 ELSE refund
  IN IF prev = val THEN refund
     ELSE IF original = prev
          THEN IF original # 0 /\ val = 0 THEN refund + ClearsSchedule ELSE refund
     ELSE IF original = 0 THEN IF val = original THEN refund + SetRefund ELSE refund
     ELSE IF original = val THEN cleared + ResetRefund ELSE cleared

sstore(k, v) ==
  LET slot == Storage(Top.addr, k)
      r == reversible_write_counter
      stored == ReversibleWrite(Here, rw_counter + 7, slot, v, r)
      warmed == ReversibleWrite(stored, rw_counter + 8,
                                AccessListStorage(tx.id, Top.addr, k), 1, r + 1)
      refunded == ReversibleWrite(warmed, rw_counter + 9, Refund(tx.id),
                    gas_refund(committed[slot], state[slot], v, state[Refund(tx.id)]), r + 2)
  IN /\ ~Top.static
     /\ SameContext(refunded, 10, 10, 3)

\* BALANCE, EXTCODESIZE, EXTCODEHASH and EXTCODECOPY (of no bytes) warm an
\* account; only extcodesize passes reversible_write_counter to the transition.
touch_lookups(op) ==
  [BALANCE |-> 8, EXTCODESIZE |-> 7, EXTCODEHASH |-> 7, EXTCODECOPY |-> 9][op]
touch_account(op, a) ==
  LET pops == IF op = "EXTCODECOPY" THEN 4 ELSE 1
      t == add_account_to_access_list(Here, rw_counter + pops + 3, a, reversible_write_counter)
  IN SameContext(t, touch_lookups(op), touch_lookups(op), IF op = "EXTCODESIZE" THEN 1 ELSE 0)

Sload == MayExecute /\ \E k \in StorageKeys : sload(k)

Sstore == MayExecute /\ \E k \in StorageKeys, v \in Values : sstore(k, v)

TouchAccount ==
  MayExecute /\ \E op \in TouchOps, a \in Contracts \cup Plain : touch_account(op, a)

-----------------------------------------------------------------------------
(* Call opcodes.  Up to the transfer they do the same lookups: the context,*)
(* the stack, the callee's code hash, the access list, the callee's        *)
(* reversion info and the balance of the caller.                           *)

SendsValue(op) == op \in {"CALL", "CALLCODE"}

access_list_at(op) ==
  rw_counter + [CALL |-> 15, CALLCODE |-> 15, DELEGATECALL |-> 16, STATICCALL |-> 14][op]
transfer_at(op) == access_list_at(op) + 3 + (IF SendsValue(op) THEN 1 ELSE 0)
call_lookups(op, ok) == transfer_at(op) - rw_counter + (IF op = "CALL" /\ ok THEN 2 ELSE 0)

is_precheck_ok(op, value) ==
  /\ Len(frames) < CallDepthLimit
  /\ SendsValue(op) => value <= state[Balance(Top.addr)]

\* The callee is warmed by the caller; the transfer belongs to the callee, whose
\* counter starts at off.
warmed_callee(op, a) ==
  add_account_to_access_list(Here, access_list_at(op), a, reversible_write_counter)

transferred(t, op, a, value, ok, off) ==
  IF op = "CALL" /\ ok THEN transfer(t, transfer_at(op), Top.addr, a, value, off) ELSE t

\* How far the end of the callee is from the end of the caller, in writes: the
\* caller's counter after the write to the access list.
callee_base == reversible_write_counter + 1

CallInput(op, a, value) ==
  /\ MayExecute
  /\ op \in CallOps
  /\ value \in IF SendsValue(op) THEN CallValues ELSE {0}
  /\ Top.static => value = 0

\* Precheck fails or the callee has no code: the call is over within the step.
CallStays(op, a, value) ==
  LET ok == is_precheck_ok(op, value)
      n == call_lookups(op, ok) + 3
  IN /\ CallInput(op, a, value)
     /\ ok => ~HasCode(a) /\ a \notin Precompiles
     /\ SameContext(transferred(warmed_callee(op, a), op, a, value, ok, callee_base), n, n, 3)

\* A new call starts with the two writes of a transfer counted.
callee_counter == 2

\* The new call starts, with n more lookups to save the caller's context and set
\* up its own; it has the caller's IsStatic whatever the opcode.
EnterCall(op, a, value, n, next) ==
  LET warm == warmed_callee(op, a)
      t == transferred([warm EXCEPT !.pending = {}], op, a, value, TRUE, 0)
      addr == IF op \in {"CALLCODE", "DELEGATECALL"} THEN Top.addr ELSE a
      caller == IF op = "DELEGATECALL" THEN Top.caller ELSE Top.addr
  IN /\ CallInput(op, a, value)
     /\ is_precheck_ok(op, value)
     /\ Len(frames) < MaxDepth
     /\ state' = t.state
     /\ rows' = t.rows
     /\ frames' = Append([frames EXCEPT ![Len(frames)].pending = warm.pending,
                                        ![Len(frames)].base = callee_base,
                                        ![Len(frames)].saved = reversible_write_counter + 1],
                         Frame(op, addr, caller, Top.static, warm.state, t.pending, BOOLEAN))
     /\ execution_state' = next
     /\ rw_counter' = rw_counter + call_lookups(op, TRUE) + n
     /\ lookups' = lookups + call_lookups(op, TRUE) + n
     /\ reversible_write_counter' = callee_counter
     /\ UNCHANGED <<tx, committed, withdrawals, is_success>>

CallPlain ==
  \E op \in CallOps, a \in Contracts \cup Plain \cup NewAccounts,
     value \in CallValues \cup {0} :
    CallStays(op, a, value)

CallContract ==
  \E op \in CallOps, a \in Contracts \cup NewAccounts, value \in CallValues \cup {0} :
    HasCode(a) /\ EnterCall(op, a, value, 23, "Run")

\* A precompiled contract finds its own address in CalleeAddress, so it cannot be
\* called by CALLCODE or DELEGATECALL.  Its input and output are empty here.
CallPrecompile ==
  \E op \in CallOps \ {"CALLCODE", "DELEGATECALL"}, a \in Precompiles,
     value \in CallValues \cup {0} :
    EnterCall(op, a, value, 15, "Precompile")

-----------------------------------------------------------------------------
(* CREATE and CREATE2.  The creator is the CallerAddress of the call, and  *)
(* the IsSuccess of the call stands for that of the new one.               *)

creator == Top.caller

\* The pops and the push, Depth, TxId, CallerAddress, the nonce and the balance of
\* the creator, IsSuccess, IsStatic and the reversion info of the call.
create_lookups(op) == [CREATE |-> 13, CREATE2 |-> 14][op]
new_address_at(op) == rw_counter + create_lookups(op)

is_create_precheck_ok(value) ==
  Len(frames) < CallDepthLimit /\ value <= state[Balance(creator)]

address_collision(a) ==
  state[Nonce(a)] # 0 \/ state[CodeHash(a)] \notin {NoAccount, EmptyCode}

\* The nonce is written before the checks, the access list after the first of
\* them, both without reversion.
creator_counted(op) ==
  Write(Here, new_address_at(op) - 6, Nonce(creator), state[Nonce(creator)] + 1)
new_address_warmed(op, a) ==
  Write(creator_counted(op), new_address_at(op), AccessListAccount(tx.id, a), 1)

\* The transfer is reversible, the nonce of the new contract is not.
new_contract(t, op, a, value, off) ==
  Write(transfer(t, new_address_at(op) + 5, creator, a, value, off),
        new_address_at(op) + 7, Nonce(a), 1)

\* The init code of a creation, in bytes, if it has one.
init_code_size == 1

CreateInput(op, a, value) ==
  /\ MayExecute
  /\ op \in CreateOps /\ a \in NewAccounts \ {creator} /\ value \in CallValues

\* No new call: a check fails, which the call itself has to do then, or there is no
\* init code.
CreateStays(op, a, value) ==
  LET warm == new_address_warmed(op, a)
      n == create_lookups(op)
  IN /\ CreateInput(op, a, value)
     /\ \/ /\ ~is_create_precheck_ok(value)
           /\ FALSE \in Top.outcomes
           /\ StaysInCall(creator_counted(op), n + 3, n + 3, 0, {FALSE})
        \/ /\ is_create_precheck_ok(value) /\ address_collision(a)
           /\ FALSE \in Top.outcomes
           /\ StaysInCall(warm, n + 6, n + 6, 0, {FALSE})
        \/ /\ is_create_precheck_ok(value) /\ ~address_collision(a)
           /\ SameContext(new_contract(warm, op, a, value, callee_base), n + 11, n + 11, 3)

\* The transfer and the nonce are counted: "two balance updates and one nonce
\* update".
new_contract_counter == 3

\* The init code is copied, byte by byte, 5 fields are saved and 10 set up.
EnterCreate(op, a, value) ==
  LET warm == new_address_warmed(op, a)
      t == new_contract([warm EXCEPT !.pending = {}], op, a, value, 0)
      n == create_lookups(op) + 8 + init_code_size + 15
  IN /\ CreateInput(op, a, value)
     /\ is_create_precheck_ok(value) /\ ~address_collision(a)
     /\ Len(frames) < MaxDepth
     /\ state' = t.state
     /\ rows' = t.rows
     /\ frames' = Append([frames EXCEPT ![Len(frames)].base = callee_base,
                                        ![Len(frames)].saved = reversible_write_counter + 1],
                         Frame(op, a, creator, FALSE, warm.state, t.pending, Top.outcomes))
     /\ rw_counter' = rw_counter + n
     /\ lookups' = lookups + n
     /\ reversible_write_counter' = new_contract_counter
     /\ UNCHANGED <<execution_state, tx, committed, withdrawals, is_success>>

CreatePlain ==
  \E op \in CreateOps, a \in NewAccounts, value \in CallValues : CreateStays(op, a, value)

CreateContract ==
  \E op \in CreateOps, a \in NewAccounts, value \in CallValues : EnterCreate(op, a, value)

-----------------------------------------------------------------------------
(* Ends of calls.                                                          *)

\* An error state (constrain_error_state) is neither a success nor a step of RETURN.
InErrorState(success, halts_in_success) == ~success /\ ~halts_in_success

\* The effect of the end of a call on the state and the table.  An error state skips
\* the counters of the rows that undo the call.  Those of a REVERT share theirs with
\* the steps that follow, which may see any of them done.  The step makes more
\* lookups than the n its transition adds to rw_counter.
EndOfCall(t, n, more, success, halts_in_success) ==
  LET end == rw_counter + n + reversible_write_counter - 1
      undo == IF success THEN {} ELSE UndoRows(t.pending, end)
      skips == InErrorState(success, halts_in_success)
  IN /\ success \in Top.outcomes
     /\ \E done \in IF skips THEN {undo} ELSE SUBSET undo : state' = Replayed(t.state, done)
     /\ rows' = t.rows \cup undo
     /\ lookups' = lookups + n + more + Cardinality(undo)
     /\ rw_counter' = rw_counter + n + (IF skips THEN reversible_write_counter ELSE 0)
     /\ is_success' = success
     /\ UNCHANGED <<committed, withdrawals>>

\* Faulty: the counter of the callee is taken off.
restored_counter_subtracted(halts_in_success) ==
  Caller.saved - (IF halts_in_success THEN reversible_write_counter ELSE 0)

\* The caller's counter: the callee's writes are added if its execution state halts in
\* success, as that of RETURN and REVERT does.
restored_counter(halts_in_success) ==
  Caller.saved + (IF halts_in_success THEN reversible_write_counter ELSE 0)

\* step_state_transition_to_restored_context: CallerId, 8 fields of the caller's
\* context, 3 fields about its last callee.  A call that creates has taken its own
\* IsSuccess for that of the call that now ends.
RestoreContext(t, n, more, success, halts_in_success) ==
  LET caller == [Caller EXCEPT !.outcomes = IF IsCreate(Top) THEN {success} ELSE @]
  IN /\ ~IsRoot
     /\ EndOfCall(t, n + 12, more, success, halts_in_success)
     /\ frames' = Append(SubSeq(frames, 1, Len(frames) - 2),
                         IF success THEN [caller EXCEPT !.pending = handed_over(Caller, Top)]
                         ELSE caller)
     /\ reversible_write_counter' = restored_counter(halts_in_success)
     /\ execution_state' = "Run"
     /\ UNCHANGED tx

\* The root call ends: the transaction persists if it succeeded.
EndRoot(t, n, more, success, halts_in_success) ==
  /\ IsRoot
  /\ EndOfCall(t, n, more, success, halts_in_success)
  /\ frames' = <<>>
  /\ execution_state' = "EndTx"
  /\ tx' = [tx EXCEPT !.persistent = success]
  /\ UNCHANGED reversible_write_counter

\* IsSuccess is looked up, by RETURN and REVERT also two stack words, and
\* IsPersistent at the root or where the caller wants the (empty) return data.
Stop ==
  Running /\ (EndRoot(Here, 1, 0, TRUE, TRUE) \/ RestoreContext(Here, 1, 0, TRUE, TRUE))

return_data(success) ==
  /\ ~IsCreate(Top)
  /\ EndRoot(Here, 4, 0, success, TRUE) \/ RestoreContext(Here, 5, 0, success, TRUE)

\* A creation leaves its code, also by REVERT: is_success is an FQ, which is true for
\* Python whatever it is.  CalleeAddress and the code hash are looked up, and the
\* transition does not count them; the bytes are.
return_code(success) ==
  /\ IsCreate(Top)
  /\ state[CodeHash(Top.addr)] = EmptyCode
  /\ \E length \in {0, init_code_size} :
       LET t == Write(Here, rw_counter + 4, CodeHash(Top.addr), OwnCode)
       IN \/ EndRoot(t, 4 + length, 2, success, TRUE)
          \/ RestoreContext(t, 3 + length, 2, success, TRUE)

Return == Running /\ return_data(TRUE)
ReturnCode == Running /\ return_code(TRUE)

\* REVERT is the same step as RETURN, with the same counters: is_return is an FQ, so
\* that "not is_return" is never true.
Revert ==
  /\ Running
  /\ RevertsWrites \/ Top.pending = {}
  /\ return_data(FALSE) \/ return_code(FALSE)

\* constrain_error_state.
Error == Running /\ (EndRoot(Here, 1, 0, FALSE, FALSE) \/ RestoreContext(Here, 1, 0, FALSE, FALSE))

\* A precompiled contract (dataCopy, with one lookup of its own beside CallerId
\* and four of the call data) returns, but its execution state is not one of
\* those that halt in success; or it runs out of gas.
PrecompileReturns ==
  execution_state = "Precompile" /\ RestoreContext(Here, 5, 0, TRUE, FALSE)
PrecompileFails ==
  execution_state = "Precompile" /\ RestoreContext(Here, 3, 0, FALSE, FALSE)

-----------------------------------------------------------------------------
(* Transactions and the block.                                             *)

\* The writes of begin_tx up to the transfer: nonce and access list.
tx_prepared(to, invalid) ==
  LET t == [state |-> state, rows |-> rows, pending |-> {}]
      bumped == Write(t, rw_counter + 4, Nonce(Sender),
                      state[Nonce(Sender)] + (IF invalid THEN 0 ELSE 1))
      warm1 == Write(bumped, rw_counter + 5, AccessListAccount(tx.id, Coinbase), 1)
      warm2 == Write(warm1, rw_counter + 6, AccessListAccount(tx.id, Sender), 1)
  IN Write(warm2, rw_counter + 7, AccessListAccount(tx.id, to), 1)

tx_transferred(t, to, value, fee) ==
  transfer_with_gas_fee(t, rw_counter + 8, Sender, to, value, fee, 0)

\* A transaction is invalid if the sender cannot pay, or for its nonce or gas.
is_tx_invalid(value, rejected) == rejected \/ state[Balance(Sender)] < value + Gas

\* The receivers of a transaction that creates, and of one that does not.
Receivers(is_create) == IF is_create THEN NewAccounts ELSE Contracts \cup Plain \cup NewAccounts

\* The root call of a valid transaction to a contract, or one that creates one:
\* that looks up no code hash.
BeginTxCall ==
  /\ execution_state = "BeginTx"
  /\ \E is_create \in BOOLEAN :
     \E to \in Receivers(is_create), value \in CallValues :
       LET t0 == tx_prepared(to, FALSE)
           t == tx_transferred(t0, to, value, Gas)
           n == IF is_create THEN 23 ELSE 24
       IN /\ ~is_tx_invalid(value, FALSE)
          /\ is_create \/ HasCode(to)
          /\ state' = t.state
          /\ rows' = t.rows
          /\ frames' = <<Frame(IF is_create THEN "CreationTx" ELSE "BeginTx", to, Sender,
                              FALSE, t0.state, t.pending, BOOLEAN)>>
          /\ tx' = [tx EXCEPT !.invalid = FALSE]
          /\ rw_counter' = rw_counter + n
          /\ lookups' = lookups + n
  /\ execution_state' = "Run"
  /\ reversible_write_counter' = callee_counter
  /\ committed' = state
  /\ UNCHANGED <<withdrawals, is_success>>

\* No call: the transaction is invalid, its receiver has no code, or it creates a
\* contract without init code.  Such a transaction has to persist.
BeginTxPlain ==
  /\ execution_state = "BeginTx"
  /\ \E is_create, rejected \in BOOLEAN :
     \E to \in Receivers(is_create), value \in CallValues :
       LET invalid == is_tx_invalid(value, rejected)
           t == tx_transferred(tx_prepared(to, invalid), to,
                               IF invalid THEN 0 ELSE value, IF invalid THEN 0 ELSE Gas)
           n == IF is_create THEN 10 ELSE 11
       IN /\ invalid \/ is_create \/ ~HasCode(to)
          /\ state' = t.state
          /\ rows' = t.rows
          /\ tx' = [tx EXCEPT !.invalid = invalid, !.persistent = TRUE]
          /\ rw_counter' = rw_counter + n
          /\ lookups' = lookups + n
  /\ execution_state' = "EndTx"
  /\ committed' = state
  /\ UNCHANGED <<frames, reversible_write_counter, withdrawals, is_success>>

Smaller(a, b) == IF a <= b THEN a ELSE b

\* Refund of unused gas, tip of the coinbase, receipts (status and log length are
\* written too, to fields nothing here reads).
EndTx(next, n, rw_delta) ==
  /\ execution_state = "EndTx"
  /\ \E used \in GasUsed :
       LET t == [state |-> state, rows |-> rows, pending |-> {}]
           refund == Smaller(used \div MaxRefundQuotient, state[Refund(tx.id)])
           first == tx.id = 1
           refunded == Write(t, rw_counter + 3, Balance(Sender),
                             state[Balance(Sender)] + (Gas - used) + refund)
           tipped == Write(refunded, rw_counter + 4, Balance(Coinbase),
                           refunded.state[Balance(Coinbase)] + used)
           receipt == Write(tipped, rw_counter + (IF first THEN 7 ELSE 8),
                            CumulativeGasUsed(tx.id),
                            used + IF first THEN 0 ELSE state[CumulativeGasUsed(tx.id - 1)])
       IN /\ tx.invalid => refund = 0
          /\ state' = receipt.state
          /\ rows' = receipt.rows
          /\ lookups' = lookups + n + (IF first THEN 8 ELSE 9)
          /\ rw_counter' = rw_counter + rw_delta - (IF first THEN 1 ELSE 0)
  /\ execution_state' = next
  /\ UNCHANGED <<frames, reversible_write_counter, committed, withdrawals, is_success>>

\* The next transaction's TxId is looked up as well.
EndTxToBeginTx ==
  /\ tx.id < MaxTxs
  /\ EndTx("BeginTx", 1, 10)
  /\ tx' = [tx EXCEPT !.id = @ + 1]

EndTxToEndBlock == EndTx("EndBlock", 0, 9) /\ UNCHANGED tx

\* Faulty: the two lookups of EndBlock itself are left out.
total_rws_without_own == IF rw_counter = 1 THEN 0 ELSE rw_counter - 1

\* What EndBlock takes for the number of rows in use.
total_rws == IF rw_counter = 1 THEN 0 ELSE rw_counter - 1 + 2

\* The withdrawals that pay; those of nothing pad the table.
PaidOut(table) == {i \in DOMAIN table : table[i].amount # 0}
total_withdrawals == Cardinality(PaidOut(withdrawals))

\* The counter of the payment of withdrawal i, the first one's being c.
credit_at(table, c, i) == c + Cardinality({j \in PaidOut(table) : j < i})

\* add_balance for each withdrawal, in the order of the ids, from counter c.
Credited(table, c) ==
  LET Credit[i \in 0 .. Len(table)] ==
        IF i = 0 THEN [state |-> state, rows |-> rows, pending |-> {}]
        ELSE LET t == Credit[i - 1]
                 slot == Balance(table[i].address)
             IN IF i \in PaidOut(table)
                THEN Write(t, credit_at(table, c, i), slot, t.state[slot] + table[i].amount)
                ELSE t
  IN Credit[Len(table)]

\* The last step of an empty block, which has no withdrawals either.
EndEmptyBlock ==
  /\ execution_state = "EndBlock"
  /\ rw_counter = 1
  /\ withdrawals' \in {t \in WithdrawalTables : PaidOut(t) = {}}
  /\ execution_state' = "Done"
  /\ UNCHANGED <<rw_counter, reversible_write_counter, frames, tx, state, committed, rows,
                 lookups, is_success>>

\* The last step looks up the TxId and the cumulative gas, and pays the withdrawals.
EndBlock ==
  /\ execution_state = "EndBlock"
  /\ rw_counter # 1
  /\ state[CumulativeGasUsed(tx.id)] <= BlockGasLimit
  /\ withdrawals' \in WithdrawalTables
  /\ LET t == Credited(withdrawals', rw_counter + 2)
     IN state' = t.state /\ rows' = t.rows
  /\ execution_state' = "Done"
  /\ lookups' = lookups + 2 + Cardinality(PaidOut(withdrawals'))
  /\ UNCHANGED <<rw_counter, reversible_write_counter, frames, tx, committed, is_success>>

-----------------------------------------------------------------------------
Init ==
  /\ execution_state \in {"BeginTx", "EndBlock"}
  /\ rw_counter = 1
  /\ reversible_write_counter = 0
  /\ frames = <<>>
  /\ tx = [id |-> 1, invalid |-> FALSE, persistent |-> FALSE]
  /\ \E v \in Values, h \in {NoAccount, EmptyCode} : state = InitialState(v, h)
  /\ committed = state
  /\ rows = {}
  /\ lookups = 0
  /\ withdrawals = <<>>
  /\ is_success = FALSE

Next ==
  \/ BeginTxCall
  \/ BeginTxPlain
  \/ Sload
  \/ Sstore
  \/ TouchAccount
  \/ CallPlain
  \/ CallContract
  \/ CallPrecompile
  \/ CreatePlain
  \/ CreateContract
  \/ Stop
  \/ Return
  \/ ReturnCode
  \/ Revert
  \/ Error
  \/ PrecompileReturns
  \/ PrecompileFails
  \/ EndTxToBeginTx
  \/ EndTxToEndBlock
  \/ EndEmptyBlock
  \/ EndBlock

Spec == Init /\ [][Next]_vars

-----------------------------------------------------------------------------
(* Properties.                                                             *)

Pending == [off : Nat, slot : Slots, val : Int, prev : Int]
Rows == [rwc : Nat, slot : Slots, val : Int, prev : Int]
Frames ==
  [op : {"BeginTx", "CreationTx"} \cup CallOps \cup CreateOps, id : Nat, addr : Accounts,
   caller : Accounts, static : BOOLEAN, entry : [Slots -> Int], pending : SUBSET Pending,
   base : Nat, saved : Nat, outcomes : (SUBSET BOOLEAN) \ {{}}]

\* Type invariant.
TypeOK ==
  /\ execution_state \in {"BeginTx", "Run", "Precompile", "EndTx", "EndBlock", "Done"}
  /\ rw_counter \in Nat /\ reversible_write_counter \in Nat /\ lookups \in Nat
  /\ frames \in Seq(Frames)
  /\ tx \in [id : TxIds, invalid : BOOLEAN, persistent : BOOLEAN]
  /\ state \in [Slots -> Int] /\ committed \in [Slots -> Int]
  /\ rows \subseteq Rows
  /\ withdrawals \in WithdrawalTables \cup {<<>>}
  /\ is_success \in BOOLEAN

\* No two rows share a counter, the rows that undo a failed call included
\* ("every lookup done in the EVM circuit must succeed and uses a unique
\* rw_counter", end_block.py:171).
UniqueCounters ==
  \A r, q \in rows : r.rwc = q.rwc => r = q

\* The rows looked up are exactly as many as counters were spent, and at the end
\* as many as EndBlock takes for the rows in use, withdrawals included
\* (end_block.py:166-174).
RowsCounted ==
  lookups = IF execution_state = "Done" THEN total_rws + total_withdrawals
            ELSE rw_counter - 1

\* Sorted by counter, the rows of a slot are a history: each row overwrites the
\* value the row before it left, and the last one left what the steps see now.
\* Undoing rows are made from writes that lie many steps and calls before them.
RowsAreHistory ==
  \A r \in rows :
    LET Mine == {q \in rows : q.slot = r.slot}
        Before == {q \in Mine : q.rwc < r.rwc}
    IN /\ \A q \in Before : (\A p \in Before : p.rwc <= q.rwc) => r.prev = q.val
       /\ (\A q \in Mine : q.rwc <= r.rwc) => state[r.slot] = r.val

\* The counter of the current call covers every write that its failure has to
\* undo, its successful callees' included (instruction.py:339-343).
CounterCoversPending ==
  frames # <<>> => \A w \in Top.pending : w.off < reversible_write_counter

\* The refund counter, a sum of credits and debits over all slots of a
\* transaction, some of them undone, is never negative.
RefundNonNegative == \A t \in TxIds : state[Refund(t)] >= 0

Ether(st) == MapThenSumSet(LAMBDA a : st[Balance(a)], Accounts)

\* While a transaction runs, all ether but the gas it has paid for is in the
\* accounts: no nest of calls, transfers and reversions makes or loses any.
EtherConserved == frames # <<>> => Ether(state) = Ether(committed) - Gas

\* A transaction makes no ether: what end_tx adds "back to caller's balance"
\* (specs/virtual_state/end_tx.md:11) was taken from it before.
EtherNotMade ==
  execution_state \in {"EndBlock", "Done"} => Ether(state) <= Ether(committed)

\* Nothing is written to storage, and no ether moves, under a STATICCALL ("does
\* not allow any state modifying instructions (is_static == 1) or sending ether
\* to callee in the sub context", specs/opcode/F1CALL...md:10).
StaticCallsDontWrite ==
  \A i, j \in DOMAIN frames :
    i <= j /\ frames[i].op = "STATICCALL" =>
      \A w \in frames[j].pending : w.slot.tag \in {"Storage", "Balance"} => w.val = w.prev

\* A call that runs may still succeed and may still fail, whatever became of the
\* contracts it created (create.py:45).
OutcomesFree == \A i \in DOMAIN frames : frames[i].outcomes = BOOLEAN

\* The abstract view: a state and a stack of snapshots.
Snapshots == INSTANCE SnapshotEvm WITH snapshots <- [i \in DOMAIN frames |-> frames[i].entry]

\* A failed call, with all its successful callees, leaves no trace in the state,
\* and a successful one leaves all it did.
ImplementsSnapshots == Snapshots!Spec
=============================================================================
