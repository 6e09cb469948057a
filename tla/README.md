# A TLA+ model of the zkEVM specification

`src/` is an executable specification, in Python, of the circuits of a zkEVM.
Each circuit is a set of constraints over a table that an untrusted prover fills
in; the constraints of the different tables meet in lookups. A program that runs
the constraints on an honest table (which is what `tests/` does) says that honest
tables are accepted. It says nothing about the other tables. The models here take
the other side: **the table is nondeterministic, the constraints are the guards,
and the properties say what every accepted table means.** Whatever the code
computes only in order to check it (a quotient, a carry, a sign, a padding
selector) is chosen by the prover, unless the constraints fix it.

Contents: 1 the system; 2 modules; 3 correspondence to the code; 4 runs; 5 bounds;
6 proofs; 7 what is only model-checked, fairness; 8 where code and documentation
disagree; 9 what is not modelled; 10 what could come next.

## 1. The system

| Component (source) | State it keeps | Operations | Meets | Status |
|---|---|---|---|---|
| State circuit (`state_circuit.py`) | rows of the rw table sorted by key and counter; roots of the state trie along them | one set of checks for each of 11 tags, checks between neighbours, wrap-around | MPT table (updates of the trie), rw table (EVM and copy circuits) | modelled, proved |
| EVM circuit, calls (`evm_circuit/`: `instruction.py`, `callop.py`, `create.py`, `return_revert.py`, `stop.py`, error states) | `rw_counter`, `reversible_write_counter`, call context, kind of the next step | a call of four kinds, CREATE and CREATE2, return, revert, stop, error, precompile; reversible writes | rw table, by counter | modelled, proved in part |
| EVM circuit, steps of a call (`jump.py`, `push.py`, `memory.py`, `blockhash.py`, context opcodes, error conditions, `opcode.py`) | program counter, stack pointer, gas, memory size | one step for each execution state | bytecode, fixed and rw tables | modelled, proved in part; gas of storage, copies, logs and calls left out |
| EVM circuit, transactions and block (`begin_tx.py`, `end_tx.py`, `end_block.py`) | transaction id, nonce, balances, refund, receipts, number of rows | begin, end, end of block with withdrawals, creation by a transaction | tx table, rw table, withdrawal table | partly (intrinsic gas and nonce are inputs) |
| EVM circuit, storage and account opcodes | storage, warm lists, refund | SLOAD, SSTORE, BALANCE, EXTCODE* | rw table | partly (gas) |
| EVM circuit, word arithmetic (`add_sub.py` ... `sar.py`) | the stack | 24 opcodes over words of four limbs | fixed tables (bytes, powers of two) | modelled |
| EVM circuit, copies (`calldatacopy.py`, `codecopy.py`, `returndatacopy.py`, `log.py`, `sha3.py`, `return_revert.py`, `dataCopy.py`) | memories, return data, logs | copy between call data, code, memory, logs, hashes | copy table | partly (no copy to bytecode), proved |
| Copy circuit (`copy_circuit.py`) | alternating read and write steps of a copy, its running sums | first, next and last step | rw, tx and bytecode tables | modelled, proved |
| Bytecode circuit (`bytecode_circuit.py`) | headers and bytes of codes; push data left | header, byte, last row | keccak table, push table | modelled, proved |
| Exponentiation circuit (`exp_circuit.py`) | the squarings of a power | step, last step, no step | EXP | modelled, proved |
| Public input circuit (`pi_circuit.py`) | call data rows of the transaction table, rows of the withdrawal table | row after row, first and last rows, fields of the transactions | public bytes, tx and withdrawal tables | partly (call data and withdrawals), proved |
| Withdrawal circuit (`withdrawal_circuit.py`) | the chain of roots over the withdrawals | row after row, last root | keccak table, MPT table, withdrawal table | modelled, proved |
| Lookup tables (`table.py`, `tables.py`) | rows | membership | everything | the rw table as counters and rows, others as inputs |
| Transaction circuit (`tx_circuit.py`) | | | | not modelled: one equality per field of a transaction between the table, its RLP encoding and a signed hash; no state and no order |
| Signature and ECC circuits, cryptographic precompiles | | | | not modelled: elliptic curves over 256-bit fields |

### How they interact

A step of the EVM circuit looks up a number of rows of the rw table, each at the
next `rw_counter`. A write that can be undone looks up a second row, which undoes
it, at a counter the error state of the failed call leaves free (REVERT leaves none: section 3). A copy is looked up once
in the copy table, whose rows look up the bytes at the counters the step skipped.
The state circuit sees the same rows in another order, by key, and that
order is what makes a read return the last write; it hands each key's last value
to the state trie. What no circuit says alone is the conjunction: counters are
unique (EVM circuit), hence the sort by key and counter is a history (state
circuit), hence reads are right, hence steps compute what the EVM computes.

The public input circuit fills the transaction and withdrawal tables from public
bytes. The EVM circuit charges call data and pays withdrawals from them; the
withdrawal circuit ties the same withdrawal rows to a root in the block's header.

### Which behaviours are hard

* *Order.* Rows are only compared with their neighbours. That a key's rows lie
  together, that a read sees the write before it, that a byte belongs to the hash
  in the last row of a code, a product to the exponent in the first row of a
  trace, or a byte of call data to a transaction, follows only along a whole table.
* *Reversion.* Calls end in any order of success and failure, nested; a write is
  undone at a counter computed from the sizes of everything that came after it.
  Every opcode states by hand how many counters it takes and how many reversible
  writes it makes.
* *Edges of numbers.* Keys packed into one number, carries of a product, signs at
  the least word, shifts by a multiple of the limb, the first byte of padding, a
  count that must be 1 on a last row, offsets that pass one range check and fail
  the next.
* *The last row*, where half of the checks do not apply, and the row after it,
  which is the first.
* *What can be proved at all.* Constraints can be too strong as well as too weak: a legal
  call, or a legal block, for which no witness exists. Nothing in the code waits
  or retries, there is no clock, no message and no crash; what must eventually
  happen is that an honest prover gets to the end (section 7).

## 2. Modules

| Module | What it is |
|---|---|
| `StateCircuit` | the table, laid down row by row; properties of accepted tables |
| `StateReplay` | the closed table replayed in counter order, which is what the EVM circuit sees |
| `RwMemory` | abstract: a memory with atomic reads and writes; `StateReplay` implements it |
| `MCStateCircuit` | shapes of tables for TLC |
| `StateCircuitProofs` | proofs about `StateCircuit`, and that `StateReplay` implements `RwMemory` |
| `EvmCircuit` | calls, creation, reversion, transactions and the block |
| `SnapshotEvm` | abstract: a call remembers the state and puts it back if it fails; `EvmCircuit` implements it |
| `MCEvmCircuit` | accounts and opcodes for TLC |
| `EvmCircuitProofs` | proofs about `EvmCircuit`: counters, histories, the refinement of `SnapshotEvm`, what the accounts hold and how many rows are looked up |
| `Opcodes` | the bytes of the opcodes, shared by the next two |
| `CallSteps` | the steps within one call: program counter, stack pointer, gas, memory size, error states |
| `CallMachine` | abstract: the same in the EVM; `CallSteps` implements it, but for gaps that are named |
| `MCCallSteps`, `CallStepsProofs` | programs for TLC; proofs about `CallSteps` |
| `BytecodeCircuit`, `MCBytecodeCircuit`, `BytecodeCircuitProofs` | the bytecode table, its instance, its proofs |
| `ExpCircuit`, `MCExpCircuit`, `ExpCircuitProofs` | the exponentiation table, from its last row up, its instance, its proofs |
| `CopyCircuit` | the constraints of one step of a copy, as operators |
| `CopyOpcodes`, `MCCopyOpcodes`, `CopyOpcodesProofs` | a caller and a callee whose steps look copies up, each copy laid by the constraints of `CopyCircuit`; their instance and their proofs |
| `WordOpcodes`, `MCWordOpcodes`, `WordOpcodesProofs` | the opcodes on words: what each accepts as its result; their instance and their proofs |
| `WordMachine` | abstract: a stack machine with the functions of the yellow paper; `WordOpcodes` implements it |
| `PublicInputs`, `MCPublicInputs` | the call data rows of the transaction table |
| `TxCalldata` | abstract: bytes dealt out in order and charged for; `PublicInputs` implements it |
| `PublicInputsProofs` | proofs about `PublicInputs`, the refinement included, and about `Withdrawals` |
| `Withdrawals`, `MCWithdrawals` | the withdrawal table between two circuits, its instance |

`StateReplay` composes the state circuit with the order of the EVM circuit,
`CopyOpcodes` the copy circuit with the steps that use it, `Withdrawals` the
withdrawal circuit with the part of the public input circuit that goes over the same rows.

## 3. Correspondence to the code

**State circuit.** `rows` is the table, a row being the fields `check_state_row`
reads; address limbs and storage-key bytes are the numbers they decompose. There
is one `Append<Tag>` action for each `check_<tag>` function; each takes any row
for which the function's checks, those of `check_state_row` before the dispatch,
and the order check (0.4) hold between it and the row before. `CloseTable` adds the checks
of the rows that need a successor and those around the cycle. An MPT proof
is what it proves: a root is the trie it commits to, `SlotMod` an update of one
slot, `NonExistingAccountProof` the absence of an account.

**Calls.** `rw_counter`, `reversible_write_counter` and `execution_state` are those
of the step. A frame is a call context. The circuit guesses
`rw_counter_end_of_reversion` and `is_persistent` when a call begins and checks the
guess nowhere (section 8); the model knows both when the call ends: until then a frame
keeps its reversible writes with their distance from that end (`pending`). One
action per step kind: `BeginTxCall`, `BeginTxPlain`, `Sload`, `Sstore`,
`TouchAccount` (BALANCE, EXTCODESIZE, EXTCODEHASH, EXTCODECOPY), `CallPlain`,
`CallContract`, `CallPrecompile`, `CreatePlain`, `CreateContract`, `Stop`, `Return`,
`ReturnCode`, `Revert`, `Error`, `PrecompileReturns`, `PrecompileFails`, `EndTxToBeginTx`,
`EndTxToEndBlock`, `EndEmptyBlock`, `EndBlock`. Deltas of counters are those of each file; `lookups`
counts the rows that are looked up, which is not always the same.

*REVERT* is the step RETURN: there is no other execution state for it (`execution/__init__.py:139`), and the flags that are to
tell the two apart are field elements whose truth value Python takes to be true (`return_revert.py:30`, `:108`). So `Revert` makes the
transition of `Return`: it leaves no counters for the rows that undo the call, hands the counter of the callee to the
caller (`restored_counter(TRUE)`, as RETURN halts in success), and leaves the code of a creation. The undoing rows then share
their counters with the steps that follow, and whether a step sees such a row done or not is up to the
order of the two: `EndOfCall` lets any subset of them be done. The constant `RevertsWrites` says whether calls with writes to undo may
end so. Where it is FALSE, as in all passing runs and in the theorems' hypothesis, REVERT ends the calls that have nothing to undo.

*Creation.* A new account is one whose code hash is a slot: absent, empty, or the code that RETURN leaves.
A frame's `caller` is CallerAddress, which CREATE takes for the creator. As CREATE reads IsSuccess of
its own call for that of the new one, a frame keeps the values its IsSuccess may
still have (`outcomes`), and the end of a creation leaves one. A guard of the code that
compares the nonce of the creator with the nonce after is an honest prover's
increment. The end of reversion of a creation, on which the code has no constraint, is tied
to the caller's as the tests do it for calls.

*The end of a block.* `withdrawals` is the table the last step reads; each withdrawal of an amount
(`PaidOut`) is one more row, at the counter `credit_at`, and padding is none. `RowsCounted` compares the sum with what
EndBlock takes for the rows in use.

**Steps of a call.** Each execution state is an action, whose guards are its constraints, and which one
is taken is the prover's choice; two states may apply to one step, and none. A
word is a number below `WordModulus`, and the numbers that fit in 4, 5, 8, 16 and 31 bytes
are constants in the same order. Memory is its size only, since MLOAD compares
nothing with its bytes. `ImplementsEvm` maps each step to a step of `CallMachine` or one of six
named gaps: `MemoryTooLarge`, `OldestHashMissing`, `JumpIsLost`, `AnyGasAfter`,
`ReturnedForOther`, `AnythingReverts`. `CallsEnd` says that a call can be proved to its end unless it comes to
one of five named places: `NoState`, `Overcharged`, `EndBetween`, `NumberTooLarge`, `DestinationTooLarge`. Each
of the eleven is something the code really does, and a finding (section 8).

**Bytecode.** One action each for a first row, a header, a byte, a row of any other tag and the last row. No constraint restricts the
tag, and a row that is neither `Header` nor `Byte` is not looked at (`AppendOther`); a byte after it starts from any index, push count,
hash and length, and from an accumulator that comes to whatever the keccak lookup wants (`Unknown`, `Free`).
The hash of a code is the code, as a keccak lookup is true of exactly that; the table of
push sizes is a constant.

**Exponentiation.** The table is built from the last step of a trace upwards, the
direction in which the values are determined; words are numbers modulo a small power of two.

**Copies.** `Begin` makes the lookups of a step (`todo`), `FirstStep` and `NextStep`
lay the rows of a copy with `is_padding`, `value`, `rw_counter` and `rwc_inc_left`
free, the constraints of `verify_row` and `verify_step` being their guards, and `End...` ends
the step with its transition. A copy whose guesses do not fit cannot end, and stops.
`before` is memory before the step, `called` the caller's before it called the identity precompile: the
CALL step itself copies the callee's memory, still zero, over the caller's return range (`callop.py:240`), so that what the
precompile should return is a matter of `called`.

**Words.** `Pushes(op, a)` is the set of words that some witness lets the step push.
The stack is modelled as cells below a stack pointer, as in the code, so that a wrong
delta of the pointer is visible. A word has four limbs and as many values in a byte as
bits in the word; both are scaled down together, so that 256 is at once the values of
a byte and the bits of a word, as in the code.

**Public inputs.** `public` is what the public bytes say: the values of the call data rows, and length and
cost of each transaction. `FirstRow` and `AppendRow` lay the rows whose other columns
the prover chooses; `RowsAfter` lists the only indices and costs that can pass, for each id of `Ids`: the transactions of the block and
`Strangers`, ids of no transaction, those just below the field's modulus written as negative numbers. `Accept` is
the checks of the transactions' rows. The row after the section belongs to another part
of the table and may hold anything.

**Withdrawals.** `LayRow` is a row of the public input circuit, `VerifyRow` one turn of the loop of the
withdrawal circuit, at its own pace behind it, `AcceptBlock` the comparison of the last root. Hashes and roots
are the prover's; the keccak table and the trie bind them.

## 4. Runs

| Run | Checks | Shows |
|---|---|---|
| `StateTables` | `TypeOK`, `GroupedByKey`, `ReadsLatest`, `StackDiscipline`, `ReceiptsNumbered`, `FinalTrie`, `CommittedValue`, `ImplementsMemory` | an accepted table is a memory: rows of a key lie together and in order, reads return the latest write, stacks and receipts have no gap, the trie at the end holds the last values and each committed value is that before the transaction; replayed by counter, the rows are a run of `RwMemory` |
| `EvmReversion` | `UniqueCounters`, `RowsAreHistory`, `RefundNonNegative`, `ImplementsSnapshots` | for calls up to three deep that succeed, or fail in an error state, or revert with nothing to undo: undoing rows find free counters, make a history together with the rows they undo, and restore the state the call began with; withdrawals paid at the end have counters of their own and continue the history |
| `EvmBlock` | `TypeOK`, `RowsCounted` | over two transactions and the withdrawals, counters spent are rows looked up, and EndBlock subtracts as many as are in use; calls stop, return or fail in an error state |
| `EvmRevertCounts` | `RowsCounted`, violated | the same blocks with calls that revert what they wrote: the undoing rows have no counters of their own, and the table has more rows than counters were spent |
| `EvmOpcodes` | `EtherConserved` | all call opcodes, creations and precompiles: nested transfers and their reversions by error states neither make nor lose ether |
| `Calls` | `TypeOK`, `GasSpent`, `ImplementsEvm`, `CallsEnd` | each step within a call is the EVM's, with its program counter, stack, gas and memory size, but for six named gaps; steps spend gas; every call can be proved to its end but for five named cases |
| `Bytecode` | `TypeOK`, `BytesOfCodes`, `OpcodesMarked`, `CodesComplete` | between two headers with only bytes between them, the bytes are those of the code of the hash, all of them, and `is_code` is right, whatever rows of other tags the table has elsewhere |
| `Exp` | `TypeOK`, `ExactTracesGiveThePower`, `OddBasesGiveThePower` | a trace proves a power if its quotients are halves, or its base is odd |
| `Copy` | `TypeOK`, `MemoryCopied`, `DataLoggedAndHashed`, `CountersSpent`, `IdentityReturnsInput` | whatever the prover fills into a copy, memory, logs and hashes are those of the EVM, padding included, and the step moves on by the counters spent; the identity precompile returns an input that its output does not overlap |
| `Words` | `TypeOK`, `ResultsAccepted`, `ImplementsEvm` | 20 opcodes accept the EVM's word and no other: soundness by refinement, completeness by `ResultsAccepted` and the absence of deadlock |
| `PublicInputs` | `TypeOK`, `LeadingCalldata`, `BuilderPasses`, `DealsCalldata` | the public bytes are dealt out in order of ids, once each, and charged to the transaction that can look them up; transactions find their own bytes up to the first without any, if the section does not begin with a stranger's; the builder's own table passes |
| `Withdrawals` | `RootOfWithdrawals`, `FullBlocksAccepted` | an accepted block has the root of exactly the public withdrawals; every full block that counts from 0 is accepted in the end |

The runs that check `TypeOK`, an invariant and a refinement together are one state
space each; several tables, opcodes, machines and programs share a run through a constant
(`Shapes`, `Opcodes`, `Machines`, the programs of `MCCallSteps`).

`CHECK_DEADLOCK FALSE` in all runs but `Words`: a closed table, a finished block or call and a
copy with a wrong guess have no next step, and need none. Where getting stuck would be
wrong it is a property of its own (`CallsEnd`, `FullBlocksAccepted`).

## 5. Bounds

* `StateTables`: `Shapes` gives the keys, counters and length of each of five kinds
  of table, up to five rows besides none, counters 1 to 3, values 0 and 1. Every
  check is between neighbours or between a row and its key, so that three rows of a key (first, middle, last), a
  key before and one after show each combination; two keys of one slot show transactions. The
  bases of the packing are small but keep the shape of the code's: the storage key
  is shifted by 2 (of 32) and may be wider (3), as in the code (256). `tries` says whether the table
  may start from any trie or the empty one.
* `EvmCircuit`: `MaxDepth` frames, `MaxTxs` transactions, `MaxWrites` write rows
  after which only halting steps are taken. A grandchild that fails, in a child
  that succeeds, in a root that fails, each with writes before and after, is
  within them; `CallDepthLimit = 3` in `EvmReversion` makes the depth check bite.
  Gas is an amount per transaction (`Gas`, `GasUsed`), as the refund quotient and the fee need it; a
  `BlockGasLimit` of 15 makes the limit bite in `EvmBlock`. In both the withdrawal table is empty or has two payments
  to one account around one of nothing. `EvmOpcodes` has one address to create at, two frames, nine writes.
* `Calls`: words of 16 bits (`WordModulus` 65536), with the bounds of the range checks
  scaled down in their order (`MaxWords` 15 for the words that fit in 4 bytes of memory size, `MaxAddress` 4095
  for 5 bytes, `MaxU64` 8191, `MaxLow` 16383 for 16 bytes, `MaxOffset` 32767 for 31 bytes, `TwoBytes` 256), a stack of 3,
  `Recent` 3 instead of 256 blocks and gas limits from 0 to 40. The programs are families: each of
  the 256 bytes alone and on a full stack, memory and return opcodes with operands
  on either side of every bound, jumps to each byte of a code with push data, memory that grows twice.
* `Bytecode`: `MaxHeight` 5 rows, codes of up to `MaxLength` 3 bytes, so that a table
  holds a code of three bytes, or two codes of one, or a code with rows of another tag before, after or within it, and a push
  lacks data at the end. Hashes are of five codes, two of which differ by a leading zero only. What the prover
  may claim for a length, an index or a count of push data that nothing ties down is the right number or the next (`Claims`).
* `Exp`: `Modulus` 8, `MaxEnds` 1 last step, `MaxHeight` 5 rows: exponents to 7, with a
  unit and two zero divisors as bases.
* `Copy`: `MaxAddr` 3, copies of up to `MaxLength` 2 bytes, so that copies are read wholly,
  partly and not at all within their source, memory `Ranges` at both ends and between, so that
  what a call returns may overlap its input or lie before it; `Randomness`
  2 makes different strings of two bits different numbers.
* `Words`: `Machines` are words of 4 bits with all operands (`depth` 2), of 4 bits with
  three operands and a word below, and of 16 bits in limbs of 4 for the opcodes that
  split limbs or pick bytes, with shifts around the limb, the word and the byte.
* `PublicInputs`: three transactions, and one id below and one above theirs (p - 1, written -1, from where the 16 bits of the difference lead to any of
  them, and 4), so that one without call data may be first,
  between or last, a section of five bytes, call data of none, one or two bytes, and costs that
  are right or 12 too high (`Misstated`), the 16 of a non-zero byte stated for the 4 of a zero one.
* `Withdrawals`: blocks of up to three rows, ids from 0 or 1, two recipients, amounts 0 and 1.

## 6. Proofs

All proofs are checked by `tlapm`; nothing is assumed but the constants' assumptions.

**`StateCircuitProofs`.** `TypeCorrect` and, through the inductive invariant

    IInv == TypeOK /\ Checked /\ SortedRuns /\ StartsFirst /\ Wrapped

the properties `GroupedByKey` (`Grouped`), `ReadsLatest` (`ReadConsistency`), `StackDiscipline` (`StackWritten`),
`FinalTrie` (`TrieUpdated`), `CommittedValue` (`CommittedIsEarlier`),
`ClosedHasStart` (`StartNeeded`) and `ReceiptsNumbered` (`ReceiptNumbers`), and the refinement of `RwMemory` (`ReplayIsMemory`). `GroupedByKey` is not
inductive: it says nothing of rows that are yet to come. `SortedRuns` says that the
packed numbers increase from row to row after the last Start row; a key that came back would be packed
into a number below and above another's. `ReadConsistency` needs grouping and the
checks that each row keeps with its predecessor (`Checked`). Two hypotheses stand in the
theorems and not in the code: `NoCollision` (no two keys in use are packed into the same number) and
`~StartInside` (no Start row after other rows). Both are necessary: without the first
`ReadsLatest` is violated (section 8), and without the second TLC finds a key in two places.
`WideShiftIsInjective` shows that `NoCollision` holds for all keys if the storage key is below its shift,
which is the fix.

* *Stacks* do not need `NoCollision`: their rows have no storage key, and a pointer and a call id that fit in their
  limbs, which is all the order of the leading parts needs (`LeadingPartsOrdered`, `StacksSorted`). A position left out
  between two others would have to be passed by two neighbours, one position apart at most (`StackFilled`).
* *Trie.* Each row looks up one update, from its root to that of the next row, and rows of one key ask the same
  (`LookupsMade`, whose last lookup is made when the table closes). Along the table a slot keeps its value until its next row
  (`RootsFollow`, `RootsHeld`), so that the last root has the last values. Which rows of a slot are
  of an earlier transaction is a matter of the order, and needs `NoCollision`.
* *Replay.* `InOrder`: what is replayed comes before what is not. `HoldsLatest`: a cell holds what the latest row of it
  that is replayed says, be it a read or a write. The latest row in time is the one before in the table, which is `ReadsLatest`.

**`EvmCircuitProofs`.** For calls of any depth, any number of transactions, any storage, values
and gas: `CountersUnique` (`UniqueCounters`), `RowsAreAHistory` (`RowsAreHistory`), `CounterCovers` (`CounterCoversPending`, which no run checks by itself) and
`RestoresSnapshots`, that `EvmCircuit` implements `SnapshotEvm`, all under the hypothesis `Counted` below. The invariant is

    IInv == Types /\ Placed(rows, rw_counter) /\ History(rows, state) /\ FramesInv

`Placed`: rows have counters of their own, below the next. `History`: each row of a slot finds what the one before
it left, and the last left what the slot has. `FramesInv`, for each call in
progress: its pending writes lie at distances of their own below its
counter (`Covered`), and undoing them leads back from the state the call left, which for a
call that waits is the one its callee began with, to the state it began with itself
(`Undoes`: a slot without a pending write has its value, and the earliest write of another found it there); each of
them found what the one before it left (`Chained`), without which the rows that undo them would be no history. None of the
properties is inductive alone: where undoing rows go is decided calls before they are made. The argument has three
lemmas about ends: `UndoPlaced` (undoing rows take free counters), `UndoRestores` (they put
back the entry) and `HandedOver` (the pending writes of a call and those of its successful callee, moved by
the distance between their ends, undo both). The rest shows that each step's writes lie at the counters and
distances its transition says. The hypothesis of the theorems, `Counted`, leaves out what
breaks them in the code (section 8): BALANCE, EXTCODEHASH, EXTCODECOPY, precompiles, creations, and REVERT of calls that have writes to undo (`~RevertsWrites`),
so that what is undone is undone by error states. A REVERT of a call that wrote nothing is in; that it hands on the counter of the callee, which
no pending write needs, does no harm (`Covered` is a bound from above). Withdrawals are in: they are paid when no
call is left, and `CreditedClean` shows, along the table, that the payment of each takes the counter after the one before it
(`CreditAt`) and finds the balance it left, so that rows end below `RowsEnd`, which the last step moves up by what it pays.

The second half of the module is about the accounts. Under the same hypothesis, and for any finite set of accounts (a sum over them is part of the property):

* `RefundCovered` (`RefundNonNegative`) and `EtherKept` (`EtherConserved`) follow from `Accounting`: not only the present state but also every
  state a call in progress began with has a refund of at least the credit of the storage that is cleared
  in it, and all the ether there was but for the gas paid. The saved states are needed because a failed call brings them back;
  that it brings back exactly these is `CallsUndoable`. An SSTORE changes the refund by the difference of two credits
  (`storage.py:144-176`, the eight cases of which are compared one by one); a transfer moves one amount between two terms of the sum, or none if the account pays itself.
* `RowsAreCounted` (`RowsCounted`): counters spent are rows looked up. For that distances have no gaps either (`Filled`: a failing call
  undoes as many writes as it skips counters). It holds of CALLs that pass their checks, in
  behaviours without a step `CheckFails`; the other kinds of calls, and those whose checks fail, count a transfer they
  do not make (section 8), and the property is violated by them.
* `TypesHold` (`TypeOK`).

**`CallStepsProofs`.** `StepsInRange`: program counter, stack pointer, gas and memory size stay in the ranges the next
step's checks rely on; `InRange` is inductive as it stands. `StepsSpendGas`: a step
that stays in its call leaves less gas (`GasSpent`), so that calls are finite for
every code. It rests on memory that never shrinks, and on the constant gas of every
opcode that has a state. `TypesHold` (`TypeOK`): every step is at
an instruction or past the end of the code, never in the data of a push, and every cell
of the stack is a word. A push goes behind its data (`BehindPush`, by induction on the
bytes of the data; that `push_data_left` is defined at every byte is `GoesOn`), and a
jump lands on a byte of the code. The strengthening (`Typed`) is gas below `WordModulus`,
since GAS pushes it; the hypothesis `WordsFit` says what is pushed fits in a word: words
have 32 bytes or more, and gas limits, memory in bytes, code lengths and hashes are words.
In the instance TLC checks, words have two bytes, and longer pushes have only the 0s past the end of the code.

`StepsAreTheEvms` is the refinement (`ImplementsEvm`): every step is one of `CallMachine` or one of the six gaps. There
is a lemma for each action (`pushImplements`, `error_stackImplements`, ...), on three others: the bytes
that are code by the count of push data are those the machine finds by walking from
instruction to instruction (`CodeIsStarts`, induction over the code); the cells from the stack pointer on are a sequence
that a step takes words from and puts one on (`StackPopped`, `StackPushed`); and the bounds of the
stack and the constant gas of every opcode of the table are those of the machine, which says how many words an opcode pops
and pushes instead (`StackPointersAre`, `StaticCostIs`). A step that stays in the call is then the machine's if it goes on where
the machine does and has at least the memory the machine needs (`Executes`); one into an error state is if the machine
fails (`FailingImplements`). The hypothesis `GasFits`, that no gas limit pays for memory that ends past
64 bits, is what ErrorGasUintOverflow rests on, which compares no gas; gas has 64 bits, and such memory costs over 2^109.
That nothing of the six gaps can be left out is shown by TLC only: each is a violation of `ImplementsEvm` without it (section 8).

**`BytecodeCircuitProofs`.** `Inductive` proves

    IInv == TypeOK
            /\ each row but the last is checked, and its push count does not wrap   (RowChecked, LeftCounted)
            /\ a header with bytes only after it: each has index, hash, length and accumulator of the run   (Laid, PushCounted)
            /\ two headers with bytes only between them: the code is known   (CodeKnown)

A byte's relation to the code itself is not invariant before the code ends, because the hash is only looked up there; the lemma
`EndOfCode` carries it back over all bytes of the run. A row of another tag ends a run and begins none, so that nothing is claimed of the bytes
behind it. The theorems `TypeCorrect`, `BytesAreOfCodes`, `OpcodesAreMarked` and
`CodesAreComplete` follow for every set of codes, code length and table length, under
`ConstantsAssumption` (codes are sequences of bytes, push sizes natural numbers).

**`ExpCircuitProofs`.** `TypeCorrect`, `ExactTraces` (`ExactTracesGiveThePower`, for every modulus) and `OddTraces`
(`OddBasesGiveThePower`, for every modulus that is a power of 2, as that of the words of the code is 2^256). The invariant,
`TypeOK` and the checks between neighbours, is simple; the work is in the powers. `PowersExist` shows that the recursive definition of a power
defines it, `PowerAdd` that exponents add up, and from there a trace gives the power of its base row by row from its last
(`TraceGives`). The overflow the code drops makes an exponent wrong by the modulus, and `OddPeriod`
says that this does not matter to an odd base: its powers repeat with the modulus, by squaring as often as the modulus is halved.

**`CopyOpcodesProofs`.** For all call data, codes, memories, ranges and lengths: `BytesCopied` (`MemoryCopied`), `BytesRead`
(`DataLoggedAndHashed`), `EveryCounterSpent` (`CountersSpent`), `IdentityIsIdentity` (`IdentityReturnsInput`) and `TypesHold`
(`TypeOK`). The properties are about a step that is done; the invariant is about one that is half laid:

    Inv == TypeOK /\ Bound /\ Queued /\ Counted /\ Remembered /\ Arrived /\ Spent /\ Kept

`Bound`: the operands of the step lie in memory, and the call that can make it does. `Queued`: the lookups not answered yet are
copies within memory. `Counted`: the row laid last is at its own position of the first of them (`At`), the counters looked up so far have no gap, and
what is left in `rwc_inc_left` leads to the end of the copy. `Arrived`: the bytes up to that position are in memory, in the log or
in the sum, and everything else is as it was before the step (`Remembered`: of that memory, the type). `Spent`: the two copies of
the identity take two counters for each byte, which is what DATACOPY moves on by whatever its copies say. A byte that is read is that of the memory *before*
the step only if no byte written so far lies on it; CALL and RETURN lay their source in another call's
memory, and what the identity returns begins at 0, hence never behind the byte it is read from (`Ahead`).
SHA3's sum is that of the string as the bytes before the row are (`AccsUpTo`): `RLC` is defined
recursively, and that the definition defines it is a lemma. `Kept` is about the caller's memory since it called the identity precompile (`called`): an input that lies behind the
room of the output is still what it was, whatever of the CALL's own copy and of the first copy of the precompile is laid (`Outside`, `Into`), and so is
everything behind that room. The constants' assumptions are that bytes are natural numbers
with 0 among them (padding), that call data and code are strings of bytes, that ranges lie in memory, and that `Ranges` has with each
the one of its length at 0. Three hypotheses are in the properties and not in the code (section 8): RETURNDATACOPY has the
offset 0, the identity's return range begins at 0 and is as long as its input (`PlainIdentity`), and for
`IdentityReturnsInput` the input lies behind it; `AnyInputReturned`, without the last one, does not hold.

**`PublicInputsProofs`.** `TypeCorrect` and `DealsOutCalldata`, that every table the public input circuit
builds is a run of `TxCalldata`, through

    IInv == TypeOK /\ Ordered /\ HasLast /\ FinalsAreLast /\ Complete

Rows of a transaction lie together in increasing order (`Ordered`), a transaction that
has rows has a last one (`HasLast`), a row that is final is the last of its transaction (`FinalsAreLast`), and an accepted table is
full (`Complete`). What a transaction is charged is known at its final row only, which is
why the abstract variable for it is a function of the rows.

`FirstCalldataIsOwn` (`LeadingCalldata`) and `BuiltTablesPass` (`BuilderPasses`) are about sums. With

    PricedInv == IInv /\ OfData /\ Priced /\ Looking

each row has the public byte of its place, its index says at which byte its transaction begins in the table, and its running
cost is the difference of two sums over the public bytes (`CostTo`, up to the row and up to that first byte). These sums
increase with every byte (`CostIncreases`), so that a transaction which is said to pay for its own call data and
begins where it should ends where it should; induction over the transactions does the rest (`OwnNext`). It begins at transaction 1, which
has the first row only if no stranger comes before it (the hypothesis of `LeadingCalldata`), and stops at a transaction
without call data, as the property does: none of its rows is looked up. `OfData` says that the public bytes are those of some call data laid
end to end (`CalldataHasEnds`). The model adds up costs as the set-folds of the community modules do, byte by byte in an
order of their own choosing: that the order does not matter is a lemma (`AnyTakenOut`), as is where a concatenation has the elements of
its parts (`Flattened`). `BuiltTablesPass` has the hypothesis `MaxTxs <= U16Max + 2`: in a longer block two neighbours can be further apart than
the 16 bits of the fixed table.

`RootIsOfWithdrawals` is about the other table the circuit fills (`Withdrawals`, whose names are not those of `PublicInputs`, so that one module extends both): an accepted block has the root of exactly the
withdrawals in its public bytes. The invariant ties the rows laid to the public bytes and the roots verified to
the trie of so many first rows; the circuits meet in the last one.

**`WordOpcodesProofs`.** For every number of bits in a limb that makes a word whole bytes, every depth of the stack and all operands:
`WordsAreTheEvms` and `CheckedStepsAreTheEvms` (`ImplementsEvm`: `WordOpcodes` implements `WordMachine`), `HonestResultsPass` (`ResultsAccepted`) and
`TypesHold` (`TypeOK`). State is little here (the cells of the stack are words); what has to
be shown is arithmetic, one lemma an opcode:

    OpcodesExact == the set Pushes(op, a) of words some witness satisfies is { Evm!Result(op, a) }

Both inclusions matter, the first for the refinement (soundness of the constraints), the second for `ResultsAccepted`
(completeness). The lemmas they rest on, in order:

* powers and words: the recursive `Power` is defined and adds exponents; a word is its halves, its four limbs and its
  bytes, with division by a product taken in two steps (`WordMachine` and `WordOpcodes` write powers with `Power`, as the prover has no laws of `^`);
* `mul_add_words`: the limb products that add up to the low half and the high half, with carries that always fit the limb
  and one more byte the code looks up, say `a * b + c = d + overflow * Modulus`, the overflow being 0 exactly if the
  product fits; from it MUL, DIV, MOD, the shifts (a shift is a product or a quotient by an entry of the table of powers),
  and, with twice as many limbs, ADDMOD;
* quotient and remainder are unique, so that a witness of DIV, MOD and SHR is no choice;
* comparisons by halves, and signed ones by the top byte;
* SAR: a limb split at a power of two, and the parts put together in each of the five ways, are the division of the whole word by that power,
  rounded down, sign bits included;
* bitwise opcodes: the bits of a byte are the bits of the word at its places, and a word is the sum of its bits (`MapThenSumSet`, whose
  order of summation is again shown not to matter).

The hypothesis `OnlyExact` of `WordsAreTheEvms` is that no machine has SDIV, SMOD, MULMOD or SIGNEXTEND: for these the code accepts words
the EVM does not push (section 8), and `ImplementsEvm` is false of them. `CheckedStepsAreTheEvms` lets SDIV, SMOD and MULMOD in and
says which words they decide (`Checked`, a condition on each step of `CheckedNext`):

* SDIV: the divisor is not 0, and the dividend is not the least word or the divisor is 1 or -1 (`DividesExactly`);
* SMOD: the divisor is not 0, and the dividend is 0 or its absolute value is at least that of the divisor (`RemainsExactly`);
* MULMOD of `a`, `b` and `n`: `n` divides `Modulus * b` (so it does if it is a power of two), or `n` is 0 and `a * b` is 0 or does not fit in a word
  (`MultipliesExactly`).

The argument: the product check on absolute values makes |quotient| and |remainder| those of the division of |dividend| by |divisor|
(`TruncatedIs`), and the two conditional checks of signs leave one word for each (`SignedDecided`). MULMOD reduces `a` to a remainder of `a + j * Modulus`,
`j` being the overflow it drops (`MulmodSays`); the product with `b` is right modulo `n` for every `j` exactly if `n` divides `Modulus * b`.
An enumeration of all operands of four bits, outside the runs, shows the three conditions to be the exact boundary: for all others the opcode may
push another word too. That they suffice is proved.

`HonestResultsPass` holds for every opcode but SIGNEXTEND (`NoSignextend`), the wrong ones included: the quotient and remainder of the EVM
satisfy the checks of SDIV and SMOD (`SignedHonest`), and a product may be reduced before it is taken (`MulmodHonest`).
SIGNEXTEND looks up a sign byte chosen by the low byte of the index alone, and fails for an index of several
bytes whose low byte selects a negative byte (`HasSignByte`); for all other words it accepts the result (`SignextendHonest`).

## 7. What is only model-checked; fairness

Every invariant, action property and refinement a passing run checks is stated by a theorem. What is left to TLC is liveness and
everything with `ENABLED`, which are beyond the prover. So are the induction theorems of its library, which
take a predicate; where a proof needs induction (powers, sums over accounts, the rows of a table) it takes the least
element of a set that is well-founded (`Least`, `Induct`, from `NatLessThanWellFounded` and `WFMin`). No module has a recursive operator.

Nothing in the circuits waits, so fairness is that of an honest prover. In `Withdrawals` `LayRow`, `VerifyRow` and
`AcceptBlock` are weakly fair: `verify_circuit` of either circuit loops over all rows of its witness, and
compares the root after the loop. `FullBlocksAccepted` then says that the two circuits,
each at its own pace and with the prover's best hashes, get to the end of every
full block that counts from 0. In `CallSteps` `Next` is weakly fair, but for a step that reverts without
REVERT, which only a dishonest prover takes; `CallsEnd` says that the call is over in
the end, and needs both that a step exists (completeness) and that gas runs out.

## 8. Where code, comments and documentation disagree

One run is expected to be violated, `EvmRevertCounts`. `PROJECT.json` lists all disagreements under `findings`, each
with the line quoted; those without a run of their own can be reproduced by adding
the named property, or constant, to the configuration the finding names:

* `EvmReversion.cfg` with `TouchOps <- MCBalance`, and `UniqueCounters`: BALANCE does not count its reversible write; with
  `RevertsWrites = TRUE`, `UniqueCounters`, `RowsAreHistory` and `ImplementsSnapshots` are violated, each by itself;
* `Bytecode.cfg` with `EveryByteOfItsCode` (a row of a third tag cuts a code loose) or `LengthsOfCodes` (the last header);
* `Copy.cfg` with `AnyInputReturned`: the CALL clears the return range before the identity precompile reads it; with
  `Opcodes = {"RETURNDATACOPY", "MSTORE8", "RETURN", "CALL"}` and `ReturnDataCopied`: RETURNDATACOPY ignores its offset;
* `PublicInputs.cfg` with `CalldataOfTxs`: bytes of a transaction are given to the id p - 1;
* `StateTables.cfg` with `Keys <- MCCollidingKeys`, `Shapes <- MCColliding`, `RwCounters = {1, 2, 3}`, `SkeyShift = 2`,
  `AddrBase = 4`, `FieldBase = 8`, `RwcBase = 8`, `LoBase = 2`, `ByteMax = 1`, `MaxAddress = 2`, `MaxPtr = 2`, `MaxTxId = 3`,
  `IdBase = 4`, `StartInside = FALSE` and only `ReadsLatest`: two access-list slots packed into one number;
* `Words.cfg` with `Machines <- MCSignedMachines` and `ImplementsEvm`: SDIV and SMOD accept wrong words.

In short:

* *State circuit.* A storage key is wider than its shift; a Start row may stand between other rows and restarts the order.
* *Calls.* REVERT leaves no counters for the rows that undo it, and hands the counter of the callee on; BALANCE, EXTCODEHASH and EXTCODECOPY do not count their reversible write; a precompile that succeeds hands no counter to its caller; callees that
  receive no transfer still skip its two counters when they fail; IsStatic is not set by STATICCALL;
  the gas fee is undone with the root call.
* *Creation.* A reverted creation leaves its code; RETURN looks up two rows that its transition does not count; the nonces,
  the access list and the code hash are written without reversion; CREATE takes IsSuccess of
  its own call for that of the new one, and CallerAddress for the creator; the code deployed has the
  hash of the init code.
* *Steps of a call.* Any instruction may be proved as a REVERT (`AnythingReverts`); a first call
  that stops or fails hands on any gas (`AnyGasAfter`), and RETURN what it should have charged (`ReturnedForOther`); memory grows by its own size
  again (`MemoryTooLarge`, `Overcharged`); an invalid jump beyond the code leads anywhere (`JumpIsLost`); the
  oldest of the 256 hashes is missing (`OldestHashMissing`). No state exists for JUMPDEST and
  others (`NoState`), for accesses between 37 and 64 bits (`EndBetween`), for a block number of more than two bytes
  (`NumberTooLarge`) and for a jump to more than 8 bytes (`DestinationTooLarge`). EXP has no static gas.
* *Bytecode.* The tag of a row is not restricted to header and byte, so that a row of a third value cuts a code from its header, length and
  hash (`EveryByteOfItsCode` does not hold); the value of the last header is free (`LengthsOfCodes` does not hold).
* *Exponentiation.* The overflow of the parity check is dropped; `is_step` is not boolean; a
  trace may be cut or cyclic.
* *Copies.* A lookup of length 0 has no answer, and several opcodes make it; RETURNDATACOPY ignores its offset; the identity precompile's
  two lengths agree in one case only, and an input that its output overlaps is cleared before it is read (`AnyInputReturned` does not hold); MLOAD and MSTORE drop the comparison of the bytes.
* *Words.* SDIV and SMOD push anything on a divisor of 0; MULMOD's reduction drops an overflow;
  SIGNEXTEND drops the comparison of the result, and cannot be proved for some indices of several bytes (`HasSignByte`).
* *Public inputs.* Which bytes of call data are whose is fixed by sums of costs only, and the first id by nothing, so that
  the leading bytes may go to an id just below the modulus (`CalldataOfTxs` does not hold); a block
  with fewer withdrawals than rows is accepted by no witness (`BlocksAccepted` does not hold), and withdrawals are numbered by position; the tags of the
  transaction rows go round one short, so that the hash to sign is tagged as the validity.

Noted while reading, without a property to check: the comparison of CumulativeGasUsed
(`state_circuit.py:477`) is only reached on a PostStateOrStatus row; a
read-only storage key can change the trie, as its last value is not compared with its
initial one when it is absent (`specs/state-proof.md:134-136`); a storage slot that is 0 and stays 0 asks for a proof
that its *account* is absent, with the storage key in a lookup whose rows carry none; the coinbase is paid without
the refund being subtracted; `rw_counter_end_of_reversion` is never constrained (`specs/error_state/ErrorOutOfGasEXP.md:24`
says it is); several call-context fields are read and never written (`table.py:231-236`), which
the state circuit forces to be 0; BeginTx assumes its cold addresses to be distinct;
a precompile must be warm (`callop.py:162`) and no step warms it; a transaction that creates does not set the
nonce of the new contract to 1; CREATE looks IsStatic up and drops it (`create.py:52`); a block without
transactions but with withdrawals has no last step (`end_block.py:115-117`);
`copy-proof.md` asks for a fixed table of pairs of copy types that the code does not have.

## 9. What is not modelled, and why

* The transaction circuit: equalities between the fields of one transaction, its RLP encoding and
  its signature, without state or order; the signature and ECC circuits and the cryptographic precompiles, which are
  curve arithmetic over fields of 256 bits.
* Gas of storage, copies, logs, calls (the 63/64 of EIP-150) and creation, with their out-of-gas states,
  and intrinsic gas: `EvmCircuit` takes the gas of a transaction as an amount, `CallSteps` that of the
  opcodes of one call. `CallSteps` and `EvmCircuit` are not composed.
* Topics and addresses of logs, the words MLOAD and MSTORE move (the code does not constrain them).
* The raw bytes of the public inputs and their random combination: `public` is what they say. Hashes, roots and
  signatures are what they prove.
* The witness builder in `typing.py`, but for exponentiation, copies and public inputs: the models replace it by all tables.
* The field. Where an expression cannot wrap around its modulus it is an integer, and where
  a witness is a quotient in the field, its range check makes it the integer one. Transaction ids of call data rows do wrap: an id just
  below the modulus is a negative integer.

## 10. What could come next

1. `CallSteps` within the frames of `EvmCircuit`: gas handed down and up, with EIP-150 and the out-of-gas states of calls, storage, copies,
   logs and creation.
2. Proofs: that SDIV, SMOD and MULMOD may push another word for all operands that `Checked` leaves out.
3. The transaction circuit, if its tables get padding and order worth stating.
