---------------------------- MODULE MCEvmCircuit ----------------------------
(* Values of the constants of EvmCircuit for TLC.                           *)
EXTENDS EvmCircuit, TLC

CONSTANTS c1, eoa, pre, new, sender, coinbase

MCNone == {}
MCOne == {c1}
MCPlain == {eoa}
MCPrecompiles == {pre}
MCNew == {new}
MCCreate == {"CREATE"}
MCCreates == {"CREATE", "CREATE2"}
MCNoWithdrawals == {<<>>}
\* No withdrawal, and two for one account around one of nothing.
MCWithdrawalTables ==
  {<<>>, <<[address |-> sender, amount |-> 3], [address |-> coinbase, amount |-> 0],
           [address |-> sender, amount |-> 2]>>}
MCCall == {"CALL"}
MCContextCalls == {"CALL", "DELEGATECALL"}
MCAllCalls == {"CALL", "CALLCODE", "DELEGATECALL", "STATICCALL"}
MCCounted == {"EXTCODESIZE"}
MCBalance == {"BALANCE"}
MCAllTouches == {"BALANCE", "EXTCODESIZE", "EXTCODEHASH", "EXTCODECOPY"}
=============================================================================
