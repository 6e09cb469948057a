---- MODULE MCWithdrawals ----
\* An instance of Withdrawals for TLC: up to three withdrawals to two recipients.
EXTENDS Withdrawals

MCFirstIds == {0, 1}
MCAmounts == {0, 1}
====
