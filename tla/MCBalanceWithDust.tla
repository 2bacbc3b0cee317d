------------------------- MODULE MCBalanceWithDust --------------------------
EXTENDS BalanceWithDust

\* Every amount up to twice what a row can hold: both overflow checks, the
\* carry and the borrow are reached from every row.
AllAmounts == 0 .. (2 * (MaxAmount + 1) * MinAsset)
=============================================================================
