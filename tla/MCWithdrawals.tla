--------------------------- MODULE MCWithdrawals ---------------------------
(* Small instances of Withdrawals for TLC.                                 *)
EXTENDS Withdrawals, TLC

CONSTANTS ana, aff, d1, d2, a1, a2, h1, h2, c1, c2

\* One player who can afford one withdrawal of 2 or two of 1.
MCOpening == [p \in Players |-> 2]
MCAffiliate == [d \in Deposits |-> aff]
MCCommission == [d \in Deposits |-> IF d = d1 THEN 1 ELSE 2]

Symmetric == Permutations(Payers) \cup Permutations(Hooks)
               \cup Permutations(Confirmers)
=============================================================================
