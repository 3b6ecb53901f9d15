--------------------------- MODULE MCCrashRounds ---------------------------
(* Small instances of CrashRounds for TLC.                                 *)
EXTENDS CrashRounds, TLC

CONSTANTS ana, p1, p2, c1, c2

\* A stake of 1.50 takes the whole balance and half of the bonus.
MCOpening == [u \in Users |-> [balance |-> 100, bonus |-> 100,
                               required |-> 200]]

\* 1.00, 2.00 and the highest maximum, 3.00.
MCCurve == [a \in 0..2 |-> 100 + 100 * a]

Symmetric == Permutations(Pollers) \cup Permutations(Calls)
=============================================================================
