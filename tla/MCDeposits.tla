----------------------------- MODULE MCDeposits -----------------------------
(* Small instances of Deposits for TLC.                                    *)
EXTENDS Deposits, TLC

CONSTANTS ana, bia, d1, d2, h1, h2, v1, x1, vip

\* ana, who came with an affiliate, asks for two deposits, one of them with
\* the code that bia may redeem as well.
MCUserOf == [d \in Deposits |-> ana]
MCAmount == [d \in Deposits |-> IF d = d1 THEN 1 ELSE 2]
MCCodeOf == [d \in Deposits |-> IF d = d1 THEN NoCode ELSE vip]
MCReward == [b \in Bonuses |-> IF b = "signup" THEN 2 ELSE 1]
MCMaxUses == [b \in Bonuses |-> IF b = vip THEN 1 ELSE 2]
=============================================================================
