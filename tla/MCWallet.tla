------------------------------ MODULE MCWallet ------------------------------
(* Small instances of Wallet for TLC.                                      *)
EXTENDS Wallet

CONSTANTS r1, r2, r3, alice, ghost, minor, ke, xx, off

MCUsers == {alice, ghost, minor}
MCOwners == {alice, minor}
MCEligible == {alice, ghost}
MCInitialBalance == [u \in MCOwners |-> IF u = alice THEN 25 ELSE 0]
\* 15% stake tax, and a country without it.
MCRegimes ==
  [c \in {ke, off} |->
     [stakeRate |-> IF c = ke THEN 1500 ELSE 0, winningsRate |-> 2000,
      threshold |-> 0]]
MCCountries == {ke, off, xx}
=============================================================================
