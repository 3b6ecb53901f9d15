------------------------------- MODULE Ledger -------------------------------
(***************************************************************************)
(* What the wallet service promises (the package comment of                *)
(* internal/core/usecase/wallet/wallet.go): a wallet changes only by an    *)
(* atomic posting of one or more movements together with their audit rows  *)
(* and, for a bet, the bet row; no movement takes a balance below zero.    *)
(***************************************************************************)
EXTENDS Integers, Sequences

CONSTANTS
  Owners,          \* users that have a wallet
  InitialBalance,  \* [Owners -> Nat]
  Requests         \* identities of the callers' requests

VARIABLES
  balance,         \* [Owners -> Int]
  entries,         \* [Owners -> Seq(audit row)], the transactions table
  bets             \* set of the requests whose bet row exists

ledgerVars == <<balance, entries, bets>>

\* `after' continues the audit trail that stands at balance b: every row
\* starts where the previous one stopped and moves by its amount.
Continues(b, trail) ==
  \A i \in 1 .. Len(trail) :
    /\ trail[i].before = (IF i = 1 THEN b ELSE trail[i - 1].after)
    /\ \/ trail[i].after = trail[i].before + trail[i].amount
       \/ trail[i].after = trail[i].before - trail[i].amount
    /\ trail[i].amount > 0
    /\ trail[i].after >= 0

LedgerInit ==
  /\ balance = InitialBalance
  /\ entries = [u \in Owners |-> <<>>]
  /\ bets = {}

\* One committed request: the new rows continue the trail of the wallet and
\* the balance is what the last of them says.
Post(u, r) ==
  LET old == entries[u]
      new == SubSeq(entries'[u], Len(old) + 1, Len(entries'[u]))
  IN  /\ entries' = [entries EXCEPT ![u] = old \o new]
      /\ new # <<>>
      /\ \A i \in 1 .. Len(new) : new[i].ref = r
      /\ \A i \in 1 .. Len(old) : old[i].ref # r
      /\ Continues(balance[u], new)
      /\ balance' = [balance EXCEPT ![u] = new[Len(new)].after]
      /\ bets' \in {bets, bets \cup {r}}

LedgerNext == \E u \in Owners, r \in Requests : Post(u, r)

LedgerSpec == LedgerInit /\ [][LedgerNext]_ledgerVars
=============================================================================
