----------------------------- MODULE Crediting -----------------------------
(***************************************************************************)
(* What the crediting of deposits promises (the transactions of            *)
(* DepositSettlementService.settlePaid and BonusController.store): a       *)
(* player's money changes only when a deposit whose charge is paid is      *)
(* credited, in one piece with its bonuses, their redemptions, its ledger  *)
(* entry and its commission, or when the player redeems a code.            *)
(***************************************************************************)
EXTENDS Integers

CONSTANTS
  Users,
  Deposits,
  UserOf,      \* [Deposits -> Users]
  Amount,      \* [Deposits -> Nat]
  Bonuses,     \* codes and campaigns
  Codes,       \* the codes among them
  MaxUses,     \* [Bonuses -> Nat]
  Multiplier,  \* how often what is credited must be wagered
  Referred,    \* players who came with an affiliate
  Repeatable,  \* deposits that may be credited again
  Worth(_)     \* what a set of grants comes to

VARIABLES
  users,        \* [Users -> money]
  redemptions,  \* grants made
  uses,         \* [Bonuses -> Nat]: how many of each
  booked,       \* [Deposits -> Nat]: ledger entries
  commissions,  \* deposits with a commission
  paid          \* deposits whose charge is paid

creditingVars == <<users, redemptions, uses, booked, commissions, paid>>

CreditingInit ==
  /\ users = [u \in Users |-> [balance |-> 0, bonus |-> 0, required |-> 0]]
  /\ redemptions = {} /\ commissions = {} /\ paid = {}
  /\ uses = [b \in Bonuses |-> 0]
  /\ booked = [d \in Deposits |-> 0]

\* The grants of a step.
New == redemptions' \ redemptions

\* They are u's, one of a bonus at most, of codes that have a use left, and
\* each is counted.
Granted(u) ==
  /\ redemptions \subseteq redemptions'
  /\ \A g \in New : /\ g.user = u
                    /\ g.code \in Codes => uses[g.code] < MaxUses[g.code]
  /\ \A g, h \in New : g.code = h.code => g = h
  /\ uses' = [b \in Bonuses |->
                uses[b] + (IF \E g \in New : g.code = b THEN 1 ELSE 0)]

\* u receives the amount and what the grants are worth, all of it to be wagered.
Earned(u, amount) ==
  users' = [users EXCEPT ![u] =
              [balance |-> @.balance + amount,
               bonus |-> @.bonus + Worth(New),
               required |-> @.required + Multiplier * (amount + Worth(New))]]

\* The provider is paid.
Charge(d) ==
  /\ paid' = paid \cup {d}
  /\ UNCHANGED <<users, redemptions, uses, booked, commissions>>

\* A deposit is credited in one piece, for a charge that is paid.
Settle(d) ==
  /\ d \in paid
  /\ booked[d] = 0 \/ d \in Repeatable
  /\ Granted(UserOf[d])
  /\ Earned(UserOf[d], Amount[d])
  /\ booked' = [booked EXCEPT ![d] = @ + 1]
  /\ commissions' = commissions \cup ({d} \cap {o \in Deposits : UserOf[o] \in Referred})
  /\ UNCHANGED paid

\* A player redeems a code without a deposit.
Redeem(u, code) ==
  /\ \A g \in New : g.code = code
  /\ New # {}
  /\ Granted(u)
  /\ Earned(u, 0)
  /\ UNCHANGED <<booked, commissions, paid>>

CreditingNext ==
  \/ \E d \in Deposits : Charge(d) \/ Settle(d)
  \/ \E u \in Users, code \in Codes : Redeem(u, code)

CreditingSpec == CreditingInit /\ [][CreditingNext]_creditingVars
=============================================================================
