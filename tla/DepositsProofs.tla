--------------------------- MODULE DepositsProofs ---------------------------
(***************************************************************************)
(* Theorems about Deposits, for every finite set of deposits and every set *)
(* of players, codes, processes and notices.                               *)
(***************************************************************************)
EXTENDS Deposits, SumTheorems, TLAPS

-----------------------------------------------------------------------------
(* Money.                                                                  *)

DepositsOf(u) == {o \in Deposits : UserOf[o] = u}
Paid(bk) == [d \in Deposits |-> bk[d] * Amount[d]]
Worth == [g \in Redemption |-> Reward[g.code]]
GrantsOf(red, u) == {g \in red : g.user = u}

\* What was deposited is a sum of numbers.
LEMMA DepositedIs ==
  ASSUME NEW bk \in [Deposits -> Nat], NEW u
  PROVE  /\ SumFunction([d \in DepositsOf(u) |-> bk[d] * Amount[d]]) = Sum(Paid(bk), DepositsOf(u))
         /\ Sum(Paid(bk), DepositsOf(u)) \in Nat
         /\ IsFiniteSet(DepositsOf(u)) /\ IsIntOn(Paid(bk), DepositsOf(u))
<1> DEFINE S == DepositsOf(u)
           f == [d \in S |-> bk[d] * Amount[d]]
<1>1. IsFiniteSet(S) /\ S \subseteq Deposits
  <2>1. S \subseteq Deposits
    BY DEF DepositsOf
  <2> QED BY <2>1, FS_Subset, DepositsAssumption
<1>2. \A d \in S : Paid(bk)[d] \in Nat
  <2>1. \A x, y \in Nat : x * y \in Nat
    OBVIOUS
  <2>2. \A d \in S : bk[d] \in Nat /\ Amount[d] \in Nat
    BY <1>1, DepositsAssumption
  <2> QED BY <1>1, <2>1, <2>2 DEF Paid
<1>3. IsIntOn(Paid(bk), S)
  BY <1>2 DEF IsIntOn
<1>4. SumFunction(f) = Sum(f, S) /\ \A d \in S : f[d] = Paid(bk)[d]
  BY <1>1 DEF SumFunction, Sum, Paid
<1> HIDE DEF f
<1>5. Sum(f, S) = Sum(Paid(bk), S)
  BY <1>1, <1>3, <1>4, SumCongruence
<1>6. Sum(Paid(bk), S) \in Nat
  BY <1>1, <1>2, SumNat
<1> QED BY <1>1, <1>3, <1>4, <1>5, <1>6 DEF f

\* So is what was given.
LEMMA RewardIs ==
  ASSUME NEW G, IsFiniteSet(G), G \subseteq Redemption
  PROVE  /\ RewardOf(G) = Sum(Worth, G) /\ Sum(Worth, G) \in Nat
         /\ IsIntOn(Worth, G)
<1> DEFINE f == [g \in G |-> Reward[g.code]]
<1>1. \A g \in G : Worth[g] \in Nat
  <2>1. \A g \in Redemption : Reward[g.code] \in Nat
    BY DepositsAssumption DEF Redemption
  <2> QED BY <2>1 DEF Worth
<1>2. IsIntOn(Worth, G)
  BY <1>1 DEF IsIntOn
<1>3. SumFunction(f) = Sum(f, G) /\ \A g \in G : f[g] = Worth[g]
  BY DEF SumFunction, Sum, Worth
<1>4. RewardOf(G) = SumFunction(f)
  BY DEF RewardOf
<1> HIDE DEF f
<1>5. Sum(f, G) = Sum(Worth, G)
  BY <1>2, <1>3, SumCongruence
<1> QED BY <1>1, <1>2, <1>3, <1>4, <1>5, SumNat

\* The row of a player, from what is booked and what was redeemed.
Owned(bk, red, u) ==
  LET paid == Sum(Paid(bk), DepositsOf(u))
      given == Sum(Worth, GrantsOf(red, u))
  IN  [balance |-> paid, bonus |-> given, required |-> Multiplier * (paid + given)]

LEMMA GrantsFinite ==
  ASSUME NEW red, IsFiniteSet(red), red \subseteq Redemption, NEW u
  PROVE  IsFiniteSet(GrantsOf(red, u)) /\ GrantsOf(red, u) \subseteq Redemption
<1>1. GrantsOf(red, u) \subseteq red
  BY DEF GrantsOf
<1> QED BY <1>1, FS_Subset

LEMMA OwnedType ==
  ASSUME NEW bk \in [Deposits -> Nat], NEW red, IsFiniteSet(red), red \subseteq Redemption, NEW u
  PROVE  Owned(bk, red, u) \in [balance : Nat, bonus : Nat, required : Nat]
<1> DEFINE paid == Sum(Paid(bk), DepositsOf(u))
           given == Sum(Worth, GrantsOf(red, u))
<1>1. paid \in Nat /\ given \in Nat
  BY DepositedIs, GrantsFinite, RewardIs
<1>2. Multiplier * (paid + given) \in Nat
  <2> HIDE DEF paid, given
  <2>1. paid + given \in Nat /\ Multiplier \in Nat
    BY <1>1, DepositsAssumption
  <2>2. \A x, y \in Nat : x * y \in Nat
    OBVIOUS
  <2> QED BY <2>1, <2>2
<1> QED BY <1>1, <1>2 DEF Owned

\* MoneyIsAccountedFor says it of every player.
LEMMA MoneyNow ==
  ASSUME booked \in [Deposits -> Nat], IsFiniteSet(redemptions), redemptions \subseteq Redemption
  PROVE  MoneyIsAccountedFor <=> \A u \in Users : users[u] = Owned(booked, redemptions, u)
<1>1. ASSUME NEW u \in Users
      PROVE  /\ Deposited(u) = Sum(Paid(booked), DepositsOf(u))
             /\ Given(u) = Sum(Worth, GrantsOf(redemptions, u))
  <2>1. Deposited(u) = Sum(Paid(booked), DepositsOf(u))
    BY DepositedIs DEF Deposited, DepositsOf
  <2>2. RewardOf(GrantsOf(redemptions, u)) = Sum(Worth, GrantsOf(redemptions, u))
    BY GrantsFinite, RewardIs
  <2> QED BY <2>1, <2>2 DEF Given, GrantsOf
<1> QED BY <1>1 DEF MoneyIsAccountedFor, Owned

LEMMA MoneyNext ==
  ASSUME booked' \in [Deposits -> Nat], IsFiniteSet(redemptions'), redemptions' \subseteq Redemption
  PROVE  MoneyIsAccountedFor' <=> \A u \in Users : users'[u] = Owned(booked', redemptions', u)
<1>1. ASSUME NEW u \in Users
      PROVE  /\ Deposited(u)' = Sum(Paid(booked'), DepositsOf(u))
             /\ Given(u)' = Sum(Worth, GrantsOf(redemptions', u))
  <2>1. Deposited(u)' = Sum(Paid(booked'), DepositsOf(u))
    BY DepositedIs DEF Deposited, DepositsOf
  <2>2. RewardOf(GrantsOf(redemptions', u)) = Sum(Worth, GrantsOf(redemptions', u))
    BY GrantsFinite, RewardIs
  <2>3. Given(u)' = RewardOf(GrantsOf(redemptions', u))
    BY DEF Given, GrantsOf, RewardOf
  <2> QED BY <2>1, <2>2, <2>3
<1> QED BY <1>1 DEF MoneyIsAccountedFor, Owned

\* Both parts of a credit are wagered.
LEMMA Distributes ==
  ASSUME NEW m \in Nat, NEW a \in Nat, NEW b \in Nat, NEW c \in Nat, NEW d \in Nat
  PROVE  m * ((a + c) + (b + d)) = m * (a + b) + m * (c + d)
<1>1. \A x, y \in Nat : m * (x + y) = m * x + m * y
  OBVIOUS
<1>2. (a + c) + (b + d) = (a + b) + (c + d) /\ a + b \in Nat /\ c + d \in Nat
  OBVIOUS
<1> QED BY <1>1, <1>2

\* What is booked of player u's deposits grows by a, and of nobody else's.
BooksMore(bk, bk1, u, a) ==
  /\ Sum(Paid(bk1), DepositsOf(u)) = Sum(Paid(bk), DepositsOf(u)) + a
  /\ \A v \in Users \ {u} : \A o \in DepositsOf(v) : bk1[o] = bk[o]

\* Grants of player u that are new.
NewGrants(G, red, u) ==
  /\ IsFiniteSet(G) /\ G \subseteq Redemption /\ G \cap red = {}
  /\ \A g \in G : g.user = u

\* Grants that are new, all of one player, and an amount: his row becomes Credit's.
LEMMA Credited ==
  ASSUME NEW bk \in [Deposits -> Nat], NEW bk1 \in [Deposits -> Nat],
         NEW red, IsFiniteSet(red), red \subseteq Redemption,
         NEW u \in Users, NEW G, NewGrants(G, red, u),
         NEW a \in Nat, BooksMore(bk, bk1, u, a)
  PROVE  Owned(bk1, red \cup G, u) = Credit(Owned(bk, red, u), a, RewardOf(G))
<1> DEFINE H == GrantsOf(red, u)
           paid == Sum(Paid(bk), DepositsOf(u))
           given == Sum(Worth, H)
           r == RewardOf(G)
<1>1. IsFiniteSet(G) /\ G \subseteq Redemption
  BY DEF NewGrants
<1>2. GrantsOf(red \cup G, u) = H \cup G /\ H \cap G = {}
  BY DEF GrantsOf, NewGrants
<1>3. IsFiniteSet(H) /\ H \subseteq Redemption
  BY GrantsFinite
<1>4. r = Sum(Worth, G) /\ r \in Nat /\ given \in Nat /\ paid \in Nat
  BY <1>1, <1>3, RewardIs, DepositedIs
<1>5. IsIntOn(Worth, H \cup G)
  BY <1>1, <1>3, RewardIs DEF IsIntOn
<1> HIDE DEF H
<1>6. Sum(Worth, H \cup G) = given + r
  BY <1>1, <1>2, <1>3, <1>4, <1>5, SumUnion DEF H
<1>7. Owned(bk1, red \cup G, u)
        = [balance |-> paid + a, bonus |-> given + r,
           required |-> Multiplier * ((paid + a) + (given + r))]
  BY <1>2, <1>6 DEF Owned, H, BooksMore
<1>8. Owned(bk, red, u)
        = [balance |-> paid, bonus |-> given, required |-> Multiplier * (paid + given)]
  BY DEF Owned, H
<1> HIDE DEF paid, given, r
<1>9. Multiplier * ((paid + a) + (given + r)) = Multiplier * (paid + given) + Multiplier * (a + r)
  BY <1>4, Distributes, DepositsAssumption
<1> QED BY <1>7, <1>8, <1>9 DEF Credit, r

\* The rows of the others stay.
LEMMA NotCredited ==
  ASSUME NEW bk \in [Deposits -> Nat], NEW bk1 \in [Deposits -> Nat], NEW red, NEW u \in Users,
         NEW G, NewGrants(G, red, u), NEW a, BooksMore(bk, bk1, u, a), NEW v \in Users \ {u}
  PROVE  Owned(bk1, red \cup G, v) = Owned(bk, red, v)
<1>1. GrantsOf(red \cup G, v) = GrantsOf(red, v)
  BY DEF GrantsOf, NewGrants
<1>2. \A o \in DepositsOf(v) : Paid(bk1)[o] = Paid(bk)[o]
  BY DEF Paid, DepositsOf, BooksMore
<1>3. Sum(Paid(bk1), DepositsOf(v)) = Sum(Paid(bk), DepositsOf(v))
  BY <1>2, DepositedIs, SumCongruence
<1> QED BY <1>1, <1>3 DEF Owned

\* Booking a deposit once more adds its amount.
LEMMA BookedOnceMore ==
  ASSUME NEW bk \in [Deposits -> Nat], NEW bk1 \in [Deposits -> Nat], NEW d \in Deposits,
         bk1[d] = bk[d] + 1, \A o \in Deposits \ {d} : bk1[o] = bk[o]
  PROVE  BooksMore(bk, bk1, UserOf[d], Amount[d])
<1> DEFINE S == DepositsOf(UserOf[d])
           f == Paid(bk)
           g == Paid(bk1)
           a == Amount[d]
<1>1. IsFiniteSet(S) /\ d \in S /\ S \subseteq Deposits /\ IsIntOn(f, S) /\ IsIntOn(g, S)
  BY DepositedIs DEF DepositsOf
<1>2. \A o \in S \ {d} : g[o] = f[o]
  BY <1>1 DEF Paid
<1>3. g[d] = f[d] + a /\ f[d] \in Int /\ a \in Int /\ g[d] \in Int
  <2>1. bk[d] \in Nat /\ a \in Nat
    BY DepositsAssumption
  <2>2. \A x, y \in Nat : (x + 1) * y = x * y + y
    OBVIOUS
  <2>3. (bk[d] + 1) * a = bk[d] * a + a
    BY <2>1, <2>2
  <2>4. f[d] = bk[d] * a /\ g[d] = (bk[d] + 1) * a
    BY DEF Paid
  <2>5. f[d] \in Int /\ g[d] \in Int
    BY <1>1 DEF IsIntOn
  <2> HIDE DEF f, g
  <2> QED BY <2>1, <2>3, <2>4, <2>5
<1> HIDE DEF S, f, g, a
<1>4. Sum(g, S) = Sum(f, S) + (g[d] - f[d])
  BY <1>1, <1>2, <1>3, SumUpdate
<1>5. Sum(f, S) \in Int
  BY <1>1, SumType
<1>6. Sum(g, S) = Sum(f, S) + a
  BY <1>3, <1>4, <1>5
<1> QED BY <1>6 DEF S, f, g, a, DepositsOf, BooksMore

-----------------------------------------------------------------------------
(* Codes.                                                                  *)

Redeemed(red, b) == {g \in red : g.code = b}

\* New grants add to the number of redemptions of each bonus.
LEMMA CountsAdd ==
  ASSUME NEW red, IsFiniteSet(red), NEW G, IsFiniteSet(G), G \cap red = {}, NEW b
  PROVE  /\ Cardinality(Redeemed(red \cup G, b))
              = Cardinality(Redeemed(red, b)) + Cardinality(Redeemed(G, b))
         /\ Cardinality(Redeemed(red, b)) \in Nat /\ Cardinality(Redeemed(G, b)) \in Nat
<1> DEFINE S == Redeemed(red, b)
           T == Redeemed(G, b)
<1>1. S \subseteq red /\ T \subseteq G /\ Redeemed(red \cup G, b) = S \cup T /\ S \cap T = {}
  BY DEF Redeemed
<1> HIDE DEF S, T
<1>2. IsFiniteSet(S) /\ IsFiniteSet(T)
  BY <1>1, FS_Subset
<1>3. Cardinality(S \cap T) = 0
  BY <1>1, FS_EmptySet
<1>4. Cardinality(S) \in Nat /\ Cardinality(T) \in Nat
  BY <1>2, FS_CardinalityType
<1>5. Cardinality(S \cup T) = Cardinality(S) + Cardinality(T)
  <2>1. Cardinality(S \cup T) = Cardinality(S) + Cardinality(T) - Cardinality(S \cap T)
    BY <1>2, FS_Union
  <2> QED BY <1>3, <1>4, <2>1
<1> QED BY <1>1, <1>4, <1>5 DEF S, T

\* At most one grant of a bonus counts for one at most.
LEMMA CountOneAtMost ==
  ASSUME NEW G, IsFiniteSet(G), NEW b, \A g, h \in G : g.code = h.code => g = h
  PROVE  /\ (\A g \in G : g.code # b) => Cardinality(Redeemed(G, b)) = 0
         /\ Cardinality(Redeemed(G, b)) \in {0, 1}
<1> DEFINE T == Redeemed(G, b)
<1>1. (\A g \in G : g.code # b) => T = {}
  BY DEF Redeemed
<1>2. T = {} \/ \E x : T = {x}
  <2>1. ASSUME NEW x \in T PROVE T = {x}
    BY DEF Redeemed
  <2> QED BY <2>1
<1>3. Cardinality({}) = 0 /\ \A x : Cardinality({x}) = 1
  BY FS_EmptySet, FS_Singleton
<1> HIDE DEF T
<1> QED BY <1>1, <1>2, <1>3 DEF T

\* Grants made while their typed codes are usable keep every code within its limit.
LEMMA CodesAdd ==
  ASSUME TypeOK, CodesWithinLimit, IsFiniteSet(redemptions),
         NEW G, IsFiniteSet(G), G \cap redemptions = {}, redemptions' = redemptions \cup G,
         \A b \in Bonuses : uses'[b] = uses[b] + Cardinality(Redeemed(G, b)),
         \A g, h \in G : g.code = h.code => g = h,
         \A g \in G : g.code \in Codes => Usable(g.code)
  PROVE  CodesWithinLimit'
<1>1. ASSUME NEW b \in Bonuses
      PROVE  /\ uses'[b] = Cardinality(Redeemed(redemptions', b))
             /\ b \in Codes => uses'[b] <= MaxUses[b]
  <2>1. /\ uses[b] = Cardinality(Redeemed(redemptions, b)) /\ uses[b] \in Nat /\ MaxUses[b] \in Nat
        /\ b \in Codes => uses[b] <= MaxUses[b]
    BY DepositsAssumption DEF CodesWithinLimit, Redeemed, TypeOK
  <2>2. uses'[b] = Cardinality(Redeemed(redemptions', b))
    BY <2>1, CountsAdd
  <2>3. Cardinality(Redeemed(G, b)) \in {0, 1}
    BY CountOneAtMost
  <2>4. CASE \A g \in G : g.code # b
    <3>1. Cardinality(Redeemed(G, b)) = 0
      BY <2>4, CountOneAtMost
    <3> QED BY <2>1, <2>2, <3>1
  <2>5. CASE \E g \in G : g.code = b
    <3>1. b \in Codes => uses[b] < MaxUses[b]
      BY <2>5 DEF Usable
    <3> QED BY <2>1, <2>2, <2>3, <3>1
  <2> QED BY <2>4, <2>5
<1> QED BY <1>1 DEF CodesWithinLimit, Redeemed

-----------------------------------------------------------------------------
(* Steps that move no money.                                               *)

Still == UNCHANGED <<users, redemptions, uses, booked>>

LEMMA MoneyKept ==
  ASSUME MoneyIsAccountedFor, CodesWithinLimit, Still
  PROVE  MoneyIsAccountedFor' /\ CodesWithinLimit'
<1>1. MoneyIsAccountedFor'
  BY DEF MoneyIsAccountedFor, Still, Deposited, Given, RewardOf
<1>2. CodesWithinLimit'
  BY DEF CodesWithinLimit, Still
<1> QED BY <1>1, <1>2

\* They keep plans and locks when nobody starts to commit and who goes on commits the same.
GoesOn(p) ==
  /\ Committing(p)' => Committing(p) /\ on'[p] = on[p] /\ plan'[p] = plan[p]
  /\ ~Committing(p)' => plan'[p] = {}

LEMMA PlansKept ==
  ASSUME PlansInv, LocksInv, Still, \A p \in Procs : GoesOn(p)
  PROVE  PlansInv' /\ LocksInv'
<1>1. LocksInv'
  BY DEF LocksInv, GoesOn
<1>2. ASSUME NEW p \in Procs
      PROVE  /\ IsFiniteSet(plan'[p])
             /\ ~Committing(p)' => plan'[p] = {}
             /\ \A g \in plan'[p] :
                  /\ g.user = UserOf[on'[p]]
                  /\ g.code \in Codes => g.code = CodeOf[on'[p]] /\ Usable(g.code)'
             /\ \A g, h \in plan'[p] : g.code = h.code => g = h
  <2>1. CASE Committing(p)'
    BY <2>1 DEF PlansInv, GoesOn, Still, Usable
  <2>2. CASE ~Committing(p)'
    BY <2>2, FS_EmptySet DEF GoesOn
  <2> QED BY <2>1, <2>2
<1>3. IsFiniteSet(redemptions')
  BY DEF PlansInv, Still
<1> QED BY <1>1, <1>2, <1>3 DEF PlansInv

-----------------------------------------------------------------------------
(* The provider, the players and the clock.                                *)

Flow == SettlingInv /\ ExpiringInv /\ BookedInv
Statuses == {"none", "pending", "paid", "expired"}

\* A row of deposits with another status, mark or age.
LEMMA RowBecomes ==
  ASSUME NEW row \in Deposit, NEW s \in Statuses
  PROVE  /\ [row EXCEPT !.status = s] \in Deposit /\ [row EXCEPT !.status = s].status = s
         /\ [row EXCEPT !.known = TRUE] \in Deposit /\ [row EXCEPT !.known = TRUE].status = row.status
         /\ [row EXCEPT !.old = TRUE] \in Deposit /\ [row EXCEPT !.old = TRUE].status = row.status
         /\ [status |-> "none", known |-> FALSE, old |-> row.old] \in Deposit
BY DEF Deposit, Statuses

\* One row changes and everything else in the tables stays.
LEMMA OneRow ==
  ASSUME TypeOK, NEW d \in Deposits, NEW row \in Deposit, deposits' = [deposits EXCEPT ![d] = row]
  PROVE  /\ deposits' \in [Deposits -> Deposit] /\ deposits'[d] = row
         /\ \A o \in Deposits \ {d} : deposits'[o] = deposits[o]
BY DEF TypeOK

\* Steps outside the processes: their rows and plans stay.
LEMMA Outside ==
  ASSUME IInv, Still, UNCHANGED <<pc, on, plan, commissions>>,
         deposits' \in [Deposits -> Deposit],
         charges' \in [Deposits -> {"none", "open", "paid", "deleted"}],
         notices' \in [Deposits -> 0..MaxNotices],
         \A d \in Deposits : charges[d] = "paid" => charges'[d] = "paid",
         \A d \in Deposits : \/ deposits'[d].status = deposits[d].status
                             \/ charges[d] = "none" /\ deposits'[d].status # "paid"
  PROVE  IInv'
<1>1. TypeOK'
  BY DEF IInv, TypeOK, Still
<1>2. MoneyIsAccountedFor' /\ CodesWithinLimit'
  BY MoneyKept DEF IInv
<1>3. PlansInv' /\ LocksInv'
  <2>1. \A p \in Procs : GoesOn(p)
    BY DEF GoesOn, Committing, IInv, PlansInv
  <2> QED BY <2>1, PlansKept DEF IInv
<1>4. \A p \in Procs : on[p] \in Deposits
  BY DEF IInv, TypeOK
<1>5. SettlingInv'
  BY <1>4 DEF IInv, SettlingInv, Committing
<1>6. ExpiringInv'
  BY <1>4 DEF IInv, ExpiringInv
<1>7. BookedInv'
  <2>1. ASSUME NEW d \in Deposits
        PROVE  /\ booked'[d] > 0 => charges'[d] = "paid"
               /\ d \notin Overlap => booked'[d] = 0 \/ (booked'[d] = 1 /\ deposits'[d].status = "paid")
    <3>1. booked'[d] = booked[d] /\ booked[d] \in Nat
      BY DEF Still, IInv, TypeOK
    <3>2. booked[d] = 0 \/ booked[d] > 0
      BY <3>1
    <3>3. charges[d] = "none" => booked[d] = 0
      BY <3>2 DEF IInv, BookedInv
    <3> QED BY <3>1, <3>3 DEF IInv, BookedInv
  <2> QED BY <2>1 DEF BookedInv
<1> QED BY <1>1, <1>2, <1>3, <1>5, <1>6, <1>7 DEF IInv

LEMMA StoreStep ==
  ASSUME IInv, NEW d \in Deposits, Store(d)  PROVE IInv'
<1> DEFINE row == [deposits[d] EXCEPT !.status = "pending"]
<1>1. TypeOK /\ deposits[d] \in Deposit
  BY DEF IInv, TypeOK
<1>2. row \in Deposit /\ row.status = "pending"
  BY <1>1, RowBecomes DEF Statuses
<1>3. deposits' = [deposits EXCEPT ![d] = row] /\ charges[d] = "none"
  BY DEF Store
<1>4. Still /\ UNCHANGED <<pc, on, plan, commissions, charges, notices>>
  BY DEF Store, Still
<1> HIDE DEF row
<1>5. deposits' \in [Deposits -> Deposit] /\ deposits'[d] = row
      /\ \A o \in Deposits \ {d} : deposits'[o] = deposits[o]
  BY <1>1, <1>2, <1>3, OneRow
<1>6. \A o \in Deposits : \/ deposits'[o].status = deposits[o].status
                          \/ charges[o] = "none" /\ deposits'[o].status # "paid"
  BY <1>2, <1>3, <1>5
<1>7. /\ charges' \in [Deposits -> {"none", "open", "paid", "deleted"}]
      /\ notices' \in [Deposits -> 0..MaxNotices]
  BY <1>1, <1>4 DEF TypeOK
<1> QED BY <1>4, <1>5, <1>6, <1>7, Outside

LEMMA CreatePixStep ==
  ASSUME IInv, NEW d \in Deposits, CreatePix(d)  PROVE IInv'
<1> DEFINE row == [deposits[d] EXCEPT !.known = TRUE]
<1>1. TypeOK /\ deposits[d] \in Deposit
  BY DEF IInv, TypeOK
<1>2. row \in Deposit /\ row.status = deposits[d].status
  BY <1>1, RowBecomes DEF Statuses
<1>3. /\ deposits' = [deposits EXCEPT ![d] = row] /\ charges[d] = "none"
      /\ charges' = [charges EXCEPT ![d] = "open"]
  BY DEF CreatePix
<1>4. Still /\ UNCHANGED <<pc, on, plan, commissions, notices>>
  BY DEF CreatePix, Still
<1> HIDE DEF row
<1>5. deposits' \in [Deposits -> Deposit] /\ deposits'[d] = row
      /\ \A o \in Deposits \ {d} : deposits'[o] = deposits[o]
  BY <1>1, <1>2, <1>3, OneRow
<1>6. \A o \in Deposits : \/ deposits'[o].status = deposits[o].status
                          \/ charges[o] = "none" /\ deposits'[o].status # "paid"
  BY <1>2, <1>3, <1>5
<1>7. /\ charges' \in [Deposits -> {"none", "open", "paid", "deleted"}]
      /\ notices' \in [Deposits -> 0..MaxNotices]
      /\ \A o \in Deposits : charges[o] = "paid" => charges'[o] = "paid"
  BY <1>1, <1>3, <1>4 DEF TypeOK
<1> QED BY <1>4, <1>5, <1>6, <1>7, Outside

LEMMA CreatePixFailsStep ==
  ASSUME IInv, NEW d \in Deposits, CreatePixFails(d)  PROVE IInv'
<1> DEFINE row == [status |-> "none", known |-> FALSE, old |-> deposits[d].old]
<1>1. TypeOK /\ deposits[d] \in Deposit
  BY DEF IInv, TypeOK
<1>2. row \in Deposit /\ row.status = "none"
  BY <1>1, RowBecomes DEF Statuses
<1>3. /\ deposits' = [deposits EXCEPT ![d] = row] /\ charges[d] = "none"
      /\ \E charge \in {"deleted", "open"} : charges' = [charges EXCEPT ![d] = charge]
  BY DEF CreatePixFails
<1>4. Still /\ UNCHANGED <<pc, on, plan, commissions, notices>>
  BY DEF CreatePixFails, Still
<1> HIDE DEF row
<1>5. deposits' \in [Deposits -> Deposit] /\ deposits'[d] = row
      /\ \A o \in Deposits \ {d} : deposits'[o] = deposits[o]
  BY <1>1, <1>2, <1>3, OneRow
<1>6. \A o \in Deposits : \/ deposits'[o].status = deposits[o].status
                          \/ charges[o] = "none" /\ deposits'[o].status # "paid"
  BY <1>2, <1>3, <1>5
<1>7. /\ charges' \in [Deposits -> {"none", "open", "paid", "deleted"}]
      /\ notices' \in [Deposits -> 0..MaxNotices]
      /\ \A o \in Deposits : charges[o] = "paid" => charges'[o] = "paid"
  BY <1>1, <1>3, <1>4 DEF TypeOK
<1> QED BY <1>4, <1>5, <1>6, <1>7, Outside

LEMMA PayStep ==
  ASSUME IInv, NEW d \in Deposits, Pay(d)  PROVE IInv'
<1>1. /\ charges' = [charges EXCEPT ![d] = "paid"] /\ notices' = [notices EXCEPT ![d] = MaxNotices]
      /\ UNCHANGED <<tables, pc, on, plan>> /\ TypeOK
  BY DEF Pay, IInv
<1>2. /\ charges' \in [Deposits -> {"none", "open", "paid", "deleted"}]
      /\ notices' \in [Deposits -> 0..MaxNotices]
      /\ \A o \in Deposits : charges[o] = "paid" => charges'[o] = "paid"
  BY <1>1, DepositsAssumption DEF TypeOK
<1>3. deposits' \in [Deposits -> Deposit] /\ deposits' = deposits
  BY <1>1 DEF TypeOK, tables
<1>4. Still /\ UNCHANGED <<pc, on, plan, commissions>>
  BY <1>1 DEF tables, Still
<1> QED BY <1>2, <1>3, <1>4, Outside

LEMMA GrowOldStep ==
  ASSUME IInv, NEW d \in Deposits, GrowOld(d)  PROVE IInv'
<1> DEFINE row == [deposits[d] EXCEPT !.old = TRUE]
<1>1. TypeOK /\ deposits[d] \in Deposit
  BY DEF IInv, TypeOK
<1>2. row \in Deposit /\ row.status = deposits[d].status
  BY <1>1, RowBecomes DEF Statuses
<1>3. deposits' = [deposits EXCEPT ![d] = row]
  BY DEF GrowOld
<1>4. Still /\ UNCHANGED <<pc, on, plan, commissions, charges, notices>>
  BY DEF GrowOld, Still
<1> HIDE DEF row
<1>5. deposits' \in [Deposits -> Deposit] /\ deposits'[d] = row
      /\ \A o \in Deposits \ {d} : deposits'[o] = deposits[o]
  BY <1>1, <1>2, <1>3, OneRow
<1>6. \A o \in Deposits : deposits'[o].status = deposits[o].status
  BY <1>2, <1>3, <1>5
<1>7. /\ charges' \in [Deposits -> {"none", "open", "paid", "deleted"}]
      /\ notices' \in [Deposits -> 0..MaxNotices]
  BY <1>1, <1>4 DEF TypeOK
<1> QED BY <1>4, <1>5, <1>6, <1>7, Outside

-----------------------------------------------------------------------------
(* The processes, as long as they do not settle.                           *)

Expiring == {"askExpired", "delete", "expire"}
Alone(p, d) ==
  \A q \in Procs \ {p} :
    pc[q] # "idle" /\ on[q] = d /\ (p \in Expirers \/ q \in Expirers) => d \in Overlap

\* A process goes on with deposit d to label l; a row may have expired.
LEMMA ProcessMoves ==
  ASSUME IInv, Still, commissions' = commissions, NEW p \in Procs, NEW d \in Deposits,
         NEW l \in Labels \ {"commit"},
         pc' = [pc EXCEPT ![p] = l], on' = [on EXCEPT ![p] = d],
         plan' \in [Procs -> SUBSET Redemption], plan'[p] = {},
         \A q \in Procs \ {p} : plan'[q] = plan[q],
         deposits' \in [Deposits -> Deposit],
         charges' \in [Deposits -> {"none", "open", "paid", "deleted"}],
         notices' \in [Deposits -> 0..MaxNotices],
         \A o \in Deposits : charges[o] = "paid" => charges'[o] = "paid",
         \A o \in Deposits :
           \/ deposits'[o].status = deposits[o].status
           \/ /\ deposits'[o].status = "expired"
              /\ o \notin Overlap => deposits[o].status # "paid",
         l = "settle" => charges[d] = "paid",
         l \in Expiring => p \in Expirers /\ (d \notin Overlap => deposits[d].status # "paid"),
         l # "idle" => Alone(p, d)
  PROVE  IInv'
<1>0. TypeOK /\ pc'[p] = l /\ on'[p] = d /\ l # "commit"
      /\ \A q \in Procs \ {p} : pc'[q] = pc[q] /\ on'[q] = on[q]
  BY DEF IInv, TypeOK
<1>1. TypeOK'
  BY DEF IInv, TypeOK, Still
<1>2. MoneyIsAccountedFor' /\ CodesWithinLimit'
  BY MoneyKept DEF IInv
<1>3. PlansInv' /\ LocksInv'
  <2>1. \A q \in Procs : GoesOn(q)
    BY <1>0 DEF GoesOn, Committing, IInv, PlansInv
  <2> QED BY <2>1, PlansKept DEF IInv
<1>4. \A q \in Procs : on[q] \in Deposits
  BY <1>0 DEF TypeOK
<1>5. SettlingInv'
  <2>1. ASSUME NEW q \in Procs
        PROVE  /\ pc'[q] \in {"settle", "commit"} => charges'[on'[q]] = "paid"
               /\ pc'[q] = "commit" => deposits'[on'[q]].status \in {"pending", "expired"}
    <3>1. CASE q = p
      BY <1>0, <3>1
    <3>2. CASE q # p
      BY <1>0, <1>4, <3>2 DEF IInv, SettlingInv, Committing
    <3> QED BY <3>1, <3>2
  <2> QED BY <2>1 DEF SettlingInv, Committing
<1>6. ExpiringInv'
  <2>1. ASSUME NEW q \in Procs, pc'[q] \in Expiring
        PROVE  q \in Expirers /\ (on'[q] \notin Overlap => deposits'[on'[q]].status # "paid")
    <3>1. CASE q = p
      BY <1>0, <2>1, <3>1
    <3>2. CASE q # p
      BY <1>0, <1>4, <2>1, <3>2 DEF IInv, ExpiringInv, Expiring
    <3> QED BY <3>1, <3>2
  <2>2. ASSUME NEW q \in Procs, NEW r \in Expirers,
               pc'[q] # "idle", pc'[r] # "idle", q # r, on'[q] = on'[r]
        PROVE  on'[r] \in Overlap
    <3>0. r \in Procs
      BY DEF Procs
    <3>1. CASE q = p
      BY <1>0, <2>2, <3>0, <3>1 DEF Alone
    <3>2. CASE r = p
      BY <1>0, <2>2, <3>0, <3>2 DEF Alone
    <3>3. CASE q # p /\ r # p
      BY <1>0, <2>2, <3>0, <3>3 DEF IInv, ExpiringInv
    <3> QED BY <3>1, <3>2, <3>3
  <2> QED BY <2>1, <2>2 DEF ExpiringInv, Expiring
<1>7. BookedInv'
  <2>1. ASSUME NEW o \in Deposits
        PROVE  /\ booked'[o] > 0 => charges'[o] = "paid"
               /\ o \notin Overlap => booked'[o] = 0 \/ (booked'[o] = 1 /\ deposits'[o].status = "paid")
    <3>1. booked'[o] = booked[o]
      BY DEF Still
    <3>2. /\ booked[o] > 0 => charges[o] = "paid"
          /\ o \notin Overlap => booked[o] = 0 \/ (booked[o] = 1 /\ deposits[o].status = "paid")
      BY DEF IInv, BookedInv
    <3> QED BY <3>1, <3>2
  <2> QED BY <2>1 DEF BookedInv
<1> QED BY <1>1, <1>2, <1>3, <1>5, <1>6, <1>7 DEF IInv

\* What Apart asks of a process that starts.
LEMMA StartsAlone ==
  ASSUME NEW p \in Procs, NEW d \in Deposits, Apart(p, d)  PROVE Alone(p, d)
BY DEF Apart, Alone

\* What it knows of one that has started.
LEMMA StaysAlone ==
  ASSUME IInv, NEW p \in Procs, pc[p] # "idle"
  PROVE  Alone(p, on[p]) /\ on[p] \in Deposits /\ [on EXCEPT ![p] = on[p]] = on
<1>1. on[p] \in Deposits /\ [on EXCEPT ![p] = on[p]] = on
  BY DEF IInv, TypeOK
<1>2. Alone(p, on[p])
  BY DEF Alone, IInv, ExpiringInv
<1> QED BY <1>1, <1>2

\* The tables after a step that leaves them alone.
LEMMA TablesStay ==
  ASSUME IInv, UNCHANGED <<tables, charges, notices>>
  PROVE  /\ Still /\ commissions' = commissions /\ deposits' = deposits
         /\ deposits' \in [Deposits -> Deposit]
         /\ charges' \in [Deposits -> {"none", "open", "paid", "deleted"}] /\ charges' = charges
         /\ notices' \in [Deposits -> 0..MaxNotices]
BY DEF IInv, TypeOK, tables, Still

\* Who does not commit plans nothing.
LEMMA NoPlan ==
  ASSUME IInv, NEW p \in Procs, pc[p] # "commit"
  PROVE  plan[p] = {} /\ plan \in [Procs -> SUBSET Redemption]
BY DEF IInv, PlansInv, Committing, TypeOK

LEMMA WebhookStep ==
  ASSUME IInv, NEW p \in Procs, NEW d \in Deposits, Webhook(p, d)  PROVE IInv'
<1> DEFINE row == [deposits[d] EXCEPT !.known = TRUE]
<1>1. TypeOK /\ deposits[d] \in Deposit
  BY DEF IInv, TypeOK
<1>2. /\ notices[d] > 0 /\ notices' = [notices EXCEPT ![d] = @ - 1] /\ pc[p] = "idle" /\ Apart(p, d)
      /\ Still /\ UNCHANGED <<plan, commissions, charges>>
  BY DEF Webhook, Still
<1>3. /\ charges' \in [Deposits -> {"none", "open", "paid", "deleted"}]
      /\ notices' \in [Deposits -> 0..MaxNotices]
      /\ \A o \in Deposits : charges[o] = "paid" => charges'[o] = "paid"
  BY <1>1, <1>2, DepositsAssumption DEF TypeOK
<1>4. CASE deposits[d].status = "none"
  <2>1. UNCHANGED <<deposits, on, pc>>
    BY <1>4 DEF Webhook
  <2>2. deposits' \in [Deposits -> Deposit]
    BY <1>1, <2>1 DEF TypeOK
  <2> QED BY <1>2, <1>3, <2>1, <2>2, Outside
<1>5. CASE deposits[d].status # "none"
  <2>1. row \in Deposit /\ row.status = deposits[d].status
    BY <1>1, RowBecomes DEF Statuses
  <2>2. deposits' = [deposits EXCEPT ![d] = row] /\ on' = [on EXCEPT ![p] = d] /\ pc' = [pc EXCEPT ![p] = "fetch"]
    BY <1>5 DEF Webhook, Goto
  <2> HIDE DEF row
  <2>3. deposits' \in [Deposits -> Deposit] /\ deposits'[d] = row
        /\ \A o \in Deposits \ {d} : deposits'[o] = deposits[o]
    BY <1>1, <2>1, <2>2, OneRow
  <2>4. \A o \in Deposits : deposits'[o].status = deposits[o].status
    BY <2>1, <2>3
  <2>5. "fetch" \in Labels \ {"commit"} /\ "fetch" \notin Expiring
    BY DEF Labels, Expiring
  <2> QED BY <1>2, <1>3, <2>2, <2>3, <2>4, <2>5, StartsAlone, NoPlan, ProcessMoves
<1> QED BY <1>4, <1>5

LEMMA VerifyStep ==
  ASSUME IInv, NEW p \in Procs, NEW d \in Deposits, Verify(p, d)  PROVE IInv'
<1>1. /\ pc[p] = "idle" /\ Apart(p, d) /\ UNCHANGED <<tables, charges, notices, plan>>
      /\ on' = [on EXCEPT ![p] = d] /\ pc' = [pc EXCEPT ![p] = "fetch"]
  BY DEF Verify, Goto
<1>2. "fetch" \in Labels \ {"commit"} /\ "fetch" \notin Expiring
  BY DEF Labels, Expiring
<1> QED BY <1>1, <1>2, TablesStay, StartsAlone, NoPlan, ProcessMoves

LEMMA ExpireOneStep ==
  ASSUME IInv, NEW p \in Procs, NEW d \in Deposits, ExpireOne(p, d)  PROVE IInv'
<1> DEFINE l == IF deposits[d].known THEN "askExpired" ELSE "expire"
<1>1. /\ pc[p] = "idle" /\ Apart(p, d) /\ UNCHANGED <<tables, charges, notices, plan>>
      /\ on' = [on EXCEPT ![p] = d] /\ pc' = [pc EXCEPT ![p] = l]
      /\ p \in Expirers /\ deposits[d].status = "pending"
  BY DEF ExpireOne, Goto, Due
<1>2. l \in Labels \ {"commit"} /\ l # "settle"
  BY DEF Labels
<1> HIDE DEF l
<1> QED BY <1>1, <1>2, TablesStay, StartsAlone, NoPlan, ProcessMoves

\* A step of a process at work on its deposit that leaves tables and provider alone.
LEMMA WorksOn ==
  ASSUME IInv, NEW p \in Procs, NEW l \in Labels \ {"commit"}, pc[p] \notin {"idle", "commit"},
         pc' = [pc EXCEPT ![p] = l], UNCHANGED <<tables, charges, notices, on, plan>>,
         l = "settle" => charges[on[p]] = "paid",
         l \in Expiring => pc[p] \in Expiring
  PROVE  IInv'
<1>1. l \in Expiring => p \in Expirers /\ (on[p] \notin Overlap => deposits[on[p]].status # "paid")
  BY DEF IInv, ExpiringInv, Expiring
<1> QED BY <1>1, TablesStay, StaysAlone, NoPlan, ProcessMoves

LEMMA FetchStep ==
  ASSUME IInv, NEW p \in Procs, Fetch(p)  PROVE IInv'
<1>1. "idle" \in Labels \ {"commit"} /\ "settle" \in Labels \ {"commit"}
      /\ "idle" \notin Expiring /\ "settle" \notin Expiring
  BY DEF Labels, Expiring
<1>2. /\ pc[p] = "fetch" /\ UNCHANGED <<tables, charges, notices, on, plan>>
      /\ \/ pc' = [pc EXCEPT ![p] = "settle"] /\ charges[on[p]] = "paid"
         \/ pc' = [pc EXCEPT ![p] = "idle"]
  BY DEF Fetch, Goto
<1> QED BY <1>1, <1>2, WorksOn

LEMMA AskExpiredStep ==
  ASSUME IInv, NEW p \in Procs, AskExpired(p)  PROVE IInv'
<1>1. {"settle", "delete", "expire"} \subseteq Labels \ {"commit"}
      /\ "settle" \notin Expiring /\ "askExpired" \in Expiring
  BY DEF Labels, Expiring
<1>2. /\ pc[p] = "askExpired" /\ UNCHANGED <<tables, charges, notices, on, plan>>
      /\ \/ pc' = [pc EXCEPT ![p] = "settle"] /\ charges[on[p]] = "paid"
         \/ pc' = [pc EXCEPT ![p] = "delete"]
         \/ pc' = [pc EXCEPT ![p] = "expire"]
  BY DEF AskExpired, Goto
<1> QED BY <1>1, <1>2, WorksOn

LEMMA DeletePaymentStep ==
  ASSUME IInv, NEW p \in Procs, DeletePayment(p)  PROVE IInv'
<1>1. /\ pc[p] = "delete" /\ pc' = [pc EXCEPT ![p] = "expire"] /\ UNCHANGED <<tables, notices, on, plan>>
      /\ \/ charges' = [charges EXCEPT ![on[p]] = IF @ = "open" THEN "deleted" ELSE @]
         \/ charges' = charges
  BY DEF DeletePayment, Goto
<1>2. /\ charges' \in [Deposits -> {"none", "open", "paid", "deleted"}]
      /\ \A o \in Deposits : charges[o] = "paid" => charges'[o] = "paid"
  BY <1>1 DEF IInv, TypeOK
<1>3. /\ Still /\ commissions' = commissions /\ deposits' = deposits
      /\ deposits' \in [Deposits -> Deposit] /\ notices' \in [Deposits -> 0..MaxNotices]
  BY <1>1 DEF IInv, TypeOK, tables, Still
<1>4. p \in Expirers /\ (on[p] \notin Overlap => deposits[on[p]].status # "paid")
  BY <1>1 DEF IInv, ExpiringInv
<1>5. "expire" \in Labels \ {"commit"}
  BY DEF Labels
<1> QED BY <1>1, <1>2, <1>3, <1>4, <1>5, StaysAlone, NoPlan, ProcessMoves

LEMMA SaveExpiredStep ==
  ASSUME IInv, NEW p \in Procs, SaveExpired(p)  PROVE IInv'
<1> DEFINE d == on[p]
           s == IF deposits[d].status = "none" THEN "none" ELSE "expired"
           row == [deposits[d] EXCEPT !.status = s]
<1>1. TypeOK /\ d \in Deposits /\ deposits[d] \in Deposit
  BY DEF IInv, TypeOK
<1>2. row \in Deposit /\ row.status = s
  <2>1. s \in Statuses
    BY DEF Statuses
  <2> HIDE DEF s
  <2> QED BY <1>1, <2>1, RowBecomes
<1>3. /\ pc[p] = "expire" /\ pc' = [pc EXCEPT ![p] = "idle"]
      /\ deposits' = [deposits EXCEPT ![d].status = IF @ = "none" THEN @ ELSE "expired"]
      /\ UNCHANGED <<users, redemptions, uses, booked, commissions, charges, notices, on, plan>>
  BY DEF SaveExpired, Goto
<1>4. deposits' = [deposits EXCEPT ![d] = row]
  BY <1>1, <1>3 DEF TypeOK
<1>5. d \notin Overlap => deposits[d].status # "paid"
  BY <1>3 DEF IInv, ExpiringInv
<1> HIDE DEF row
<1>6. deposits' \in [Deposits -> Deposit] /\ deposits'[d] = row
      /\ \A o \in Deposits \ {d} : deposits'[o] = deposits[o]
  BY <1>1, <1>2, <1>4, OneRow
<1> HIDE DEF d
<1>7. \A o \in Deposits :
           \/ deposits'[o].status = deposits[o].status
           \/ /\ deposits'[o].status = "expired"
              /\ o \notin Overlap => deposits[o].status # "paid"
  BY <1>2, <1>5, <1>6
<1>8. /\ charges' \in [Deposits -> {"none", "open", "paid", "deleted"}] /\ charges' = charges
      /\ notices' \in [Deposits -> 0..MaxNotices] /\ Still /\ plan' = plan /\ commissions' = commissions
  BY <1>1, <1>3 DEF TypeOK, Still
<1>9. "idle" \in Labels \ {"commit"} /\ "idle" \notin Expiring
  BY DEF Labels, Expiring
<1>10. on' = [on EXCEPT ![p] = d]
  BY <1>3, StaysAlone DEF d
<1>11. /\ plan' \in [Procs -> SUBSET Redemption] /\ plan'[p] = {}
       /\ \A q \in Procs \ {p} : plan'[q] = plan[q]
  BY <1>3, NoPlan
<1>12. \A o \in Deposits : charges[o] = "paid" => charges'[o] = "paid"
  BY <1>3
<1>13. pc' = [pc EXCEPT ![p] = "idle"] /\ d \in Deposits
  BY <1>1, <1>3
<1>14. Still /\ commissions' = commissions
  BY <1>8
<1>15. /\ deposits' \in [Deposits -> Deposit] /\ notices' \in [Deposits -> 0..MaxNotices]
       /\ charges' \in [Deposits -> {"none", "open", "paid", "deleted"}]
  BY <1>6, <1>8
<1> QED BY <1>7, <1>9, <1>10, <1>11, <1>12, <1>13, <1>14, <1>15, ProcessMoves

\* The transaction is rolled back: nothing of the plan has been written.
LEMMA AbortStep ==
  ASSUME IInv, NEW p \in Procs, Abort(p)  PROVE IInv'
<1>1. /\ pc[p] = "commit" /\ pc' = [pc EXCEPT ![p] = "idle"] /\ plan' = [plan EXCEPT ![p] = {}]
      /\ UNCHANGED <<tables, charges, on>>
      /\ notices' = [d \in Deposits |-> IF p \in Hooks /\ on[p] = d /\ notices[d] < MaxNotices
                                        THEN notices[d] + 1 ELSE notices[d]]
  BY DEF Abort, Goto, Committing
<1>2. /\ Still /\ commissions' = commissions /\ deposits' = deposits /\ charges' = charges
      /\ deposits' \in [Deposits -> Deposit]
      /\ charges' \in [Deposits -> {"none", "open", "paid", "deleted"}]
  BY <1>1 DEF IInv, TypeOK, tables, Still
<1>3. notices' \in [Deposits -> 0..MaxNotices]
  BY <1>1, DepositsAssumption DEF IInv, TypeOK
<1>4. /\ plan' \in [Procs -> SUBSET Redemption] /\ plan'[p] = {}
      /\ \A q \in Procs \ {p} : plan'[q] = plan[q]
  BY <1>1 DEF IInv, TypeOK
<1>5. "idle" \in Labels \ {"commit"} /\ "idle" \notin Expiring
  BY DEF Labels, Expiring
<1> QED BY <1>1, <1>2, <1>3, <1>4, <1>5, StaysAlone, ProcessMoves

-----------------------------------------------------------------------------
(* Settling.                                                               *)

\* What a settlement plans: at most a bonus and the signup bonus, both the player's, and
\* of typed codes the deposit's own, which is usable (decideBonuses under the locks).
LEMMA Planned ==
  ASSUME NEW d \in Deposits, NEW grants \in DepositBonuses(d), NEW G, G = grants \cup SignupBonus(d)
  PROVE  /\ IsFiniteSet(G) /\ G \subseteq Redemption
         /\ \A g \in G : /\ g.user = UserOf[d]
                         /\ g.code \in Codes => g.code = CodeOf[d] /\ Usable(g.code)
         /\ \A g, h \in G : g.code = h.code => g = h
<1> DEFINE u == UserOf[d]
           typed == Grant(u, CodeOf[d], "once")
           first == Grant(u, "first", "once")
           reload == Grant(u, "reload", d)
           signup == Grant(u, "signup", "once")
<1>1. /\ u \in Users /\ CodeOf[d] \in Codes \cup {NoCode} /\ Codes \cap Campaigns = {}
      /\ {"first", "reload", "signup"} = Campaigns
  BY DepositsAssumption DEF Campaigns
<1>2. /\ first \in Redemption /\ reload \in Redemption /\ signup \in Redemption
      /\ CodeOf[d] \in Codes => typed \in Redemption
  BY <1>1 DEF Grant, Redemption, Bonuses
<1>3. /\ typed.user = u /\ first.user = u /\ reload.user = u /\ signup.user = u
      /\ typed.code = CodeOf[d] /\ first.code = "first" /\ reload.code = "reload"
      /\ signup.code = "signup"
  BY DEF Grant
<1>4. SignupBonus(d) \subseteq {signup}
  BY DEF SignupBonus
<1>5. \/ grants \subseteq {typed} /\ CodeOf[d] \in Codes /\ (grants # {} => Usable(CodeOf[d]))
      \/ grants \subseteq {first}
      \/ grants \subseteq {reload}
  <2>1. CASE CodeOf[d] # NoCode
    BY <1>1, <2>1 DEF DepositBonuses
  <2>2. CASE CodeOf[d] = NoCode
    BY <2>2 DEF DepositBonuses
  <2> QED BY <2>1, <2>2
<1> HIDE DEF typed, first, reload, signup
<1>6. "first" \notin Codes /\ "reload" \notin Codes /\ "signup" \notin Codes
  BY <1>1
<1>7. PICK x : /\ x \in Redemption /\ x.user = u /\ x.code # "signup" /\ grants \subseteq {x}
               /\ x.code \in Codes /\ grants # {} => x.code = CodeOf[d] /\ Usable(x.code)
  <2>1. CASE grants \subseteq {typed} /\ CodeOf[d] \in Codes /\ (grants # {} => Usable(CodeOf[d]))
    <3>1. typed.code # "signup"
      BY <1>3, <1>6, <2>1
    <3> QED BY <1>2, <1>3, <2>1, <3>1
  <2>2. CASE grants \subseteq {first}
    BY <1>2, <1>3, <1>6, <2>2
  <2>3. CASE grants \subseteq {reload}
    BY <1>2, <1>3, <1>6, <2>3
  <2> QED BY <1>5, <2>1, <2>2, <2>3
<1>8. G \subseteq {x, signup} /\ (x \in G => grants # {} \/ x = signup)
  BY <1>4, <1>7
<1>9. IsFiniteSet({x, signup})
  <2>1. IsFiniteSet({signup}) /\ {x, signup} = {signup} \cup {x}
    BY FS_Singleton
  <2> QED BY <2>1, FS_AddElement
<1>10. IsFiniteSet(G)
  BY <1>8, <1>9, FS_Subset
<1>11. signup.code \notin Codes /\ x # signup
  BY <1>3, <1>6, <1>7
<1> QED BY <1>2, <1>3, <1>7, <1>8, <1>10, <1>11

LEMMA SettleLockStep ==
  ASSUME IInv, NEW p \in Procs, SettleLock(p)  PROVE IInv'
<1> DEFINE d == on[p]
<1>1. /\ pc[p] = "settle" /\ TypeOK /\ d \in Deposits /\ UNCHANGED <<tables, charges, notices, on>>
      /\ RowFree(d) /\ CodeFree(CodeOf[d])
  BY DEF SettleLock, IInv, TypeOK
<1>2. CASE ~Settleable(d)
  <2>1. pc' = [pc EXCEPT ![p] = "idle"] /\ plan' = plan
    BY <1>2 DEF SettleLock, Goto
  <2>2. "idle" \in Labels \ {"commit"} /\ "idle" \notin Expiring
    BY DEF Labels, Expiring
  <2> QED BY <1>1, <2>1, <2>2, WorksOn
<1>3. CASE Settleable(d)
  <2>1. PICK grants \in DepositBonuses(d) : plan' = [plan EXCEPT ![p] = grants \cup SignupBonus(d)]
    BY <1>3 DEF SettleLock
  <2>2. pc' = [pc EXCEPT ![p] = "commit"]
    BY <1>3 DEF SettleLock, Goto
  <2> DEFINE G == grants \cup SignupBonus(d)
  <2>3. /\ IsFiniteSet(G) /\ G \subseteq Redemption
        /\ \A g \in G : /\ g.user = UserOf[d]
                        /\ g.code \in Codes => g.code = CodeOf[d] /\ Usable(g.code)
        /\ \A g, h \in G : g.code = h.code => g = h
    BY <1>1, Planned
  <2>4. plan' = [plan EXCEPT ![p] = G]
    BY <2>1
  <2> HIDE DEF G
  <2>5. /\ plan' \in [Procs -> SUBSET Redemption] /\ plan'[p] = G
        /\ \A q \in Procs \ {p} : plan'[q] = plan[q]
    BY <1>1, <2>3, <2>4 DEF TypeOK
  <2>6. /\ pc' \in [Procs -> Labels] /\ pc'[p] = "commit"
        /\ \A q \in Procs \ {p} : pc'[q] = pc[q]
    BY <1>1, <2>2 DEF TypeOK, Labels
  <2>7. Still /\ UNCHANGED <<deposits, commissions, charges, notices, on>>
    BY <1>1 DEF tables, Still
  <2>8. TypeOK'
    BY <1>1, <2>5, <2>6, <2>7 DEF TypeOK, Still
  <2>9. MoneyIsAccountedFor' /\ CodesWithinLimit'
    BY <2>7, MoneyKept DEF IInv
  <2>10. PlansInv'
    <3>1. ASSUME NEW q \in Procs
          PROVE  /\ IsFiniteSet(plan'[q])
                 /\ ~Committing(q)' => plan'[q] = {}
                 /\ \A g \in plan'[q] :
                      /\ g.user = UserOf[on'[q]]
                      /\ g.code \in Codes => g.code = CodeOf[on'[q]] /\ Usable(g.code)'
                 /\ \A g, h \in plan'[q] : g.code = h.code => g = h
      <4>1. \A b : Usable(b)' <=> Usable(b)
        BY <2>7 DEF Usable, Still
      <4>2. CASE q = p
        BY <2>3, <2>5, <2>6, <2>7, <4>1, <4>2 DEF Committing
      <4>3. CASE q # p
        BY <2>5, <2>6, <2>7, <4>1, <4>3 DEF Committing, IInv, PlansInv
      <4> QED BY <4>2, <4>3
    <3>2. IsFiniteSet(redemptions')
      BY <2>7 DEF IInv, PlansInv, Still
    <3> QED BY <3>1, <3>2 DEF PlansInv
  <2>11. LocksInv'
    <3>1. \A q \in Procs \ {p} : Committing(q)' =>
            Committing(q) /\ on[q] # d /\ (CodeOf[d] # NoCode => CodeOf[on[q]] # CodeOf[d])
      BY <1>1, <2>6 DEF Committing, RowFree, CodeFree
    <3> QED BY <2>7, <3>1 DEF IInv, LocksInv
  <2>12. SettlingInv'
    BY <1>1, <1>3, <2>6, <2>7 DEF IInv, SettlingInv, Committing, Settleable
  <2>13. ExpiringInv'
    <3>1. \A q \in Procs : pc'[q] # "idle" => pc[q] # "idle"
      BY <1>1, <2>6
    <3>2. \A q \in Procs : pc'[q] \in {"askExpired", "delete", "expire"} => pc'[q] = pc[q]
      BY <2>6
    <3>3. \A q \in Expirers : q \in Procs
      BY DEF Procs
    <3> QED BY <2>7, <3>1, <3>2, <3>3 DEF IInv, ExpiringInv
  <2>14. BookedInv'
    BY <2>7 DEF IInv, BookedInv, Still
  <2> QED BY <2>8, <2>9, <2>10, <2>11, <2>12, <2>13, <2>14 DEF IInv
<1> QED BY <1>2, <1>3

\* What is credited with grants that are new, all of one player, keeps the types and every
\* cent's reason.
LEMMA CreditKeepsMoney ==
  ASSUME IInv, NEW u \in Users, NEW G, NewGrants(G, redemptions, u), NEW a \in Nat,
         redemptions' = redemptions \cup G,
         users' = [users EXCEPT ![u] = Credit(users[u], a, RewardOf(G))],
         booked' \in [Deposits -> Nat], BooksMore(booked, booked', u, a)
  PROVE  /\ MoneyIsAccountedFor' /\ IsFiniteSet(redemptions') /\ redemptions' \subseteq Redemption
         /\ users' \in [Users -> [balance : Nat, bonus : Nat, required : Nat]]
<1>1. /\ booked \in [Deposits -> Nat] /\ IsFiniteSet(redemptions) /\ redemptions \subseteq Redemption
      /\ users \in [Users -> [balance : Nat, bonus : Nat, required : Nat]]
  BY DEF IInv, TypeOK, PlansInv
<1>2. IsFiniteSet(redemptions') /\ redemptions' \subseteq Redemption
  BY <1>1, FS_Union DEF NewGrants
<1>3. \A v \in Users : users[v] = Owned(booked, redemptions, v)
  BY <1>1, MoneyNow DEF IInv
<1>4. /\ Owned(booked', redemptions \cup G, u) = Credit(Owned(booked, redemptions, u), a, RewardOf(G))
      /\ \A v \in Users \ {u} : Owned(booked', redemptions \cup G, v) = Owned(booked, redemptions, v)
  <2>1. Owned(booked', redemptions \cup G, u) = Credit(Owned(booked, redemptions, u), a, RewardOf(G))
    BY <1>1, Credited
  <2>2. ASSUME NEW v \in Users \ {u}
        PROVE  Owned(booked', redemptions \cup G, v) = Owned(booked, redemptions, v)
    BY <1>1, NotCredited
  <2> QED BY <2>1, <2>2
<1>5. \A v \in Users : users'[v] = Owned(booked', redemptions', v)
  <2>1. \A v \in Users : users'[v] = Owned(booked', redemptions \cup G, v)
    BY <1>1, <1>3, <1>4
  <2> QED BY <2>1
<1>6. MoneyIsAccountedFor'
  BY <1>2, <1>5, MoneyNext
<1>7. \A v \in Users : users'[v] \in [balance : Nat, bonus : Nat, required : Nat]
  BY <1>2, <1>5, OwnedType
<1>8. users' = [v \in Users |-> users'[v]]
  BY <1>1
<1> QED BY <1>2, <1>6, <1>7, <1>8

LEMMA CommitStep ==
  ASSUME IInv, NEW p \in Procs, Commit(p)  PROVE IInv'
<1> DEFINE d == on[p]
           u == UserOf[d]
           G == plan[p]
           a == Amount[d]
           row == [deposits[d] EXCEPT !.status = "paid"]
<1>0. TypeOK /\ PlansInv /\ pc[p] = "commit" /\ Committing(p)
  BY DEF IInv, Commit, Committing
<1>1. /\ d \in Deposits /\ u \in Users /\ a \in Nat /\ deposits[d] \in Deposit
      /\ G \subseteq Redemption /\ IsFiniteSet(G) /\ G \cap redemptions = {}
      /\ (\A g \in G : g.user = u /\ (g.code \in Codes => g.code = CodeOf[d] /\ Usable(g.code)))
      /\ \A g, h \in G : g.code = h.code => g = h
  BY <1>0, DepositsAssumption DEF TypeOK, PlansInv, Commit
<1>2. /\ deposits' = [deposits EXCEPT ![d] = row]
      /\ users' = [users EXCEPT ![u] = Credit(users[u], a, RewardOf(G))]
      /\ redemptions' = redemptions \cup G /\ uses' = UsesWith(G)
      /\ booked' = [booked EXCEPT ![d] = booked[d] + 1]
      /\ commissions' = commissions \cup {d} \/ commissions' = commissions
      /\ plan' = [plan EXCEPT ![p] = {}] /\ pc' = [pc EXCEPT ![p] = "idle"]
      /\ UNCHANGED <<charges, notices, on>>
  BY DEF Commit, Goto
<1>3. row \in Deposit /\ row.status = "paid"
  BY <1>1, RowBecomes DEF Statuses
<1> HIDE DEF row
<1>4. deposits' \in [Deposits -> Deposit] /\ deposits'[d] = row
      /\ \A o \in Deposits \ {d} : deposits'[o] = deposits[o]
  BY <1>0, <1>1, <1>2, <1>3, OneRow
<1> HIDE DEF u, G, a
<1>5. /\ booked \in [Deposits -> Nat] /\ booked' \in [Deposits -> Nat] /\ booked'[d] = booked[d] + 1
      /\ \A o \in Deposits \ {d} : booked'[o] = booked[o]
  BY <1>0, <1>1, <1>2 DEF TypeOK
<1>6. /\ plan' \in [Procs -> SUBSET Redemption] /\ plan'[p] = {}
      /\ \A q \in Procs \ {p} : plan'[q] = plan[q]
  BY <1>0, <1>2 DEF TypeOK
<1>7. /\ pc' \in [Procs -> Labels] /\ pc'[p] = "idle" /\ \A q \in Procs \ {p} : pc'[q] = pc[q]
  BY <1>0, <1>2 DEF TypeOK, Labels
<1>8. BooksMore(booked, booked', u, a)
  BY <1>1, <1>5, BookedOnceMore DEF u, a
<1> HIDE DEF d
<1>9. /\ MoneyIsAccountedFor' /\ IsFiniteSet(redemptions') /\ redemptions' \subseteq Redemption
      /\ users' \in [Users -> [balance : Nat, bonus : Nat, required : Nat]]
  <2>1. NewGrants(G, redemptions, u)
    BY <1>1 DEF NewGrants
  <2> QED BY <1>1, <1>2, <1>5, <1>8, <2>1, CreditKeepsMoney
<1>10. \A b \in Bonuses : uses'[b] = uses[b] + Cardinality(Redeemed(G, b))
  BY <1>2 DEF UsesWith, Redeemed
<1>11. uses' \in [Bonuses -> Nat]
  <2>1. \A b \in Bonuses : uses[b] \in Nat /\ Cardinality(Redeemed(G, b)) \in Nat
    <3>1. \A b : Cardinality(Redeemed(G, b)) \in {0, 1}
      BY <1>1, CountOneAtMost
    <3> QED BY <1>0, <3>1 DEF TypeOK
  <2>2. \A b \in Bonuses : uses'[b] \in Nat
    BY <1>10, <2>1
  <2>3. uses' = [b \in Bonuses |-> uses'[b]]
    BY <1>2 DEF UsesWith
  <2> QED BY <2>2, <2>3
<1>12. CodesWithinLimit'
  BY <1>0, <1>1, <1>2, <1>10, CodesAdd DEF IInv, PlansInv
<1>13. TypeOK'
  BY <1>0, <1>1, <1>2, <1>4, <1>5, <1>6, <1>7, <1>9, <1>11 DEF TypeOK
<1>14. \A q \in Procs \ {p} : Committing(q)' =>
         Committing(q) /\ on[q] # d /\ (CodeOf[d] # NoCode => CodeOf[on[q]] # CodeOf[d])
  BY <1>0, <1>7 DEF IInv, LocksInv, Committing, d
<1>15. PlansInv'
  <2>1. ASSUME NEW q \in Procs, q # p, Committing(q), Committing(q)', NEW g \in plan[q], g.code \in Codes
        PROVE  g.code = CodeOf[on[q]] /\ Usable(g.code)'
    <3>1. g.code = CodeOf[on[q]] /\ Usable(g.code) /\ g.code \in Bonuses
      BY <1>0, <2>1 DEF PlansInv, Bonuses
    <3>2. CodeOf[d] \in Codes => g.code # CodeOf[d]
      BY <1>14, <2>1, <3>1, DepositsAssumption
    <3>3. \A h \in G : h.code # g.code
      BY <1>1, <2>1, <3>2
    <3>4. Cardinality(Redeemed(G, g.code)) = 0
      BY <1>1, <3>3, CountOneAtMost
    <3>5. uses[g.code] \in Nat
      BY <1>0, <3>1 DEF TypeOK
    <3>6. uses'[g.code] = uses[g.code]
      BY <1>10, <3>1, <3>4, <3>5
    <3> QED BY <3>1, <3>6 DEF Usable
  <2>2. ASSUME NEW q \in Procs
        PROVE  /\ IsFiniteSet(plan'[q])
               /\ ~Committing(q)' => plan'[q] = {}
               /\ \A g \in plan'[q] :
                    /\ g.user = UserOf[on'[q]]
                    /\ g.code \in Codes => g.code = CodeOf[on'[q]] /\ Usable(g.code)'
               /\ \A g, h \in plan'[q] : g.code = h.code => g = h
    <3>1. CASE q = p
      BY <1>6, <3>1, FS_EmptySet
    <3>2. CASE q # p /\ ~Committing(q)
      BY <1>0, <1>6, <1>7, <3>2, FS_EmptySet DEF PlansInv, Committing
    <3>3. CASE q # p /\ Committing(q)
      <4>1. Committing(q)' /\ plan'[q] = plan[q] /\ on'[q] = on[q]
        BY <1>2, <1>6, <1>7, <3>3 DEF Committing
      <4>2. \A g \in plan[q] : g.code \in Codes => g.code = CodeOf[on[q]] /\ Usable(g.code)'
        BY <2>1, <3>3, <4>1
      <4>3. /\ IsFiniteSet(plan[q]) /\ \A g \in plan[q] : g.user = UserOf[on[q]]
            /\ \A g, h \in plan[q] : g.code = h.code => g = h
        BY <1>0 DEF PlansInv
      <4> QED BY <4>1, <4>2, <4>3
    <3> QED BY <3>1, <3>2, <3>3
  <2> QED BY <1>9, <2>2 DEF PlansInv
<1>16. LocksInv'
  <2>1. ~Committing(p)'
    BY <1>7 DEF Committing
  <2>2. \A q \in Procs \ {p} : Committing(q)' => Committing(q)
    BY <1>14
  <2> QED BY <1>2, <2>1, <2>2 DEF IInv, LocksInv
<1>17. SettlingInv'
  <2>1. ASSUME NEW q \in Procs
        PROVE  /\ pc'[q] \in {"settle", "commit"} => charges'[on'[q]] = "paid"
               /\ pc'[q] = "commit" => deposits'[on'[q]].status \in {"pending", "expired"}
    <3>1. CASE q = p
      BY <1>7, <3>1
    <3>2. CASE q # p
      <4>1. pc'[q] = "commit" => on[q] # d
        BY <1>14, <3>2 DEF Committing
      <4>2. on[q] \in Deposits
        BY <1>0 DEF TypeOK
      <4> QED BY <1>2, <1>4, <1>7, <3>2, <4>1, <4>2 DEF IInv, SettlingInv, Committing
    <3> QED BY <3>1, <3>2
  <2> QED BY <2>1 DEF SettlingInv, Committing
<1>18. ExpiringInv'
  <2>1. \A q \in Procs : pc'[q] # "idle" => pc[q] # "idle" /\ q # p /\ pc'[q] = pc[q]
    BY <1>0, <1>7
  <2>2. ASSUME NEW q \in Procs, pc'[q] \in Expiring
        PROVE  q \in Expirers /\ (on'[q] \notin Overlap => deposits'[on'[q]].status # "paid")
    <3>1. /\ q # p /\ pc[q] \in Expiring /\ pc[q] # "idle" /\ q \in Expirers
          /\ on[q] \notin Overlap => deposits[on[q]].status # "paid"
      BY <2>1, <2>2 DEF Expiring, IInv, ExpiringInv
    <3>2. on[q] = d => on[q] \in Overlap
      BY <1>0, <3>1 DEF IInv, ExpiringInv, d
    <3>3. on[q] \in Deposits /\ on'[q] = on[q]
      BY <1>0, <1>2 DEF TypeOK
    <3> QED BY <1>4, <3>1, <3>2, <3>3
  <2>3. \A q \in Expirers : q \in Procs
    BY DEF Procs
  <2> QED BY <1>2, <2>1, <2>2, <2>3 DEF IInv, ExpiringInv, Expiring
<1>19. BookedInv'
  <2>1. charges[d] = "paid" /\ deposits[d].status \in {"pending", "expired"}
    BY <1>0 DEF IInv, SettlingInv, d
  <2>2. d \notin Overlap => booked[d] = 0
    BY <1>1, <2>1 DEF IInv, BookedInv
  <2>3. ASSUME NEW o \in Deposits
        PROVE  /\ booked'[o] > 0 => charges'[o] = "paid"
               /\ o \notin Overlap => booked'[o] = 0 \/ (booked'[o] = 1 /\ deposits'[o].status = "paid")
    <3>1. CASE o = d
      BY <1>2, <1>3, <1>4, <1>5, <2>1, <2>2, <3>1
    <3>2. CASE o # d
      BY <1>2, <1>4, <1>5, <3>2 DEF IInv, BookedInv
    <3> QED BY <3>1, <3>2
  <2> QED BY <2>3 DEF BookedInv
<1> QED BY <1>9, <1>12, <1>13, <1>15, <1>16, <1>17, <1>18, <1>19 DEF IInv


\* A code redeemed without a deposit: no settlement that is about to commit has it locked.
LEMMA RedeemFixedCodeStep ==
  ASSUME IInv, NEW u \in Users, NEW code \in Codes, RedeemFixedCode(u, code)  PROVE IInv'
<1> DEFINE g == Grant(u, code, "once")
           G == {g}
<1>0. TypeOK /\ PlansInv /\ code \in Bonuses
  BY DEF IInv, Bonuses
<1>1. /\ g \in Redemption /\ g.user = u /\ g.code = code
  BY <1>0 DEF Grant, Redemption
<1>2. /\ redemptions' = redemptions \cup {g} /\ g \notin redemptions /\ Usable(code)
      /\ CodeFree(code)
      /\ users' = [users EXCEPT ![u] = Credit(users[u], 0, Reward[code])]
      /\ uses' = [uses EXCEPT ![code] = uses[code] + 1]
      /\ UNCHANGED <<deposits, booked, commissions, charges, notices, pc, on, plan>>
  BY DEF RedeemFixedCode
<1> HIDE DEF g
<1>3. NewGrants(G, redemptions, u)
  BY <1>1, <1>2, FS_Singleton DEF NewGrants
<1>4. RewardOf(G) = Reward[code]
  <2>1. IsFiniteSet(G) /\ G \subseteq Redemption
    BY <1>1, FS_Singleton
  <2>2. RewardOf(G) = Sum(Worth, G) /\ IsIntOn(Worth, G)
    BY <2>1, RewardIs
  <2>3. Worth[g] = Reward[code] /\ Worth[g] \in Int
    BY <1>1, <2>2 DEF Worth, IsIntOn
  <2>4. Sum(Worth, {g}) = Worth[g]
    BY <2>3, SumOne
  <2> QED BY <2>2, <2>3, <2>4
<1>5. booked \in [Deposits -> Nat] /\ booked' = booked
  BY <1>0, <1>2 DEF TypeOK
<1>6. BooksMore(booked, booked', u, 0)
  <2>1. Sum(Paid(booked), DepositsOf(u)) \in Nat
    BY <1>5, DepositedIs
  <2>2. Sum(Paid(booked), DepositsOf(u)) = Sum(Paid(booked), DepositsOf(u)) + 0
    BY <2>1
  <2> QED BY <1>5, <2>2 DEF BooksMore
<1>7. /\ MoneyIsAccountedFor' /\ IsFiniteSet(redemptions') /\ redemptions' \subseteq Redemption
      /\ users' \in [Users -> [balance : Nat, bonus : Nat, required : Nat]]
  <2>1. users' = [users EXCEPT ![u] = Credit(users[u], 0, RewardOf(G))]
    BY <1>2, <1>4
  <2>2. redemptions' = redemptions \cup G /\ 0 \in Nat
    BY <1>2
  <2> QED BY <1>3, <1>5, <1>6, <2>1, <2>2, CreditKeepsMoney
<1>8. \A b \in Bonuses : uses'[b] = uses[b] + Cardinality(Redeemed(G, b))
  <2>1. ASSUME NEW b \in Bonuses PROVE uses'[b] = uses[b] + Cardinality(Redeemed(G, b))
    <3>1. uses[b] \in Nat /\ uses \in [Bonuses -> Nat]
      BY <1>0 DEF TypeOK
    <3>2. CASE b = code
      <4>1. Redeemed(G, b) = {g}
        BY <1>1, <3>2 DEF Redeemed
      <4>2. Cardinality(Redeemed(G, b)) = 1
        BY <4>1, FS_Singleton
      <4> QED BY <1>2, <3>1, <3>2, <4>2
    <3>3. CASE b # code
      <4>1. Redeemed(G, b) = {}
        BY <1>1, <3>3 DEF Redeemed
      <4>2. Cardinality(Redeemed(G, b)) = 0
        BY <4>1, FS_EmptySet
      <4> QED BY <1>2, <3>1, <3>3, <4>2
    <3> QED BY <3>2, <3>3
  <2> QED BY <2>1
<1>9. uses' \in [Bonuses -> Nat]
  BY <1>0, <1>2 DEF TypeOK
<1>10. CodesWithinLimit'
  <2>1. \A h, k \in G : h.code = k.code => h = k
    OBVIOUS
  <2>2. \A h \in G : h.code \in Codes => Usable(h.code)
    BY <1>1, <1>2
  <2>3. /\ IsFiniteSet(G) /\ G \cap redemptions = {} /\ redemptions' = redemptions \cup G
        /\ IsFiniteSet(redemptions) /\ CodesWithinLimit
    BY <1>0, <1>2, <1>3 DEF IInv, PlansInv, NewGrants
  <2> HIDE DEF G
  <2> QED BY <1>0, <1>8, <2>1, <2>2, <2>3, CodesAdd
<1>11. TypeOK'
  BY <1>0, <1>2, <1>7, <1>9 DEF TypeOK
<1>12. PlansInv'
  <2>1. ASSUME NEW q \in Procs, NEW h \in plan[q], h.code \in Codes
        PROVE  h.code = CodeOf[on[q]] /\ Usable(h.code)'
    <3>1. h.code = CodeOf[on[q]] /\ Usable(h.code) /\ Committing(q)
      BY <1>0, <2>1 DEF PlansInv
    <3>2. code # NoCode
      BY DepositsAssumption
    <3>3. h.code # code
      BY <1>2, <3>1, <3>2 DEF CodeFree
    <3>4. uses'[h.code] = uses[h.code]
      BY <1>0, <1>2, <2>1, <3>3 DEF TypeOK, Bonuses
    <3> QED BY <3>1, <3>4 DEF Usable
  <2>2. ASSUME NEW q \in Procs
        PROVE  /\ IsFiniteSet(plan[q]) /\ (~Committing(q) => plan[q] = {})
               /\ \A h \in plan[q] : h.user = UserOf[on[q]]
               /\ \A h, k \in plan[q] : h.code = k.code => h = k
    BY <1>0 DEF PlansInv
  <2> QED BY <1>2, <1>7, <2>1, <2>2 DEF PlansInv, Committing
<1>13. LocksInv' /\ SettlingInv' /\ ExpiringInv' /\ BookedInv'
  BY <1>2 DEF IInv, LocksInv, SettlingInv, ExpiringInv, BookedInv, Committing
<1> QED BY <1>7, <1>10, <1>11, <1>12, <1>13 DEF IInv

-----------------------------------------------------------------------------
(* The theorems.                                                           *)

LEMMA InitIInv == ASSUME Init PROVE IInv
<1>1. TypeOK
  <2>1. (CHOOSE d \in Deposits : TRUE) \in Deposits
    BY DepositsAssumption
  <2>2. on \in [Procs -> Deposits]
    BY <2>1 DEF Init
  <2>3. deposits \in [Deposits -> Deposit] /\ charges \in [Deposits -> {"none", "open", "paid", "deleted"}]
    BY DEF Init, Deposit
  <2>4. notices \in [Deposits -> 0..MaxNotices] /\ uses \in [Bonuses -> Nat] /\ booked \in [Deposits -> Nat]
        /\ users \in [Users -> [balance : Nat, bonus : Nat, required : Nat]]
    BY DepositsAssumption DEF Init
  <2>5. pc \in [Procs -> Labels] /\ plan \in [Procs -> SUBSET Redemption]
        /\ redemptions \subseteq Redemption /\ commissions \subseteq Deposits
    BY DEF Init, Labels
  <2> QED BY <2>2, <2>3, <2>4, <2>5 DEF TypeOK
<1>2. redemptions = {} /\ IsFiniteSet(redemptions) /\ booked \in [Deposits -> Nat]
      /\ \A d \in Deposits : booked[d] = 0
  BY FS_EmptySet DEF Init
<1>3. MoneyIsAccountedFor
  <2>1. ASSUME NEW u \in Users PROVE users[u] = Owned(booked, redemptions, u)
    <3>1. \A d \in DepositsOf(u) : Paid(booked)[d] = 0
      <4>1. \A x \in Nat : 0 * x = 0
        OBVIOUS
      <4> QED BY <1>2, <4>1, DepositsAssumption DEF Paid, DepositsOf
    <3>2. Sum(Paid(booked), DepositsOf(u)) = 0
      <4> DEFINE f == Paid(booked)
                 S == DepositsOf(u)
      <4>1. IsFiniteSet(S) /\ IsIntOn(f, S) /\ Sum(f, S) \in Nat
        BY <1>2, DepositedIs
      <4>2. \A d \in S : f[d] = 0
        BY <3>1
      <4> HIDE DEF f, S
      <4>3. Sum(f, S) = 0
        BY <4>1, <4>2, SumZero
      <4> QED BY <4>3 DEF f, S
    <3>3. GrantsOf(redemptions, u) = {}
      BY <1>2 DEF GrantsOf
    <3>4. Sum(Worth, GrantsOf(redemptions, u)) = 0
      BY <3>3, SumEmpty
    <3>5. Multiplier * (0 + 0) = 0
      BY DepositsAssumption
    <3>6. users[u] = [balance |-> 0, bonus |-> 0, required |-> 0]
      BY DEF Init
    <3> QED BY <3>2, <3>4, <3>5, <3>6 DEF Owned
  <2>2. redemptions \subseteq Redemption
    BY <1>2
  <2> QED BY <1>2, <2>1, <2>2, MoneyNow
<1>4. CodesWithinLimit
  <2>1. \A b : Cardinality({g \in redemptions : g.code = b}) = 0
    <3>1. \A b : {g \in redemptions : g.code = b} = {}
      BY <1>2
    <3> QED BY <3>1, FS_EmptySet
  <2>2. \A b \in Bonuses : uses[b] = 0 /\ 0 <= MaxUses[b]
    BY DepositsAssumption DEF Init
  <2> QED BY <2>1, <2>2 DEF CodesWithinLimit
<1>5. PlansInv /\ LocksInv /\ SettlingInv /\ ExpiringInv
  <2>1. \A p \in Procs : pc[p] = "idle" /\ plan[p] = {}
    BY DEF Init
  <2>2. \A p \in Expirers : pc[p] = "idle"
    BY <2>1 DEF Procs
  <2> QED BY <1>2, <2>1, <2>2, FS_EmptySet DEF PlansInv, LocksInv, SettlingInv, ExpiringInv, Committing
<1>6. BookedInv
  BY <1>2 DEF BookedInv
<1> QED BY <1>1, <1>3, <1>4, <1>5, <1>6 DEF IInv

LEMMA NextIInv == ASSUME IInv, [Next]_vars PROVE IInv'
<1>1. ASSUME NEW d \in Deposits, Store(d) PROVE IInv'
  BY <1>1, StoreStep
<1>2. ASSUME NEW d \in Deposits, CreatePix(d) PROVE IInv'
  BY <1>2, CreatePixStep
<1>3. ASSUME NEW d \in Deposits, CreatePixFails(d) PROVE IInv'
  BY <1>3, CreatePixFailsStep
<1>4. ASSUME NEW d \in Deposits, Pay(d) PROVE IInv'
  BY <1>4, PayStep
<1>5. ASSUME NEW d \in Deposits, GrowOld(d) PROVE IInv'
  BY <1>5, GrowOldStep
<1>6. ASSUME NEW d \in Deposits, NEW p \in Procs, Webhook(p, d) PROVE IInv'
  BY <1>6, WebhookStep
<1>7. ASSUME NEW d \in Deposits, NEW p \in Procs, Verify(p, d) PROVE IInv'
  BY <1>7, VerifyStep
<1>8. ASSUME NEW d \in Deposits, NEW p \in Procs, ExpireOne(p, d) PROVE IInv'
  BY <1>8, ExpireOneStep
<1>9. ASSUME NEW u \in Users, NEW code \in Codes, RedeemFixedCode(u, code) PROVE IInv'
  BY <1>9, RedeemFixedCodeStep
<1>10. ASSUME NEW p \in Procs, Fetch(p) PROVE IInv'
  BY <1>10, FetchStep
<1>11. ASSUME NEW p \in Procs, SettleLock(p) PROVE IInv'
  BY <1>11, SettleLockStep
<1>12. ASSUME NEW p \in Procs, Commit(p) PROVE IInv'
  BY <1>12, CommitStep
<1>13. ASSUME NEW p \in Procs, Abort(p) PROVE IInv'
  BY <1>13, AbortStep
<1>14. ASSUME NEW p \in Procs, AskExpired(p) PROVE IInv'
  BY <1>14, AskExpiredStep
<1>15. ASSUME NEW p \in Procs, DeletePayment(p) PROVE IInv'
  BY <1>15, DeletePaymentStep
<1>16. ASSUME NEW p \in Procs, SaveExpired(p) PROVE IInv'
  BY <1>16, SaveExpiredStep
<1>17. CASE UNCHANGED vars
  <2>1. /\ Still /\ UNCHANGED <<pc, on, plan, commissions>>
        /\ deposits' = deposits /\ charges' = charges /\ notices' = notices
    BY <1>17 DEF vars, tables, Still
  <2>2. /\ deposits \in [Deposits -> Deposit] /\ notices \in [Deposits -> 0..MaxNotices]
        /\ charges \in [Deposits -> {"none", "open", "paid", "deleted"}]
    BY DEF IInv, TypeOK
  <2> QED BY <2>1, <2>2, Outside
<1> QED BY <1>1, <1>2, <1>3, <1>4, <1>5, <1>6, <1>7, <1>8, <1>9, <1>10, <1>11, <1>12, <1>13,
           <1>14, <1>15, <1>16, <1>17 DEF Next, Work

LEMMA Invariant == Spec => []IInv
BY InitIInv, NextIInv, PTL DEF Spec

\* The tables keep their types, and a player's balance, bonus and wagering requirement are
\* what his booked deposits, his redemptions and the multiplier amount to: no settlement
\* (DepositSettlementService), redeemed code or expiry adds or loses a cent, whoever runs
\* beside it.
THEOREM TablesAlwaysAgree == Spec => []TablesAgree
<1>1. IInv => TablesAgree
  BY DEF IInv, TablesAgree
<1> QED BY <1>1, Invariant, PTL

\* Notices, checks and expiries may hear of one payment in any number and order: settlePaid
\* books a deposit whose expiry does not overlap at most once, and none before the charge
\* is paid.
THEOREM CreditedAtMostOnce == Spec => []CreditedOnceApart
<1>1. IInv => CreditedOnceApart
  <2> SUFFICES ASSUME IInv, NEW d \in Deposits
               PROVE  (booked[d] > 0 => charges[d] = "paid") /\ (d \notin Overlap => booked[d] <= 1)
    BY DEF CreditedOnceApart
  <2>1. booked[d] \in Nat
    BY DEF IInv, TypeOK
  <2> QED BY <2>1 DEF IInv, BookedInv
<1> QED BY <1>1, Invariant, PTL

\* A typed code is locked from the check of max_uses to the commit, by settlements and by
\* BonusController.store alike: it is never used more often, and uses_count counts the
\* redemptions of every code and campaign.
THEOREM CodesStayWithinLimit == Spec => []CodesWithinLimit
<1>1. IInv => CodesWithinLimit
  BY DEF IInv
<1> QED BY <1>1, Invariant, PTL

-----------------------------------------------------------------------------
(* The crediting that deposits implement.                                  *)

\* One grant is worth its reward.
LEMMA OneGrant ==
  ASSUME NEW g \in Redemption  PROVE RewardOf({g}) = Reward[g.code]
<1>1. IsFiniteSet({g}) /\ {g} \subseteq Redemption
  BY FS_Singleton
<1>2. RewardOf({g}) = Sum(Worth, {g}) /\ IsIntOn(Worth, {g})
  BY <1>1, RewardIs
<1>3. Worth[g] = Reward[g.code] /\ Worth[g] \in Int
  BY <1>2 DEF Worth, IsIntOn
<1>4. Sum(Worth, {g}) = Worth[g]
  BY <1>3, SumOne
<1> QED BY <1>2, <1>3, <1>4

\* New grants of u, one of a bonus at most and of usable codes, each counted, are what
\* Crediting allows.
LEMMA GrantsAllowed ==
  ASSUME NEW u, NEW G, IsFiniteSet(G), G \cap redemptions = {}, redemptions' = redemptions \cup G,
         \A g \in G : g.user = u /\ (g.code \in Codes => Usable(g.code)),
         \A g, h \in G : g.code = h.code => g = h,
         uses' = [b \in Bonuses |-> uses[b] + Cardinality(Redeemed(G, b))]
  PROVE  Promise!Granted(u) /\ Promise!New = G
<1>1. Promise!New = G
  BY DEF Promise!New
<1>2. ASSUME NEW b \in Bonuses
      PROVE  Cardinality(Redeemed(G, b)) = IF \E g \in G : g.code = b THEN 1 ELSE 0
  <2>1. CASE \A g \in G : g.code # b
    <3>1. Cardinality(Redeemed(G, b)) = 0
      BY <2>1, CountOneAtMost
    <3> QED BY <2>1, <3>1
  <2>2. CASE \E g \in G : g.code = b
    <3>1. PICK g \in G : g.code = b
      BY <2>2
    <3>2. Redeemed(G, b) = {g}
      BY <3>1 DEF Redeemed
    <3>3. Cardinality(Redeemed(G, b)) = 1
      BY <3>2, FS_Singleton
    <3> QED BY <2>2, <3>3
  <2> QED BY <2>1, <2>2
<1>3. uses' = [b \in Bonuses |-> uses[b] + (IF \E g \in G : g.code = b THEN 1 ELSE 0)]
  BY <1>2
<1>4. \A g \in G : g.user = u /\ (g.code \in Codes => uses[g.code] < MaxUses[g.code])
  BY DEF Usable
<1> QED BY <1>1, <1>3, <1>4 DEF Promise!Granted

\* A commit is the crediting of its deposit.
LEMMA CommitSettles ==
  ASSUME IInv, NEW p \in Procs, Commit(p)  PROVE Promise!Settle(on[p])
<1> DEFINE d == on[p]
           u == UserOf[d]
           G == plan[p]
<1>1. /\ d \in Deposits /\ u \in Users /\ Committing(p)
      /\ G \cap redemptions = {} /\ redemptions' = redemptions \cup G
      /\ users' = [users EXCEPT ![u] = Credit(users[u], Amount[d], RewardOf(G))]
      /\ uses' = UsesWith(G) /\ booked' = [booked EXCEPT ![d] = booked[d] + 1]
      /\ commissions' = IF u \in Referred THEN commissions \cup {d} ELSE commissions
      /\ UNCHANGED charges
  BY DepositsAssumption DEF IInv, TypeOK, Commit
<1>2. charges[d] = "paid" /\ (booked[d] = 0 \/ d \in Overlap)
  <2>1. charges[d] = "paid" /\ deposits[d].status \in {"pending", "expired"}
    BY <1>1 DEF IInv, SettlingInv, Committing
  <2> QED BY <1>1, <2>1 DEF IInv, BookedInv
<1>3. Promise!Granted(u) /\ Promise!New = G
  <2>1. /\ IsFiniteSet(G) /\ \A g, h \in G : g.code = h.code => g = h
        /\ \A g \in G : g.user = u /\ (g.code \in Codes => Usable(g.code))
    BY DEF IInv, PlansInv
  <2>2. uses' = [b \in Bonuses |-> uses[b] + Cardinality(Redeemed(G, b))]
    BY <1>1 DEF UsesWith, Redeemed
  <2> HIDE DEF G, u
  <2> QED BY <1>1, <2>1, <2>2, GrantsAllowed
<1>4. Promise!Earned(u, Amount[d])
  BY <1>1, <1>3 DEF Promise!Earned, Credit
<1>5. commissions' = commissions \cup ({d} \cap {o \in Deposits : UserOf[o] \in Referred})
  BY <1>1
<1> QED BY <1>1, <1>2, <1>3, <1>4, <1>5 DEF Promise!Settle

\* A redeemed code is the redemption of Crediting.
LEMMA RedeemFixedCodeRedeems ==
  ASSUME IInv, NEW u \in Users, NEW code \in Codes, RedeemFixedCode(u, code)
  PROVE  Promise!Redeem(u, code)
<1>0. code \in Bonuses /\ uses \in [Bonuses -> Nat]
  BY DEF IInv, TypeOK, Bonuses
<1>1. PICK g : g = Grant(u, code, "once")
  OBVIOUS
<1>2. g \in Redemption /\ g.user = u /\ g.code = code
  BY <1>0, <1>1 DEF Grant, Redemption
<1>3. /\ redemptions' = redemptions \cup {g} /\ g \notin redemptions /\ Usable(code)
      /\ users' = [users EXCEPT ![u] = Credit(users[u], 0, Reward[code])]
      /\ uses' = [uses EXCEPT ![code] = uses[code] + 1]
      /\ UNCHANGED <<booked, commissions, charges>>
  BY <1>1 DEF RedeemFixedCode
<1>4. uses' = [b \in Bonuses |-> uses[b] + Cardinality(Redeemed({g}, b))]
  <2>1. ASSUME NEW b \in Bonuses  PROVE uses'[b] = uses[b] + Cardinality(Redeemed({g}, b))
    <3>1. CASE b = code
      <4>1. Redeemed({g}, b) = {g}
        BY <1>2, <3>1 DEF Redeemed
      <4>2. Cardinality(Redeemed({g}, b)) = 1
        BY <4>1, FS_Singleton
      <4> QED BY <1>0, <1>3, <3>1, <4>2
    <3>2. CASE b # code
      <4>1. Redeemed({g}, b) = {}
        BY <1>2, <3>2 DEF Redeemed
      <4>2. Cardinality(Redeemed({g}, b)) = 0 /\ uses[b] \in Nat
        BY <1>0, <4>1, FS_EmptySet
      <4> QED BY <1>0, <1>3, <3>2, <4>2
    <3> QED BY <3>1, <3>2
  <2>2. uses' = [b \in Bonuses |-> uses'[b]]
    BY <1>0, <1>3
  <2> QED BY <2>1, <2>2
<1>5. Promise!Granted(u) /\ Promise!New = {g}
  <2>1. PICK G : G = {g}
    OBVIOUS
  <2>2. /\ IsFiniteSet(G) /\ G \cap redemptions = {} /\ redemptions' = redemptions \cup G
        /\ \A h \in G : h.user = u /\ (h.code \in Codes => Usable(h.code))
        /\ \A h, k \in G : h.code = k.code => h = k
    BY <1>2, <1>3, <2>1, FS_Singleton
  <2>3. uses' = [b \in Bonuses |-> uses[b] + Cardinality(Redeemed(G, b))]
    BY <1>4, <2>1
  <2>4. /\ IsFiniteSet(G) /\ G \cap redemptions = {}
        /\ redemptions' = redemptions \cup G
    BY <2>2
  <2>5. \A h \in G : h.user = u /\ (h.code \in Codes => Usable(h.code))
    BY <2>2
  <2>6. \A h, k \in G : h.code = k.code => h = k
    BY <2>2
  <2>7. Promise!Granted(u) /\ Promise!New = G
    BY <2>3, <2>4, <2>5, <2>6, GrantsAllowed
  <2> QED BY <2>1, <2>7
<1>6. RewardOf({g}) = Reward[code]
  BY <1>2, OneGrant
<1>7. Promise!Earned(u, 0)
  BY <1>3, <1>5, <1>6 DEF Promise!Earned, Credit
<1> QED BY <1>2, <1>3, <1>5, <1>7 DEF Promise!Redeem

\* Notices, checks, expiries and settlements, in any interleaving, implement the crediting
\* in one piece that settlePaid's transaction is for: a commit credits its deposit, its
\* bonuses, its ledger entry and its commission together, for a paid charge and, apart from
\* overlap, once; a redeemed code is a redemption; paying is the provider's; every other step,
\* failed and aborted ones included, moves no money.
THEOREM CreditingImplemented == Spec => ImplementsCrediting
<1>1. Init => Promise!CreditingInit
  <2> SUFFICES ASSUME Init PROVE Promise!CreditingInit
    OBVIOUS
  <2>1. {d \in Deposits : charges[d] = "paid"} = {}
    BY DEF Init
  <2> QED BY <2>1 DEF Init, Promise!CreditingInit
<1>2. IInv /\ [Next]_vars => [Promise!CreditingNext]_(Promise!creditingVars)
  <2> DEFINE Shown == <<users, redemptions, uses, booked, commissions>>
             paid == {d \in Deposits : charges[d] = "paid"}
  <2> SUFFICES ASSUME IInv, [Next]_vars
               PROVE  Promise!CreditingNext \/ (UNCHANGED Shown /\ paid' = paid)
    BY DEF Promise!creditingVars
  <2>1. ASSUME NEW p \in Procs, Commit(p)  PROVE Promise!CreditingNext
    <3>1. on[p] \in Deposits
      BY DEF IInv, TypeOK
    <3> QED BY <2>1, <3>1, CommitSettles DEF Promise!CreditingNext
  <2>2. ASSUME NEW u \in Users, NEW code \in Codes, RedeemFixedCode(u, code)  PROVE Promise!CreditingNext
    BY <2>2, RedeemFixedCodeRedeems DEF Promise!CreditingNext
  <2>3. ASSUME NEW d \in Deposits, Pay(d)  PROVE Promise!CreditingNext
    <3>1. UNCHANGED Shown /\ charges' = [charges EXCEPT ![d] = "paid"] /\ charges \in [Deposits -> {"none", "open", "paid", "deleted"}]
      BY <2>3 DEF Pay, tables, IInv, TypeOK
    <3>2. paid' = paid \cup {d}
      BY <3>1
    <3>3. Promise!Charge(d)
      BY <3>1, <3>2 DEF Promise!Charge
    <3> QED BY <3>3 DEF Promise!CreditingNext
  <2>4. ASSUME NEW d \in Deposits, CreatePix(d) \/ CreatePixFails(d)  PROVE UNCHANGED Shown /\ paid' = paid
    <3>1. /\ UNCHANGED Shown /\ charges \in [Deposits -> {"none", "open", "paid", "deleted"}]
          /\ charges[d] = "none"
          /\ charges' = [charges EXCEPT ![d] = "open"] \/ charges' = [charges EXCEPT ![d] = "deleted"]
      BY <2>4 DEF CreatePix, CreatePixFails, IInv, TypeOK
    <3>2. paid' = paid
      BY <3>1
    <3> QED BY <3>1, <3>2
  <2>5. ASSUME NEW p \in Procs, DeletePayment(p)  PROVE UNCHANGED Shown /\ paid' = paid
    <3>1. /\ UNCHANGED Shown /\ charges \in [Deposits -> {"none", "open", "paid", "deleted"}]
          /\ on[p] \in Deposits
          /\ \/ charges' = charges
             \/ charges' = [charges EXCEPT ![on[p]] = IF charges[on[p]] = "open" THEN "deleted" ELSE charges[on[p]]]
      BY <2>5 DEF DeletePayment, tables, IInv, TypeOK
    <3>2. paid' = paid
      BY <3>1
    <3> QED BY <3>1, <3>2
  <2>6. ASSUME NEW d \in Deposits,
               Store(d) \/ GrowOld(d) \/ \E p \in Procs : Webhook(p, d) \/ Verify(p, d) \/ ExpireOne(p, d)
        PROVE  UNCHANGED Shown /\ paid' = paid
    <3>1. UNCHANGED Shown /\ UNCHANGED charges
      BY <2>6 DEF Store, GrowOld, Webhook, Verify, ExpireOne, tables
    <3> QED BY <3>1
  <2>7. ASSUME NEW p \in Procs, Fetch(p) \/ SettleLock(p) \/ Abort(p) \/ AskExpired(p) \/ SaveExpired(p)
        PROVE  UNCHANGED Shown /\ paid' = paid
    <3>1. UNCHANGED Shown /\ UNCHANGED charges
      BY <2>7 DEF Fetch, SettleLock, Abort, AskExpired, SaveExpired, tables
    <3> QED BY <3>1
  <2>8. CASE UNCHANGED vars
    <3>1. UNCHANGED Shown /\ UNCHANGED charges
      BY <2>8 DEF vars, tables
    <3> QED BY <3>1
  <2> QED BY <2>1, <2>2, <2>3, <2>4, <2>5, <2>6, <2>7, <2>8 DEF Next, Work
<1> QED BY <1>1, <1>2, Invariant, PTL DEF Spec, ImplementsCrediting, Promise!CreditingSpec
=============================================================================
