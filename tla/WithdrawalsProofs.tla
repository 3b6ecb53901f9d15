------------------------- MODULE WithdrawalsProofs -------------------------
(***************************************************************************)
(* Theorems about Withdrawals, for every set of players, affiliates,       *)
(* deposits and amounts and any number of hooks and confirmers, where one  *)
(* payer works at a time and the provider may refuse but does not fail.    *)
(***************************************************************************)
EXTENDS Withdrawals, SumTheorems, SequenceTheorems, TLAPS

-----------------------------------------------------------------------------
(* Values.                                                                 *)

\* The smaller of two numbers.
LEMMA SmallerOfTwo ==
  ASSUME NEW a \in Int, NEW b \in Int
  PROVE  Min({a, b}) = IF a <= b THEN a ELSE b
<1> DEFINE lo == IF a <= b THEN a ELSE b
<1>1. lo \in {a, b} /\ \A y \in {a, b} : lo <= y
  OBVIOUS
<1>2. \A x \in {a, b} : (\A y \in {a, b} : x <= y) => x = lo
  OBVIOUS
<1> HIDE DEF lo
<1>3. Min({a, b}) = lo
  BY <1>1, <1>2 DEF Min
<1> QED BY <1>3 DEF lo

\* What a payer's state may be.
LEMMA PayType ==
  ASSUME TypeOK, NEW a \in Payers
  PROVE  /\ pay[a].step \in {"idle", "call", "failed", "record"}
         /\ pay[a].step = "idle" <=> pay[a] = Idle
         /\ pay[a].step # "idle" => pay[a].w \in 1 .. MaxWithdrawals
         /\ pay[a].step = "record" => /\ pay[a].t \in 1 .. MaxTransfers
                                      /\ pay[a].status \in {"PENDING", "DONE"}
BY DEF TypeOK, Idle

\* What a hook's state may be.
LEMMA NoticeType ==
  ASSUME TypeOK, NEW h \in Hooks
  PROVE  /\ notice[h].step = "idle" <=> notice[h] = Idle
         /\ notice[h].step # "idle" => notice[h].w \in 1 .. MaxWithdrawals
         /\ notice[h].step = "link" => notice[h].t \in 1 .. MaxTransfers
<1>1. CASE notice[h] = Idle
  BY <1>1 DEF Idle
<1>2. CASE notice[h] \in [step : {"paid", "reopen"}, w : 1 .. MaxWithdrawals]
  BY <1>2 DEF Idle
<1>3. CASE notice[h] \in [step : {"link"}, w : 1 .. MaxWithdrawals,
                          t : 1 .. MaxTransfers, read : Statuses]
  BY <1>3 DEF Idle
<1> QED BY <1>1, <1>2, <1>3 DEF TypeOK

\* What a row of the two tables may be.
LEMMA RowType ==
  ASSUME TypeOK
  PROVE  /\ DOMAIN withdrawals = 1 .. Len(withdrawals)
         /\ Len(withdrawals) \in Nat
         /\ \A w \in DOMAIN withdrawals :
              /\ withdrawals[w] \in Withdrawal
              /\ Status(w) \in {"PENDING", "APPROVED", "PAID", "REJECTED"}
              /\ withdrawals[w].owner \in Players \cup Affiliates
              /\ withdrawals[w].amount \in Nat
              /\ withdrawals[w].transfer \in 0 .. MaxTransfers
              /\ withdrawals[w].booked \in 0 .. 2
         /\ DOMAIN transfers = 1 .. Len(transfers) /\ Len(transfers) \in Nat
         /\ \A t \in DOMAIN transfers :
              /\ transfers[t] \in Transfer
              /\ transfers[t].withdrawal \in 1 .. MaxWithdrawals
              /\ transfers[t].status \in {"PENDING", "DONE", "FAILED"}
<1>1. withdrawals \in Seq(Withdrawal) /\ transfers \in Seq(Transfer)
  BY DEF TypeOK
<1>2. /\ \A w \in DOMAIN withdrawals : withdrawals[w] \in Withdrawal
      /\ \A t \in DOMAIN transfers : transfers[t] \in Transfer
  BY <1>1
<1> QED BY <1>1, <1>2, LenProperties DEF Withdrawal, Transfer, Status, Statuses

\* What a deposit's commission may be.
LEMMA CommissionType ==
  ASSUME TypeOK, NEW d \in Deposits
  PROVE  /\ commissions[d].status \in
              {"UNPAID", "NONE", "OPEN", "RESERVED", "PAID"}
         /\ commissions[d].withdrawal \in 0 .. MaxWithdrawals
         /\ commissions[d] = [status |-> commissions[d].status,
                              withdrawal |-> commissions[d].withdrawal]
BY DEF TypeOK

\* The commissions on any deposits come to an amount.
LEMMA CommissionOnType ==
  ASSUME NEW D \in SUBSET Deposits
  PROVE  CommissionOn(D) \in Nat
<1> DEFINE f == [d \in D |-> Commission[d]]
<1>1. IsFiniteSet(D) /\ \A d \in D : f[d] \in Nat
  BY WithdrawalsAssumption, FS_Subset
<1>2. SumFunction(f) = Sum(f, D)
  BY DEF SumFunction, Sum
<1> HIDE DEF f
<1>3. Sum(f, D) \in Nat
  BY <1>1, SumNat
<1> QED BY <1>2, <1>3 DEF CommissionOn, f

-----------------------------------------------------------------------------
(* Money held.                                                             *)

Live == {"PENDING", "APPROVED", "PAID"}

\* A player's withdrawals that are not rejected, their amounts, and the sum.
HeldIn(ws, p) == {w \in DOMAIN ws : ws[w].owner = p /\ ws[w].status \in Live}
AmountIn(ws) == [w \in DOMAIN ws |-> ws[w].amount]
HeldSum(ws, p) == Sum(AmountIn(ws), HeldIn(ws, p))

\* The sum is one of finitely many amounts.
LEMMA HeldSums ==
  ASSUME NEW ws \in Seq(Withdrawal), NEW p
  PROVE  /\ IsFiniteSet(HeldIn(ws, p)) /\ HeldIn(ws, p) \subseteq DOMAIN ws
         /\ \A w \in DOMAIN ws : AmountIn(ws)[w] = ws[w].amount
                                 /\ ws[w].amount \in Nat
         /\ IsIntOn(AmountIn(ws), HeldIn(ws, p))
         /\ HeldSum(ws, p) \in Nat
<1>1. DOMAIN ws = 1 .. Len(ws) /\ Len(ws) \in Nat
  BY LenProperties
<1>2. IsFiniteSet(DOMAIN ws)
  BY <1>1, FS_Interval
<1>3. IsFiniteSet(HeldIn(ws, p)) /\ HeldIn(ws, p) \subseteq DOMAIN ws
  <2>1. HeldIn(ws, p) \subseteq DOMAIN ws
    BY DEF HeldIn
  <2> QED BY <1>2, <2>1, FS_Subset
<1>4. \A w \in DOMAIN ws : ws[w] \in Withdrawal
  OBVIOUS
<1>5. \A w \in DOMAIN ws : AmountIn(ws)[w] = ws[w].amount
                           /\ ws[w].amount \in Nat
  BY <1>4 DEF Withdrawal, AmountIn
<1>6. \A w \in HeldIn(ws, p) : AmountIn(ws)[w] \in Nat
  BY <1>3, <1>5
<1>7. IsIntOn(AmountIn(ws), HeldIn(ws, p))
  BY <1>6 DEF IsIntOn
<1>8. HeldSum(ws, p) \in Nat
  BY <1>3, <1>6, SumNat DEF HeldSum
<1> QED BY <1>3, <1>5, <1>7, <1>8

\* It is the sum that the invariant is about.
LEMMA HeldAsSum ==
  ASSUME NEW ws \in Seq(Withdrawal), NEW p
  PROVE  SumFunction([w \in HeldIn(ws, p) |-> ws[w].amount]) = HeldSum(ws, p)
<1> DEFINE f == [w \in HeldIn(ws, p) |-> ws[w].amount]
<1>1. SumFunction(f) = Sum(f, HeldIn(ws, p))
  BY DEF SumFunction, Sum
<1>2. \A w \in HeldIn(ws, p) : f[w] = AmountIn(ws)[w]
  BY DEF HeldIn, AmountIn
<1>3. IsFiniteSet(HeldIn(ws, p)) /\ IsIntOn(AmountIn(ws), HeldIn(ws, p))
  BY HeldSums
<1> HIDE DEF f
<1>4. Sum(f, HeldIn(ws, p)) = Sum(AmountIn(ws), HeldIn(ws, p))
  BY <1>2, <1>3, SumCongruence
<1> QED BY <1>1, <1>4 DEF f, HeldSum

\* The invariant about balances, before and after a step.
LEMMA HeldByPlayer ==
  /\ withdrawals \in Seq(Withdrawal) =>
       (HeldOrReturned <=>
          \A p \in Players : balance[p] + HeldSum(withdrawals, p) = Opening[p])
  /\ withdrawals' \in Seq(Withdrawal) =>
       (HeldOrReturned' <=>
          \A p \in Players :
            balance'[p] + HeldSum(withdrawals', p) = Opening[p])
<1>1. ASSUME withdrawals \in Seq(Withdrawal), NEW p
      PROVE  SumOf(WithdrawalsOf(p, Live)) = HeldSum(withdrawals, p)
  <2>1. SumFunction([w \in HeldIn(withdrawals, p) |-> withdrawals[w].amount])
          = HeldSum(withdrawals, p)
    BY <1>1, HeldAsSum
  <2> QED BY <2>1 DEF SumOf, WithdrawalsOf, HeldIn, AmountOf
<1>2. ASSUME withdrawals' \in Seq(Withdrawal), NEW p
      PROVE  SumOf(WithdrawalsOf(p, Live))' = HeldSum(withdrawals', p)
  <2>1. SumFunction([w \in HeldIn(withdrawals', p) |-> withdrawals'[w].amount])
          = HeldSum(withdrawals', p)
    BY <1>2, HeldAsSum
  <2> QED BY <2>1 DEF SumOf, WithdrawalsOf, HeldIn, AmountOf, Live
<1> QED BY <1>1, <1>2 DEF HeldOrReturned, Live

-----------------------------------------------------------------------------
(* Rows.                                                                   *)

\* The row of w with another status, transfer and number of ledger rows.
RowOf(w, status, transfer, booked) ==
  [owner |-> withdrawals[w].owner, amount |-> withdrawals[w].amount,
   status |-> status, transfer |-> transfer, booked |-> booked]

RowWritten(w, status, transfer, booked) ==
  withdrawals' = [withdrawals EXCEPT ![w] =
                    RowOf(w, status, transfer, booked)]

\* A step writes the row of w and no other, and keeps its owner and amount.
RowBecomes(w, status, transfer, booked) ==
  /\ withdrawals' \in Seq(Withdrawal)
  /\ Len(withdrawals') = Len(withdrawals)
  /\ DOMAIN withdrawals' = DOMAIN withdrawals
  /\ \A v \in DOMAIN withdrawals :
       /\ withdrawals'[v].owner = withdrawals[v].owner
       /\ withdrawals'[v].amount = withdrawals[v].amount
       /\ v # w => withdrawals'[v] = withdrawals[v]
  /\ withdrawals'[w].status = status
  /\ withdrawals'[w].transfer = transfer
  /\ withdrawals'[w].booked = booked

\* The table after such a step.
LEMMA RowKept ==
  ASSUME TypeOK, NEW w \in DOMAIN withdrawals,
         NEW s, s \in {"PENDING", "APPROVED", "PAID", "REJECTED"},
         NEW t, t \in 0 .. MaxTransfers, NEW b, b \in 0 .. 2,
         RowWritten(w, s, t, b)
  PROVE  RowBecomes(w, s, t, b)
<1> DEFINE r == RowOf(w, s, t, b)
           f == [withdrawals EXCEPT ![w] = r]
<1>1. /\ DOMAIN withdrawals = 1 .. Len(withdrawals) /\ Len(withdrawals) \in Nat
      /\ withdrawals \in [1 .. Len(withdrawals) -> Withdrawal]
  BY LenProperties DEF TypeOK
<1>2. /\ r \in Withdrawal
      /\ r.owner = withdrawals[w].owner /\ r.amount = withdrawals[w].amount
      /\ r.status = s /\ r.transfer = t /\ r.booked = b
  BY RowType DEF Withdrawal, RowOf, Statuses
<1> HIDE DEF r
<1>3. f \in [1 .. Len(withdrawals) -> Withdrawal]
  BY <1>1, <1>2
<1>4. f \in Seq(Withdrawal) /\ DOMAIN f = 1 .. Len(withdrawals)
  BY <1>1, <1>3, SeqDef
<1>5. Len(f) = Len(withdrawals)
  <2>1. DOMAIN f = 1 .. Len(f) /\ Len(f) \in Nat
    BY <1>4, LenProperties
  <2> HIDE DEF f
  <2> QED BY <1>1, <1>4, <2>1
<1>6. /\ f[w] = r
      /\ \A v \in DOMAIN withdrawals : v # w => f[v] = withdrawals[v]
  BY <1>1
<1>7. withdrawals' = f
  BY DEF RowWritten, r
<1> HIDE DEF f
<1> QED BY <1>1, <1>2, <1>4, <1>5, <1>6, <1>7 DEF RowBecomes

\* A row is its fields.
LEMMA RowIsFields ==
  ASSUME TypeOK, NEW w \in DOMAIN withdrawals
  PROVE  withdrawals[w] = RowOf(w, Status(w), withdrawals[w].transfer,
                                withdrawals[w].booked)
<1>1. withdrawals[w] \in Withdrawal
  BY RowType
<1> QED BY <1>1 DEF Withdrawal, RowOf, Status

\* A status is written (reject, payViaPix and its failure).
LEMMA StatusRow ==
  ASSUME TypeOK, NEW w \in DOMAIN withdrawals,
         NEW status \in {"PENDING", "APPROVED", "PAID", "REJECTED"},
         SetStatus(w, status)
  PROVE  RowBecomes(w, status, withdrawals[w].transfer, withdrawals[w].booked)
<1> DEFINE t == withdrawals[w].transfer
           b == withdrawals[w].booked
<1>1. [withdrawals[w] EXCEPT !.status = status] = RowOf(w, status, t, b)
  BY RowIsFields DEF RowOf
<1>2. RowWritten(w, status, t, b)
  BY <1>1 DEF RowWritten, SetStatus
<1>3. t \in 0 .. MaxTransfers /\ b \in 0 .. 2
  BY RowType
<1> HIDE DEF t, b
<1>4. RowBecomes(w, status, t, b)
  BY <1>2, <1>3, RowKept
<1> QED BY <1>4 DEF t, b

\* A withdrawal without a ledger row is paid and gets one (markPaid).
LEMMA PaidRow ==
  ASSUME TypeOK, NEW w \in DOMAIN withdrawals, withdrawals[w].booked = 0,
         withdrawals' = Paid(withdrawals, w)
  PROVE  RowBecomes(w, "PAID", withdrawals[w].transfer, 1)
<1> DEFINE t == withdrawals[w].transfer
<1>1. Min({withdrawals[w].booked + 1, 2}) = 1
  BY SmallerOfTwo
<1>2. [withdrawals[w] EXCEPT !.status = "PAID", !.booked = 1]
        = RowOf(w, "PAID", t, 1)
  <2> DEFINE r == [withdrawals[w] EXCEPT !.status = "PAID"]
  <2>1. r = RowOf(w, "PAID", t, 0)
    BY RowIsFields DEF RowOf
  <2> HIDE DEF r
  <2>2. [r EXCEPT !.booked = 1] = RowOf(w, "PAID", t, 1)
    BY <2>1 DEF RowOf
  <2> QED BY <2>2 DEF r
<1>3. Paid(withdrawals, w) =
        [withdrawals EXCEPT ![w] = [withdrawals[w] EXCEPT !.status = "PAID",
                                                          !.booked = 1]]
  BY <1>1 DEF Paid
<1>4. RowWritten(w, "PAID", t, 1)
  BY <1>2, <1>3 DEF RowWritten
<1>5. t \in 0 .. MaxTransfers
  BY RowType
<1> HIDE DEF t
<1>6. RowBecomes(w, "PAID", t, 1)
  BY <1>4, <1>5, RowKept
<1> QED BY <1>6 DEF t

\* The payer records its transfer, which may be done already.
LEMMA RecordedRow ==
  ASSUME TypeOK, NEW w \in DOMAIN withdrawals, withdrawals[w].booked = 0,
         NEW t \in 1 .. MaxTransfers,
         NEW approved, approved = [withdrawals EXCEPT
                                     ![w].status = "APPROVED",
                                     ![w].transfer = t]
  PROVE  /\ withdrawals' = approved => RowBecomes(w, "APPROVED", t, 0)
         /\ withdrawals' = Paid(approved, w) => RowBecomes(w, "PAID", t, 1)
<1> DEFINE r == RowOf(w, "APPROVED", t, 0)
           q == RowOf(w, "PAID", t, 1)
<1>1. t \in 0 .. MaxTransfers
  BY WithdrawalsAssumption
<1>2. [withdrawals[w] EXCEPT !.status = "APPROVED", !.transfer = t] = r
  <2> DEFINE o == [withdrawals[w] EXCEPT !.status = "APPROVED"]
  <2>1. o = RowOf(w, "APPROVED", withdrawals[w].transfer, 0)
    BY RowIsFields DEF RowOf
  <2> HIDE DEF o
  <2>2. [o EXCEPT !.transfer = t] = RowOf(w, "APPROVED", t, 0)
    BY <2>1 DEF RowOf
  <2> QED BY <2>2 DEF o
<1>3. approved = [withdrawals EXCEPT ![w] = r]
  BY <1>2
<1>4. Paid(approved, w) = [withdrawals EXCEPT ![w] = q]
  <2>1. approved[w] = r
    BY <1>3
  <2>2. r.booked = 0
    BY DEF RowOf
  <2>3. Min({approved[w].booked + 1, 2}) = 1
    <3>1. Min({0 + 1, 2}) = 1
      BY SmallerOfTwo
    <3>2. approved[w].booked = 0
      BY <2>1, <2>2
    <3> QED BY <3>1, <3>2
  <2>4. [r EXCEPT !.status = "PAID", !.booked = 1] = q
    <3> DEFINE o == [r EXCEPT !.status = "PAID"]
    <3>1. o = RowOf(w, "PAID", t, 0)
      BY DEF RowOf
    <3> HIDE DEF o
    <3>2. [o EXCEPT !.booked = 1] = RowOf(w, "PAID", t, 1)
      BY <3>1 DEF RowOf
    <3> QED BY <3>2 DEF o
  <2> HIDE DEF r, q
  <2>5. Paid(approved, w) = [approved EXCEPT ![w] = [r EXCEPT !.status = "PAID",
                                                              !.booked = 1]]
    BY <1>3, <2>1, <2>3 DEF Paid
  <2> QED BY <1>3, <2>4, <2>5
<1>5. ASSUME withdrawals' = approved PROVE RowBecomes(w, "APPROVED", t, 0)
  <2>1. RowWritten(w, "APPROVED", t, 0)
    BY <1>3, <1>5 DEF RowWritten
  <2> QED BY <1>1, <2>1, RowKept
<1>6. ASSUME withdrawals' = Paid(approved, w) PROVE RowBecomes(w, "PAID", t, 1)
  <2>1. RowWritten(w, "PAID", t, 1)
    BY <1>4, <1>6 DEF RowWritten
  <2> QED BY <1>1, <2>1, RowKept
<1> QED BY <1>5, <1>6

\* The provider's question links a transfer to its withdrawal.
LEMMA LinkedRow ==
  ASSUME TypeOK, NEW w \in DOMAIN withdrawals, NEW t \in 1 .. MaxTransfers,
         withdrawals' = [withdrawals EXCEPT ![w].transfer = t]
  PROVE  RowBecomes(w, Status(w), t, withdrawals[w].booked)
<1> DEFINE s == Status(w)
           b == withdrawals[w].booked
<1>1. [withdrawals[w] EXCEPT !.transfer = t] = RowOf(w, s, t, b)
  BY RowIsFields DEF RowOf
<1>2. RowWritten(w, s, t, b)
  BY <1>1 DEF RowWritten
<1>3. /\ s \in {"PENDING", "APPROVED", "PAID", "REJECTED"} /\ b \in 0 .. 2
      /\ t \in 0 .. MaxTransfers
  BY RowType, WithdrawalsAssumption
<1> HIDE DEF s, b
<1>4. RowBecomes(w, s, t, b)
  BY <1>2, <1>3, RowKept
<1> QED BY <1>4 DEF s, b

\* The rows are the same.
LEMMA RowsUnchanged ==
  ASSUME TypeOK, withdrawals' = withdrawals, NEW w \in DOMAIN withdrawals
  PROVE  RowBecomes(w, Status(w), withdrawals[w].transfer,
                    withdrawals[w].booked)
BY DEF RowBecomes, TypeOK, Status

-----------------------------------------------------------------------------
(* What changes in the rows preserve.                                      *)

\* As long as a withdrawal that counts stays one that counts, what is held
\* does not change.
LEMMA HeldKept ==
  ASSUME TypeOK, HeldOrReturned, balance' = balance,
         NEW w \in DOMAIN withdrawals, Status(w) \in Live,
         NEW s \in Live, NEW t, NEW b, RowBecomes(w, s, t, b)
  PROVE  HeldOrReturned'
<1>1. withdrawals \in Seq(Withdrawal) /\ withdrawals' \in Seq(Withdrawal)
  BY DEF TypeOK, RowBecomes
<1>2. ASSUME NEW p \in Players
      PROVE  HeldSum(withdrawals', p) = HeldSum(withdrawals, p)
  <2>1. HeldIn(withdrawals', p) = HeldIn(withdrawals, p)
    BY DEF HeldIn, RowBecomes, Status
  <2>2. AmountIn(withdrawals') = AmountIn(withdrawals)
    BY DEF AmountIn, RowBecomes
  <2> QED BY <2>1, <2>2 DEF HeldSum
<1> QED BY <1>1, <1>2, HeldByPlayer

\* A rejected withdrawal goes back to its player.
LEMMA HeldReturned ==
  ASSUME TypeOK, HeldOrReturned,
         NEW w \in DOMAIN withdrawals, Status(w) \in Live, Refund(w),
         NEW t, NEW b, RowBecomes(w, "REJECTED", t, b)
  PROVE  balance' \in [Players -> Nat] /\ HeldOrReturned'
<1>1. withdrawals \in Seq(Withdrawal) /\ withdrawals' \in Seq(Withdrawal)
  BY DEF TypeOK, RowBecomes
<1>2. /\ withdrawals[w].owner \in Players \cup Affiliates
      /\ withdrawals[w].amount \in Nat
  BY RowType
<1>3. AmountIn(withdrawals') = AmountIn(withdrawals)
  BY DEF AmountIn, RowBecomes
<1>4. \A p : HeldIn(withdrawals', p) = HeldIn(withdrawals, p) \ {w}
  <2>1. ASSUME NEW p, NEW v \in DOMAIN withdrawals
        PROVE  v \in HeldIn(withdrawals', p) <=>
                 v \in HeldIn(withdrawals, p) \ {w}
    <3>1. CASE v = w
      BY <3>1 DEF HeldIn, RowBecomes, Live
    <3>2. CASE v # w
      BY <3>2 DEF HeldIn, RowBecomes
    <3> QED BY <3>1, <3>2
  <2>2. \A p : /\ HeldIn(withdrawals', p) \subseteq DOMAIN withdrawals
              /\ HeldIn(withdrawals, p) \subseteq DOMAIN withdrawals
    BY DEF HeldIn, RowBecomes
  <2> QED BY <2>1, <2>2
<1>5. \A p : withdrawals[w].owner # p =>
               HeldSum(withdrawals', p) = HeldSum(withdrawals, p)
  <2>1. \A p : withdrawals[w].owner # p => w \notin HeldIn(withdrawals, p)
    BY DEF HeldIn
  <2>2. \A p : withdrawals[w].owner # p =>
                 HeldIn(withdrawals', p) = HeldIn(withdrawals, p)
    BY <1>4, <2>1
  <2> QED BY <1>3, <2>2 DEF HeldSum
<1> DEFINE p == withdrawals[w].owner
<1>6. HeldSum(withdrawals, p) = HeldSum(withdrawals', p) + withdrawals[w].amount
  <2> DEFINE f == AmountIn(withdrawals)
             S == HeldIn(withdrawals, p)
  <2>1. w \in S /\ f[w] = withdrawals[w].amount
    BY DEF HeldIn, AmountIn, Status
  <2>2. IsFiniteSet(S) /\ IsIntOn(f, S)
    BY <1>1, HeldSums
  <2>3. HeldSum(withdrawals', p) = Sum(f, S \ {w})
    BY <1>3, <1>4 DEF HeldSum
  <2>4. HeldSum(withdrawals, p) = Sum(f, S)
    BY DEF HeldSum
  <2> HIDE DEF f, S, p
  <2>5. Sum(f, S) = Sum(f, S \ {w}) + f[w]
    BY <2>1, <2>2, SumRemove
  <2> QED BY <2>1, <2>3, <2>4, <2>5
<1>7. /\ \A q \in Players :
           /\ balance[q] \in Nat /\ Opening[q] \in 0 .. MaxBalance
           /\ balance[q] + HeldSum(withdrawals, q) = Opening[q]
      /\ \A q : /\ HeldSum(withdrawals, q) \in Nat
                /\ HeldSum(withdrawals', q) \in Nat
      /\ MaxBalance \in Nat
  BY <1>1, HeldByPlayer, HeldSums, WithdrawalsAssumption DEF TypeOK
<1>8. CASE IsCommission(w)
  <2>1. balance' = balance
    BY <1>8 DEF Refund
  <2>2. \A q \in Players : withdrawals[w].owner # q
    BY <1>8, WithdrawalsAssumption DEF IsCommission
  <2>3. \A q \in Players : balance'[q] + HeldSum(withdrawals', q) = Opening[q]
    BY <1>5, <1>7, <2>1, <2>2
  <2> QED BY <1>1, <2>1, <2>3, HeldByPlayer DEF TypeOK
<1>9. CASE ~IsCommission(w)
  <2>1. p \in Players
    BY <1>2, <1>9 DEF IsCommission
  <2> DEFINE x == balance[p] + withdrawals[w].amount
  <2>2. x \in Nat /\ x <= MaxBalance /\ x + HeldSum(withdrawals', p) = Opening[p]
    <3> HIDE DEF p
    <3>1. withdrawals[w].amount \in Nat /\ balance[p] \in Nat
      BY <1>2, <1>7, <2>1
    <3> QED BY <1>6, <1>7, <2>1, <3>1
  <2>3. Min({x, MaxBalance}) = x
    <3> HIDE DEF x
    <3> QED BY <1>7, <2>2, SmallerOfTwo
  <2>4. balance' = [balance EXCEPT ![p] = x]
    BY <1>9, <2>3 DEF Refund
  <2> HIDE DEF x, p
  <2>5. /\ balance' \in [Players -> Nat] /\ balance'[p] = x
        /\ \A q \in Players : q # p => balance'[q] = balance[q]
    BY <2>1, <2>2, <2>4 DEF TypeOK
  <2>6. \A q \in Players : q # p =>
          balance'[q] + HeldSum(withdrawals', q) = Opening[q]
    BY <1>5, <1>7, <2>5 DEF p
  <2>7. \A q \in Players : balance'[q] + HeldSum(withdrawals', q) = Opening[q]
    BY <2>2, <2>5, <2>6
  <2> QED BY <1>1, <2>5, <2>7, HeldByPlayer
<1> QED BY <1>8, <1>9

\* The commissions that a withdrawal is for: those that point to it.
LEMMA MovedTo ==
  ASSUME TypeOK, NEW D \in SUBSET Deposits,
         NEW s \in {"OPEN", "RESERVED", "PAID"}, NEW w \in 0 .. MaxWithdrawals,
         commissions' = Moved(D, s, w)
  PROVE  /\ commissions' \in
              [Deposits -> [status : {"UNPAID", "NONE", "OPEN", "RESERVED",
                                      "PAID"},
                            withdrawal : 0 .. MaxWithdrawals]]
         /\ \A d \in D : /\ commissions'[d].status = s
                         /\ commissions'[d].withdrawal = w
         /\ \A d \in Deposits \ D : commissions'[d] = commissions[d]
BY DEF TypeOK, Moved

\* Commissions do not mind whether their withdrawal is pending or approved.
LEMMA CommissionsKept ==
  ASSUME TypeOK, CommissionsFollowWithdrawal, TablesInv,
         NEW w \in DOMAIN withdrawals, NEW s, NEW t, NEW b,
         RowBecomes(w, s, t, b), commissions' = commissions,
         \/ s = Status(w)
         \/ {Status(w), s} \subseteq {"PENDING", "APPROVED"}
  PROVE  CommissionsFollowWithdrawal'
<1>1. ASSUME NEW d \in Deposits
      PROVE  LET c == commissions'[d].status  v == commissions'[d].withdrawal
             IN  /\ (c \in {"UNPAID", "NONE", "OPEN"}) <=> (v = 0)
                 /\ c = "RESERVED" => withdrawals'[v].status \in {"PENDING", "APPROVED"}
                 /\ c = "PAID" => withdrawals'[v].status = "PAID"
  <2>1. /\ commissions[d].status \in {"RESERVED", "PAID"} =>
             commissions[d].withdrawal \in DOMAIN withdrawals
        /\ \A v \in DOMAIN withdrawals :
             v # w => withdrawals'[v].status = Status(v)
        /\ withdrawals'[w].status = s
    BY DEF CommissionsFollowWithdrawal, TablesInv, RowBecomes, Status
  <2> QED BY <2>1 DEF CommissionsFollowWithdrawal, Status
<1>2. ASSUME NEW v \in DOMAIN withdrawals, Status(v) # "REJECTED"
      PROVE  IsCommission(v) =>
               AmountOf(v) = CommissionOn({d \in Deposits :
                                             commissions[d].withdrawal = v})
  BY <1>2 DEF CommissionsFollowWithdrawal
<1>3. \A v \in DOMAIN withdrawals :
        /\ withdrawals'[v].owner = withdrawals[v].owner
        /\ withdrawals'[v].amount = withdrawals[v].amount
        /\ withdrawals'[v].status # "REJECTED" => Status(v) # "REJECTED"
  BY DEF RowBecomes, IsCommission, AmountOf, Status
<1>4. DOMAIN withdrawals' = DOMAIN withdrawals
  BY DEF RowBecomes
<1> QED BY <1>1, <1>2, <1>3, <1>4 DEF CommissionsFollowWithdrawal,
    Status, IsCommission, AmountOf

\* The commissions of a withdrawal are paid with it.
LEMMA CommissionsPaid ==
  ASSUME TypeOK, CommissionsFollowWithdrawal, TablesInv,
         NEW w \in DOMAIN withdrawals, NEW t, NEW b,
         RowBecomes(w, "PAID", t, b), Status(w) \in {"PENDING", "APPROVED"},
         commissions' = Moved(ReservedBy(w), "PAID", w)
  PROVE  /\ commissions' \in
              [Deposits -> [status : {"UNPAID", "NONE", "OPEN", "RESERVED",
                                      "PAID"},
                            withdrawal : 0 .. MaxWithdrawals]]
         /\ CommissionsFollowWithdrawal'
         /\ \A d \in Deposits :
              commissions'[d].withdrawal = commissions[d].withdrawal
<1> DEFINE D == ReservedBy(w)
<1>1. w \in 0 .. MaxWithdrawals /\ w # 0
  BY RowType, WithdrawalsAssumption DEF TablesInv
<1>2. /\ D \in SUBSET Deposits
      /\ \A d \in Deposits : d \in D <=> /\ commissions[d].withdrawal = w
                                        /\ commissions[d].status = "RESERVED"
  BY DEF ReservedBy
<1> HIDE DEF D
<1>3. /\ commissions' \in
           [Deposits -> [status : {"UNPAID", "NONE", "OPEN", "RESERVED",
                                   "PAID"},
                         withdrawal : 0 .. MaxWithdrawals]]
      /\ \A d \in D : /\ commissions'[d].status = "PAID"
                      /\ commissions'[d].withdrawal = w
      /\ \A d \in Deposits \ D : commissions'[d] = commissions[d]
  BY <1>1, <1>2, MovedTo DEF D
<1>4. /\ \A d \in Deposits :
           commissions'[d].withdrawal = commissions[d].withdrawal
      /\ \A d \in Deposits : commissions[d].status \in
           {"UNPAID", "NONE", "OPEN", "RESERVED", "PAID"}
  BY <1>2, <1>3, CommissionType
<1>5. ASSUME NEW d \in Deposits
      PROVE  LET c == commissions'[d].status  v == commissions'[d].withdrawal
             IN  /\ (c \in {"UNPAID", "NONE", "OPEN"}) <=> (v = 0)
                 /\ c = "RESERVED" => withdrawals'[v].status \in {"PENDING", "APPROVED"}
                 /\ c = "PAID" => withdrawals'[v].status = "PAID"
  <2>1. CASE d \in D
    BY <1>1, <1>3, <2>1 DEF RowBecomes, Status
  <2>2. CASE d \notin D
    <3>1. /\ commissions[d].status \in {"RESERVED", "PAID"} =>
               commissions[d].withdrawal \in DOMAIN withdrawals
          /\ \A v \in DOMAIN withdrawals :
               v # w => withdrawals'[v].status = Status(v)
          /\ withdrawals'[w].status = "PAID"
      BY <1>4 DEF CommissionsFollowWithdrawal, TablesInv, RowBecomes, Status
    <3>2. commissions[d].status = "RESERVED" => commissions[d].withdrawal # w
      BY <1>2, <2>2
    <3> QED BY <1>3, <2>2, <3>1, <3>2 DEF CommissionsFollowWithdrawal, Status
  <2> QED BY <2>1, <2>2
<1>6. ASSUME NEW v \in DOMAIN withdrawals
      PROVE  /\ withdrawals'[v].owner = withdrawals[v].owner
             /\ withdrawals'[v].amount = withdrawals[v].amount
             /\ withdrawals'[v].status # "REJECTED" => Status(v) # "REJECTED"
             /\ {d \in Deposits : commissions'[d].withdrawal = v}
                  = {d \in Deposits : commissions[d].withdrawal = v}
  BY <1>4 DEF RowBecomes, IsCommission, AmountOf, Status
<1>7. DOMAIN withdrawals' = DOMAIN withdrawals
      /\ Len(withdrawals') = Len(withdrawals)
  BY DEF RowBecomes
<1>8. CommissionsFollowWithdrawal'
  BY <1>5, <1>6, <1>7 DEF CommissionsFollowWithdrawal,
    Status, IsCommission, AmountOf
<1> QED BY <1>3, <1>4, <1>7, <1>8

\* The commissions of a rejected withdrawal are open again.
LEMMA CommissionsReleased ==
  ASSUME TypeOK, CommissionsFollowWithdrawal, TablesInv,
         NEW w \in DOMAIN withdrawals, NEW t, NEW b,
         RowBecomes(w, "REJECTED", t, b), Status(w) = "PENDING",
         commissions' = Moved(ReservedBy(w), "OPEN", 0)
  PROVE  /\ commissions' \in
              [Deposits -> [status : {"UNPAID", "NONE", "OPEN", "RESERVED",
                                      "PAID"},
                            withdrawal : 0 .. MaxWithdrawals]]
         /\ CommissionsFollowWithdrawal' 
         /\ \A d \in Deposits : 
              \/ commissions'[d].withdrawal = 0
              \/ commissions'[d].withdrawal = commissions[d].withdrawal
<1> DEFINE D == ReservedBy(w)
<1>1. w # 0 /\ 0 \in 0 .. MaxWithdrawals
  BY RowType, WithdrawalsAssumption
<1>2. /\ D \in SUBSET Deposits
      /\ \A d \in Deposits : d \in D <=> /\ commissions[d].withdrawal = w
                                        /\ commissions[d].status = "RESERVED"
  BY DEF ReservedBy
<1> HIDE DEF D
<1>3. /\ commissions' \in
           [Deposits -> [status : {"UNPAID", "NONE", "OPEN", "RESERVED",
                                   "PAID"},
                         withdrawal : 0 .. MaxWithdrawals]]
      /\ \A d \in D : /\ commissions'[d].status = "OPEN"
                      /\ commissions'[d].withdrawal = 0
      /\ \A d \in Deposits \ D : commissions'[d] = commissions[d]
  BY <1>1, <1>2, MovedTo DEF D
<1>4. \A d \in Deposits : commissions[d].status \in
           {"UNPAID", "NONE", "OPEN", "RESERVED", "PAID"}
  BY CommissionType
<1>5. ASSUME NEW d \in Deposits
      PROVE  LET c == commissions'[d].status  v == commissions'[d].withdrawal
             IN  /\ (c \in {"UNPAID", "NONE", "OPEN"}) <=> (v = 0)
                 /\ c = "RESERVED" => withdrawals'[v].status \in {"PENDING", "APPROVED"}
                 /\ c = "PAID" => withdrawals'[v].status = "PAID"
  <2>1. CASE d \in D
    BY <1>3, <2>1
  <2>2. CASE d \notin D
    <3>1. /\ commissions[d].status \in {"RESERVED", "PAID"} =>
               commissions[d].withdrawal \in DOMAIN withdrawals
          /\ \A v \in DOMAIN withdrawals :
               v # w => withdrawals'[v].status = Status(v)
      BY <1>4 DEF CommissionsFollowWithdrawal, TablesInv, RowBecomes, Status
    <3>2. commissions[d].status \in {"RESERVED", "PAID"} =>
            commissions[d].withdrawal # w
      BY <1>2, <2>2 DEF CommissionsFollowWithdrawal
    <3> QED BY <1>3, <2>2, <3>1, <3>2 DEF CommissionsFollowWithdrawal, Status
  <2> QED BY <2>1, <2>2
<1>6. ASSUME NEW v \in DOMAIN withdrawals, withdrawals'[v].status # "REJECTED"
      PROVE  /\ v # w
             /\ withdrawals'[v].owner = withdrawals[v].owner
             /\ withdrawals'[v].amount = withdrawals[v].amount
             /\ Status(v) # "REJECTED"
             /\ {d \in Deposits : commissions'[d].withdrawal = v}
                  = {d \in Deposits : commissions[d].withdrawal = v}
  <2>1. v # w /\ v # 0
    BY <1>6, RowType DEF RowBecomes, Status
  <2>2. \A d \in Deposits : commissions'[d].withdrawal = v
                             <=> commissions[d].withdrawal = v
    BY <1>2, <1>3, <2>1
  <2> QED BY <1>6, <2>1, <2>2 DEF RowBecomes, IsCommission, AmountOf, Status
<1>7. DOMAIN withdrawals' = DOMAIN withdrawals
  BY DEF RowBecomes
<1>8. CommissionsFollowWithdrawal'
  BY <1>5, <1>6, <1>7 DEF CommissionsFollowWithdrawal,
    Status, IsCommission, AmountOf
<1> QED BY <1>2, <1>3, <1>8

-----------------------------------------------------------------------------
(* Transfers, payments and notices.                                        *)

\* No transfer is created, fails or changes its withdrawal.
TransfersLast ==
  /\ transfers' \in Seq(Transfer) /\ Len(transfers') = Len(transfers)
  /\ DOMAIN transfers' = DOMAIN transfers
  /\ \A u \in DOMAIN transfers :
       /\ transfers'[u].withdrawal = transfers[u].withdrawal
       /\ transfers'[u].status # "FAILED"

\* So it is when no transfer is written.
LEMMA TransfersUnchanged ==
  ASSUME TypeOK, TransfersInv, transfers' = transfers
  PROVE  TransfersLast
BY DEF TypeOK, TransfersInv, TransfersLast

\* A withdrawal that has a transfer stays approved or paid and linked to it.
LEMMA TransfersKept ==
  ASSUME TypeOK, TransfersInv, TransfersLast,
         NEW w \in DOMAIN withdrawals, NEW s, NEW t, NEW b,
         RowBecomes(w, s, t, b),
         (\E u \in DOMAIN transfers : transfers[u].withdrawal = w) =>
           s \in {"APPROVED", "PAID"},
         \/ t = withdrawals[w].transfer
         \/ t \in DOMAIN transfers /\ transfers[t].withdrawal = w,
         \A u \in DOMAIN transfers :
           Unrecorded(u) => \/ Unrecorded(u)'
                            \/ transfers[u].withdrawal = w /\ t = u
  PROVE  TransfersInv'
<1>1. ASSUME NEW u \in DOMAIN transfers
      PROVE  LET v == transfers'[u].withdrawal
             IN  /\ v \in DOMAIN withdrawals'
                 /\ transfers'[u].status # "FAILED"
                 /\ withdrawals'[v].status \in {"APPROVED", "PAID"}
                 /\ Unrecorded(u)' \/ withdrawals'[v].transfer = u
  <2> DEFINE v == transfers[u].withdrawal
  <2>1. /\ v \in DOMAIN withdrawals
        /\ Status(v) \in {"APPROVED", "PAID"}
        /\ Unrecorded(u) \/ withdrawals[v].transfer = u
    BY DEF TransfersInv
  <2>2. v = w => \A x \in DOMAIN transfers : transfers[x].withdrawal = w => x = u
    BY DEF TransfersInv
  <2>3. transfers'[u].withdrawal = v /\ transfers'[u].status # "FAILED"
    BY DEF TransfersLast
  <2>4. withdrawals'[v].status \in {"APPROVED", "PAID"}
    <3>1. CASE v = w
      BY <3>1 DEF RowBecomes, Status
    <3>2. CASE v # w
      BY <2>1, <3>2 DEF RowBecomes, Status
    <3> QED BY <3>1, <3>2
  <2>5. Unrecorded(u)' \/ withdrawals'[v].transfer = u
    <3>1. CASE v = w
      <4>1. withdrawals'[v].transfer = t
        BY <3>1 DEF RowBecomes
      <4> QED BY <2>1, <2>2, <3>1, <4>1
    <3>2. CASE v # w
      BY <2>1, <3>2 DEF RowBecomes
    <3> QED BY <3>1, <3>2
  <2>6. v \in DOMAIN withdrawals'
    BY <2>1 DEF RowBecomes
  <2> QED BY <2>3, <2>4, <2>5, <2>6
<1>2. \A u, x \in DOMAIN transfers' :
        transfers'[u].withdrawal = transfers'[x].withdrawal => u = x
  BY DEF TransfersInv, TransfersLast
<1>3. ASSUME NEW v \in DOMAIN withdrawals, withdrawals'[v].transfer # 0
      PROVE  /\ withdrawals'[v].transfer \in DOMAIN transfers'
             /\ transfers'[withdrawals'[v].transfer].withdrawal = v
  <2>1. withdrawals[v].transfer # 0 =>
          /\ withdrawals[v].transfer \in DOMAIN transfers
          /\ transfers[withdrawals[v].transfer].withdrawal = v
    BY DEF TransfersInv
  <2>2. CASE v = w
    BY <1>3, <2>1, <2>2 DEF RowBecomes, TransfersLast
  <2>3. CASE v # w
    BY <1>3, <2>1, <2>3 DEF RowBecomes, TransfersLast
  <2> QED BY <2>2, <2>3
<1>4. DOMAIN transfers' = DOMAIN transfers
      /\ DOMAIN withdrawals' = DOMAIN withdrawals
  BY DEF TransfersLast, RowBecomes
<1> QED BY <1>1, <1>2, <1>3, <1>4 DEF TransfersInv, Status

\* Payments go on as long as their withdrawal stays approved.
LEMMA PaymentsKept ==
  ASSUME TypeOK, PaymentsInv, TransfersLast, NEW w \in DOMAIN withdrawals,
         NEW s, NEW t, NEW b, RowBecomes(w, s, t, b),
         \A a \in Payers : \/ pay'[a] = Idle
                           \/ /\ pay'[a] = pay[a]
                              /\ pay[a].step # "idle" /\ pay[a].w = w =>
                                   s = "APPROVED"
  PROVE  PaymentsInv'
<1>1. ASSUME NEW a \in Payers, pay'[a].step # "idle"
      PROVE  /\ pay'[a] = pay[a] /\ pay[a].step # "idle"
             /\ pay[a].w = w => s = "APPROVED"
  BY <1>1 DEF Idle
<1>2. ASSUME NEW a \in Payers, pay'[a].step # "idle"
      PROVE  /\ pay'[a].w \in DOMAIN withdrawals'
             /\ withdrawals'[pay'[a].w].status = "APPROVED"
             /\ pay'[a].step \in {"call", "failed"} =>
                  \A u \in DOMAIN transfers' :
                    transfers'[u].withdrawal # pay'[a].w
             /\ pay'[a].step = "record" =>
                  /\ pay'[a].t \in DOMAIN transfers'
                  /\ transfers'[pay'[a].t].withdrawal = pay'[a].w
  <2>1. /\ pay'[a] = pay[a] /\ pay[a].step # "idle"
        /\ pay[a].w = w => s = "APPROVED"
    BY <1>1, <1>2
  <2>2. /\ pay[a].w \in DOMAIN withdrawals
        /\ Status(pay[a].w) = "APPROVED"
        /\ pay[a].step \in {"call", "failed"} =>
             \A u \in DOMAIN transfers : transfers[u].withdrawal # pay[a].w
        /\ pay[a].step = "record" =>
             /\ pay[a].t \in DOMAIN transfers
             /\ transfers[pay[a].t].withdrawal = pay[a].w
    BY <2>1 DEF PaymentsInv
  <2>3. withdrawals'[pay[a].w].status = "APPROVED"
    BY <2>1, <2>2 DEF RowBecomes, Status
  <2>4. /\ DOMAIN withdrawals' = DOMAIN withdrawals
        /\ DOMAIN transfers' = DOMAIN transfers
        /\ \A u \in DOMAIN transfers :
             transfers'[u].withdrawal = transfers[u].withdrawal
    BY DEF RowBecomes, TransfersLast
  <2> QED BY <2>1, <2>2, <2>3, <2>4
<1> QED BY <1>2 DEF PaymentsInv, Status

\* Notices go on as long as the transfers they are about stay recorded.
LEMMA NoticesKept ==
  ASSUME NoticesInv, DOMAIN transfers \subseteq DOMAIN transfers',
         \A u \in DOMAIN transfers :
           /\ transfers'[u].withdrawal = transfers[u].withdrawal
           /\ Unrecorded(u)' => Unrecorded(u),
         \A h \in Hooks : notice'[h] = notice[h] \/ notice'[h] = Idle
  PROVE  NoticesInv'
<1> DEFINE Paying(n) ==
             /\ n.step = "paid"
             /\ \E u \in DOMAIN transfers :
                  transfers[u].withdrawal = n.w /\ ~Unrecorded(u)
           Linking(n) ==
             /\ n.step = "link" /\ n.read # "REJECTED"
             /\ n.t \in DOMAIN transfers
             /\ transfers[n.t].withdrawal = n.w
<1>1. ASSUME NEW h \in Hooks, notice'[h].step # "idle"
      PROVE  Paying(notice[h])' \/ Linking(notice[h])'
  <2>1. notice'[h] = notice[h] /\ notice[h].step # "idle"
    BY <1>1 DEF Idle
  <2>2. Paying(notice[h]) \/ Linking(notice[h])
    BY <2>1 DEF NoticesInv
  <2>3. CASE Paying(notice[h])
    BY <2>1, <2>3
  <2>4. CASE Linking(notice[h])
    BY <2>1, <2>4
  <2> QED BY <2>2, <2>3, <2>4
<1> QED BY <1>1 DEF NoticesInv

-----------------------------------------------------------------------------
(* Steps that write one row.                                               *)

PayState == {Idle} \cup [step : {"call", "failed"}, w : 1 .. MaxWithdrawals]
              \cup [step : {"record"}, w : 1 .. MaxWithdrawals,
                    t : 1 .. MaxTransfers, status : {"PENDING", "DONE"}]

NoticeState == {Idle} \cup [step : {"paid", "reopen"}, w : 1 .. MaxWithdrawals]
                 \cup [step : {"link"}, w : 1 .. MaxWithdrawals,
                       t : 1 .. MaxTransfers, read : Statuses]

CommissionRow == [status : {"UNPAID", "NONE", "OPEN", "RESERVED", "PAID"},
                  withdrawal : 0 .. MaxWithdrawals]

\* What such a step has to show for the whole invariant.
LEMMA RowStep ==
  ASSUME IInv, NEW w \in DOMAIN withdrawals, NEW s, NEW t, NEW b,
         RowBecomes(w, s, t, b), b = IF s = "PAID" THEN 1 ELSE 0,
         TransfersLast,
         balance' \in [Players -> Nat], HeldOrReturned',
         commissions' \in [Deposits -> CommissionRow],
         CommissionsFollowWithdrawal',
         \A d \in Deposits :
           \/ commissions'[d].withdrawal = 0
           \/ commissions'[d].withdrawal = commissions[d].withdrawal,
         pay' \in [Payers -> PayState], notice' \in [Hooks -> NoticeState],
         form' = form, TransfersInv', PaymentsInv', NoticesInv'
  PROVE  IInv'
<1>1. TypeOK'
  BY DEF IInv, MoneyIsHeld, TypeOK, RowBecomes, TransfersLast, PayState,
         NoticeState, CommissionRow
<1>2. BookedOnce'
  BY DEF IInv, BookedOnce, RowBecomes, Status
<1>3. TablesInv'
  BY DEF IInv, TablesInv, RowBecomes, TransfersLast
<1> QED BY <1>1, <1>2, <1>3 DEF IInv, MoneyIsHeld

\* Nobody is paying a pending withdrawal, and none has been sent.
LEMMA PendingIsQuiet ==
  ASSUME IInv, NEW w \in DOMAIN withdrawals, Status(w) = "PENDING"
  PROVE  /\ \A u \in DOMAIN transfers : transfers[u].withdrawal # w
         /\ \A a \in Payers : pay[a].step # "idle" => pay[a].w # w
BY DEF IInv, TransfersInv, PaymentsInv

\* reject: the money goes back, and the commissions are open again.
LEMMA RejectKeeps ==
  ASSUME IInv, NEW w \in DOMAIN withdrawals, Reject(w)
  PROVE  IInv'
<1> DEFINE t == withdrawals[w].transfer
           b == withdrawals[w].booked
<1>1. /\ TypeOK /\ HeldOrReturned /\ CommissionsFollowWithdrawal /\ TablesInv
      /\ TransfersInv /\ PaymentsInv /\ NoticesInv /\ BookedOnce
  BY DEF IInv, MoneyIsHeld
<1>2. /\ Status(w) = "PENDING" /\ SetStatus(w, "REJECTED") /\ Refund(w)
      /\ commissions' = Moved(ReservedBy(w), "OPEN", 0)
      /\ UNCHANGED <<transfers, pay, notice, form>>
  BY DEF Reject, Rejectable
<1>3. RowBecomes(w, "REJECTED", t, b)
  BY <1>1, <1>2, StatusRow
<1>4. b = 0
  BY <1>1, <1>2 DEF BookedOnce
<1>5. TransfersLast
  BY <1>1, <1>2, TransfersUnchanged
<1>6. \A u : Unrecorded(u)' <=> Unrecorded(u)
  BY <1>2 DEF Unrecorded
<1> HIDE DEF t, b
<1>7. balance' \in [Players -> Nat] /\ HeldOrReturned'
  BY <1>1, <1>2, <1>3, HeldReturned DEF Live
<1>8. /\ commissions' \in [Deposits -> CommissionRow]
      /\ CommissionsFollowWithdrawal'
      /\ \A d \in Deposits :
           \/ commissions'[d].withdrawal = 0
           \/ commissions'[d].withdrawal = commissions[d].withdrawal
  BY <1>1, <1>2, <1>3, CommissionsReleased DEF CommissionRow
<1>9. TransfersInv'
  BY <1>1, <1>2, <1>3, <1>5, <1>6, PendingIsQuiet, TransfersKept DEF t
<1>10. PaymentsInv'
  BY <1>1, <1>2, <1>3, <1>5, PendingIsQuiet, PaymentsKept
<1>11. NoticesInv'
  BY <1>1, <1>2, <1>6, NoticesKept
<1>12. pay' \in [Payers -> PayState] /\ notice' \in [Hooks -> NoticeState]
  BY <1>1, <1>2 DEF TypeOK, PayState, NoticeState
<1> QED BY <1>2, <1>3, <1>4, <1>5, <1>7, <1>8, <1>9, <1>10, <1>11, <1>12,
           RowStep

\* payViaPix begins on a withdrawal without a transfer, hence one that has never
\* been sent.
LEMMA PayViaPixKeeps ==
  ASSUME IInv, Orderly, NEW a \in Payers, NEW w \in DOMAIN withdrawals,
         PayViaPix(a, w)
  PROVE  IInv'
<1> DEFINE t == withdrawals[w].transfer
           b == withdrawals[w].booked
<1>1. /\ TypeOK /\ HeldOrReturned /\ CommissionsFollowWithdrawal /\ TablesInv
      /\ TransfersInv /\ PaymentsInv /\ NoticesInv /\ BookedOnce
  BY DEF IInv, MoneyIsHeld
<1>2. /\ Status(w) \in {"PENDING", "APPROVED"} /\ t = 0
      /\ SetStatus(w, "APPROVED") /\ pay[a] = Idle
      /\ pay' = [pay EXCEPT ![a] = [step |-> "call", w |-> w]]
      /\ UNCHANGED <<balance, commissions, transfers, notice, form>>
  BY DEF PayViaPix, Payable
<1>3. RowBecomes(w, "APPROVED", t, b)
  BY <1>1, <1>2, StatusRow
<1>4. b = 0
  BY <1>1, <1>2 DEF BookedOnce
<1>5. TransfersLast
  BY <1>1, <1>2, TransfersUnchanged
<1>6. /\ \A c \in Payers : c = a
      /\ pay'[a] = [step |-> "call", w |-> w]
      /\ pay[a].step = "idle"
  BY <1>1, <1>2 DEF Orderly, TypeOK, Idle
<1>7. \A u : ~Unrecorded(u)' /\ ~Unrecorded(u)
  BY <1>6 DEF Unrecorded
<1>8. \A u \in DOMAIN transfers : transfers[u].withdrawal # w
  <2>1. \A u \in DOMAIN transfers : u # 0
    BY <1>1, RowType
  <2> QED BY <1>1, <1>2, <1>7, <2>1 DEF TransfersInv
<1> HIDE DEF t, b
<1>9. HeldOrReturned'
  BY <1>1, <1>2, <1>3, HeldKept DEF Live
<1>10. CommissionsFollowWithdrawal'
  BY <1>1, <1>2, <1>3, CommissionsKept
<1>11. TransfersInv'
  BY <1>1, <1>3, <1>5, <1>7, <1>8, TransfersKept DEF t
<1>12. PaymentsInv'
  <2>1. \A u \in DOMAIN transfers' : transfers'[u].withdrawal # w
    BY <1>5, <1>8 DEF TransfersLast
  <2>2. w \in DOMAIN withdrawals' /\ withdrawals'[w].status = "APPROVED"
    BY <1>3 DEF RowBecomes
  <2> QED BY <1>6, <2>1, <2>2 DEF PaymentsInv, Status
<1>13. NoticesInv'
  BY <1>1, <1>2, <1>7, NoticesKept
<1>14. /\ balance' \in [Players -> Nat]
       /\ commissions' \in [Deposits -> CommissionRow]
       /\ notice' \in [Hooks -> NoticeState]
  BY <1>1, <1>2 DEF TypeOK, CommissionRow, NoticeState
<1>15. pay' \in [Payers -> PayState]
  <2>1. w \in 1 .. MaxWithdrawals
    BY <1>1, RowType, WithdrawalsAssumption DEF TablesInv
  <2> QED BY <1>1, <1>2, <2>1 DEF TypeOK, PayState
<1> QED BY <1>2, <1>3, <1>4, <1>5, <1>9, <1>10, <1>11, <1>12, <1>13, <1>14,
           <1>15, RowStep

\* payViaPix ends with an error: the withdrawal is still the approved one.
LEMMA PayFailedKeeps ==
  ASSUME IInv, Orderly, NEW a \in Payers, PayFailed(a)
  PROVE  IInv'
<1> DEFINE w == pay[a].w
           t == withdrawals[w].transfer
           b == withdrawals[w].booked
<1>1. /\ TypeOK /\ HeldOrReturned /\ CommissionsFollowWithdrawal /\ TablesInv
      /\ TransfersInv /\ PaymentsInv /\ NoticesInv /\ BookedOnce
  BY DEF IInv, MoneyIsHeld
<1>2. /\ pay[a].step = "failed" /\ SetStatus(w, "PENDING")
      /\ pay' = [pay EXCEPT ![a] = Idle]
      /\ UNCHANGED <<balance, commissions, transfers, notice, form>>
  BY DEF PayFailed
<1>3. /\ w \in DOMAIN withdrawals /\ Status(w) = "APPROVED"
      /\ \A u \in DOMAIN transfers : transfers[u].withdrawal # w
  BY <1>1, <1>2 DEF PaymentsInv
<1>4. /\ \A c \in Payers : c = a
      /\ pay'[a] = Idle /\ Idle.step = "idle"
  BY <1>1, <1>2 DEF Orderly, TypeOK, Idle
<1>5. \A u : ~Unrecorded(u)' /\ ~Unrecorded(u)
  BY <1>2, <1>4 DEF Unrecorded
<1> HIDE DEF w
<1>6. RowBecomes(w, "PENDING", t, b)
  BY <1>1, <1>2, <1>3, StatusRow
<1>7. b = 0
  BY <1>1, <1>3 DEF BookedOnce
<1>8. TransfersLast
  BY <1>1, <1>2, TransfersUnchanged
<1> HIDE DEF t, b
<1>9. HeldOrReturned'
  BY <1>1, <1>2, <1>3, <1>6, HeldKept DEF Live
<1>10. CommissionsFollowWithdrawal'
  BY <1>1, <1>2, <1>3, <1>6, CommissionsKept
<1>11. TransfersInv'
  BY <1>1, <1>3, <1>5, <1>6, <1>8, TransfersKept DEF t
<1>12. PaymentsInv'
  BY <1>4 DEF PaymentsInv
<1>13. NoticesInv'
  BY <1>1, <1>2, <1>5, NoticesKept
<1>14. /\ balance' \in [Players -> Nat]
       /\ commissions' \in [Deposits -> CommissionRow]
       /\ notice' \in [Hooks -> NoticeState]
       /\ pay' \in [Payers -> PayState]
  BY <1>1, <1>2 DEF TypeOK, CommissionRow, NoticeState, PayState
<1> QED BY <1>2, <1>3, <1>6, <1>7, <1>8, <1>9, <1>10, <1>11, <1>12, <1>13,
           <1>14, RowStep

\* payViaPix ends with the provider's answer.
LEMMA PayRecordKeeps ==
  ASSUME IInv, Orderly, NEW a \in Payers, PayRecord(a)
  PROVE  IInv'
<1> DEFINE w == pay[a].w
           t == pay[a].t
           approved == [withdrawals EXCEPT ![w].status = "APPROVED",
                                           ![w].transfer = t]
<1>1. /\ TypeOK /\ HeldOrReturned /\ CommissionsFollowWithdrawal /\ TablesInv
      /\ TransfersInv /\ PaymentsInv /\ NoticesInv /\ BookedOnce
  BY DEF IInv, MoneyIsHeld
<1>2. /\ pay[a].step = "record"
      /\ \/ /\ withdrawals' = Paid(approved, w)
            /\ commissions' = Moved(ReservedBy(w), "PAID", w)
         \/ withdrawals' = approved /\ commissions' = commissions
      /\ pay' = [pay EXCEPT ![a] = Idle]
      /\ UNCHANGED <<balance, transfers, notice, form>>
  BY DEF PayRecord
<1>3. /\ w \in DOMAIN withdrawals /\ Status(w) = "APPROVED"
      /\ t \in DOMAIN transfers /\ transfers[t].withdrawal = w
      /\ t \in 1 .. MaxTransfers
  BY <1>1, <1>2, PayType DEF PaymentsInv
<1>4. /\ \A c \in Payers : c = a
      /\ pay'[a] = Idle /\ Idle.step = "idle"
  BY <1>1, <1>2 DEF Orderly, TypeOK, Idle
<1>5. /\ \A u : ~Unrecorded(u)'
      /\ \A u : Unrecorded(u) => u = t
  BY <1>2, <1>4 DEF Unrecorded
<1>6. withdrawals[w].booked = 0
  BY <1>1, <1>3 DEF BookedOnce
<1>7. TransfersLast
  BY <1>1, <1>2, TransfersUnchanged
<1>8. /\ balance' \in [Players -> Nat]
      /\ notice' \in [Hooks -> NoticeState]
      /\ pay' \in [Payers -> PayState]
  BY <1>1, <1>2 DEF TypeOK, NoticeState, PayState
<1>9. PaymentsInv'
  BY <1>4 DEF PaymentsInv
<1>10. NoticesInv'
  BY <1>1, <1>2, <1>5, NoticesKept
<1> HIDE DEF w, t
<1>11. ASSUME NEW s \in {"APPROVED", "PAID"}, NEW b, RowBecomes(w, s, t, b),
              b = IF s = "PAID" THEN 1 ELSE 0,
              commissions' \in [Deposits -> CommissionRow],
              CommissionsFollowWithdrawal',
              \A d \in Deposits :
                commissions'[d].withdrawal = commissions[d].withdrawal
       PROVE  IInv'
  <2>1. HeldOrReturned'
    BY <1>1, <1>2, <1>3, <1>11, HeldKept DEF Live
  <2>2. TransfersInv'
    BY <1>1, <1>3, <1>5, <1>7, <1>11, TransfersKept
  <2> QED BY <1>2, <1>3, <1>7, <1>8, <1>9, <1>10, <1>11, <2>1, <2>2, RowStep
<1>12. CASE withdrawals' = approved /\ commissions' = commissions
  <2>1. RowBecomes(w, "APPROVED", t, 0)
    BY <1>1, <1>3, <1>6, <1>12, RecordedRow
  <2>2. CommissionsFollowWithdrawal'
    BY <1>1, <1>3, <1>12, <2>1, CommissionsKept
  <2>3. commissions' \in [Deposits -> CommissionRow]
    BY <1>1, <1>12 DEF TypeOK, CommissionRow
  <2> QED BY <1>11, <1>12, <2>1, <2>2, <2>3
<1>13. CASE /\ withdrawals' = Paid(approved, w)
            /\ commissions' = Moved(ReservedBy(w), "PAID", w)
  <2>1. RowBecomes(w, "PAID", t, 1)
    BY <1>1, <1>3, <1>6, <1>13, RecordedRow
  <2>2. /\ commissions' \in [Deposits -> CommissionRow]
        /\ CommissionsFollowWithdrawal'
        /\ \A d \in Deposits :
             commissions'[d].withdrawal = commissions[d].withdrawal
    BY <1>1, <1>3, <1>13, <2>1, CommissionsPaid DEF CommissionRow
  <2> QED BY <1>11, <2>1, <2>2
<1> QED BY <1>2, <1>12, <1>13 DEF w, t

\* A transfer the provider asks about is of an approved or paid withdrawal: it
\* is not refused, and linked as its payer has done or will do.
LEMMA LinkKeeps ==
  ASSUME IInv, NEW h \in Hooks, LinkTransfer(h)
  PROVE  IInv'
<1> DEFINE w == notice[h].w
           t == notice[h].t
           s == Status(w)
           b == withdrawals[w].booked
<1>1. /\ TypeOK /\ HeldOrReturned /\ CommissionsFollowWithdrawal /\ TablesInv
      /\ TransfersInv /\ PaymentsInv /\ NoticesInv /\ BookedOnce
  BY DEF IInv, MoneyIsHeld
<1>2. /\ t \in DOMAIN transfers /\ transfers[t].withdrawal = w
      /\ t \in 1 .. MaxTransfers
      /\ w \in DOMAIN withdrawals /\ s \in {"APPROVED", "PAID"}
  <2>1. notice[h].step = "link" /\ notice[h].step # "idle"
    BY DEF LinkTransfer
  <2>2. t \in DOMAIN transfers /\ transfers[t].withdrawal = w
    BY <1>1, <2>1 DEF NoticesInv
  <2>3. t \in 1 .. MaxTransfers
    BY <1>1, <2>1, NoticeType
  <2> QED BY <1>1, <2>2, <2>3 DEF TransfersInv
<1>3. /\ withdrawals' = [withdrawals EXCEPT ![w].transfer = t]
      /\ notice' = [notice EXCEPT ![h] = Idle]
      /\ UNCHANGED <<balance, commissions, transfers, pay, form>>
  <2>1. notice[h].step # "idle" /\ notice[h].step # "paid"
    BY DEF LinkTransfer
  <2>2. notice[h].read # "REJECTED"
    BY <1>1, <2>1 DEF NoticesInv
  <2> QED BY <2>2 DEF LinkTransfer, AnswerFor
<1>4. RowBecomes(w, s, t, b)
  <2> HIDE DEF w, t
  <2> QED BY <1>1, <1>2, <1>3, LinkedRow
<1>5. b = IF s = "PAID" THEN 1 ELSE 0
  BY <1>1, <1>2 DEF BookedOnce
<1>6. TransfersLast
  BY <1>1, <1>3, TransfersUnchanged
<1>7. \A u : Unrecorded(u)' <=> Unrecorded(u)
  BY <1>3 DEF Unrecorded
<1>8. t = withdrawals[w].transfer \/ (t \in DOMAIN transfers
                                       /\ transfers[t].withdrawal = w)
  BY <1>2
<1>9. /\ balance' \in [Players -> Nat]
      /\ commissions' \in [Deposits -> CommissionRow]
      /\ notice' \in [Hooks -> NoticeState]
      /\ \A k \in Hooks : notice'[k] = notice[k] \/ notice'[k] = Idle
      /\ pay' \in [Payers -> PayState]
  BY <1>1, <1>3 DEF TypeOK, CommissionRow, NoticeState, PayState
<1>10. \A a \in Payers : pay[a].step # "idle" /\ pay[a].w = w =>
                           s = "APPROVED"
  BY <1>1 DEF PaymentsInv
<1> HIDE DEF w, t, s, b
<1>11. HeldOrReturned'
  BY <1>1, <1>2, <1>3, <1>4, HeldKept DEF Live, s
<1>12. CommissionsFollowWithdrawal'
  BY <1>1, <1>2, <1>3, <1>4, CommissionsKept DEF s
<1>13. TransfersInv'
  BY <1>1, <1>2, <1>4, <1>6, <1>7, <1>8, TransfersKept
<1>14. PaymentsInv'
  BY <1>1, <1>2, <1>3, <1>4, <1>6, <1>10, PaymentsKept
<1>15. NoticesInv'
  BY <1>1, <1>3, <1>7, <1>9, NoticesKept
<1> QED BY <1>2, <1>3, <1>4, <1>5, <1>6, <1>9, <1>11, <1>12, <1>13, <1>14,
           <1>15, RowStep

\* A transfer is done.
LEMMA FinishKeeps ==
  ASSUME IInv, Orderly, NEW t \in DOMAIN transfers, FinishTransfer(t)
  PROVE  IInv'
<1> DEFINE w == transfers[t].withdrawal
           s == Status(w)
           r == withdrawals[w].transfer
           b == withdrawals[w].booked
<1>1. /\ TypeOK /\ HeldOrReturned /\ CommissionsFollowWithdrawal /\ TablesInv
      /\ TransfersInv /\ PaymentsInv /\ NoticesInv /\ BookedOnce
  BY DEF IInv, MoneyIsHeld
<1>2. w \in DOMAIN withdrawals /\ s \in {"APPROVED", "PAID"}
  BY <1>1 DEF TransfersInv
<1>3. /\ transfers' = [transfers EXCEPT ![t].status = "DONE"]
      /\ UNCHANGED <<balance, withdrawals, commissions, pay, notice, form>>
  BY DEF FinishTransfer, Orderly
<1>4. RowBecomes(w, s, r, b)
  BY <1>1, <1>2, <1>3, RowsUnchanged
<1>5. b = IF s = "PAID" THEN 1 ELSE 0
  BY <1>1, <1>2 DEF BookedOnce
<1>6. TransfersLast
  <2> DEFINE x == [transfers[t] EXCEPT !.status = "DONE"]
  <2>1. /\ DOMAIN transfers = 1 .. Len(transfers) /\ Len(transfers) \in Nat
        /\ transfers[t] \in Transfer
        /\ transfers \in [1 .. Len(transfers) -> Transfer]
    BY <1>1, RowType, LenProperties DEF TypeOK
  <2>2. /\ x \in Transfer /\ x.withdrawal = transfers[t].withdrawal
        /\ x.status = "DONE"
    BY <2>1 DEF Transfer
  <2>3. transfers' = [transfers EXCEPT ![t] = x]
    BY <1>3
  <2> HIDE DEF x, w
  <2>4. transfers' \in [1 .. Len(transfers) -> Transfer]
    BY <2>1, <2>2, <2>3
  <2>5. transfers' \in Seq(Transfer) /\ DOMAIN transfers' = 1 .. Len(transfers)
    BY <2>1, <2>4, SeqDef
  <2>6. Len(transfers') = Len(transfers)
    BY <2>1, <2>5, LenProperties
  <2>7. \A u \in DOMAIN transfers :
          /\ transfers'[u].withdrawal = transfers[u].withdrawal
          /\ transfers'[u].status # "FAILED"
    BY <1>1, <2>1, <2>2, <2>3 DEF TransfersInv
  <2> QED BY <2>1, <2>5, <2>6, <2>7 DEF TransfersLast
<1>7. \A u : Unrecorded(u)' <=> Unrecorded(u)
  BY <1>3 DEF Unrecorded
<1>8. /\ balance' \in [Players -> Nat]
      /\ commissions' \in [Deposits -> CommissionRow]
      /\ notice' \in [Hooks -> NoticeState]
      /\ pay' \in [Payers -> PayState]
  BY <1>1, <1>3 DEF TypeOK, CommissionRow, NoticeState, PayState
<1>9. \A a \in Payers : pay[a].step # "idle" /\ pay[a].w = w =>
                          s = "APPROVED"
  BY <1>1 DEF PaymentsInv
<1> HIDE DEF w, s, r, b
<1>10. HeldOrReturned'
  BY <1>1, <1>2, <1>3, <1>4, HeldKept DEF Live, s
<1>11. CommissionsFollowWithdrawal'
  BY <1>1, <1>2, <1>3, <1>4, CommissionsKept DEF s
<1>12. TransfersInv'
  BY <1>1, <1>2, <1>4, <1>6, <1>7, TransfersKept DEF r
<1>13. PaymentsInv'
  BY <1>1, <1>2, <1>3, <1>4, <1>6, <1>9, PaymentsKept
<1>14. NoticesInv'
  <2>1. /\ DOMAIN transfers \subseteq DOMAIN transfers'
        /\ \A u \in DOMAIN transfers :
             /\ transfers'[u].withdrawal = transfers[u].withdrawal
             /\ Unrecorded(u)' => Unrecorded(u)
    BY <1>6, <1>7 DEF TransfersLast
  <2> QED BY <1>1, <1>3, <2>1, NoticesKept
<1> QED BY <1>2, <1>3, <1>4, <1>5, <1>6, <1>8, <1>10, <1>11, <1>12, <1>13,
           <1>14, RowStep

\* Whoever notices that a transfer is done finds its withdrawal approved, with
\* no payment of it in progress, or paid already.
LEMMA WebhookPaidKeeps ==
  ASSUME IInv, NEW h \in Hooks, WebhookPaid(h)
  PROVE  IInv'
<1> DEFINE w == notice[h].w
           r == withdrawals[w].transfer
<1>1. /\ TypeOK /\ HeldOrReturned /\ CommissionsFollowWithdrawal /\ TablesInv
      /\ TransfersInv /\ PaymentsInv /\ NoticesInv /\ BookedOnce
  BY DEF IInv, MoneyIsHeld
<1>2. /\ MarkPaid(w) /\ notice[h].step = "paid"
      /\ notice' = [notice EXCEPT ![h] = Idle]
      /\ UNCHANGED <<balance, transfers, pay, form>>
  BY DEF WebhookPaid
<1>3. PICK u \in DOMAIN transfers : transfers[u].withdrawal = w /\ ~Unrecorded(u)
  BY <1>1, <1>2 DEF NoticesInv
<1>4. w \in DOMAIN withdrawals /\ Status(w) \in {"APPROVED", "PAID"}
  BY <1>1, <1>3 DEF TransfersInv
<1>5. \A a \in Payers : pay[a].step # "idle" => pay[a].w # w
  <2>1. ASSUME NEW a \in Payers, pay[a].step # "idle", pay[a].w = w
        PROVE  FALSE
    <3>1. CASE pay[a].step \in {"call", "failed"}
      BY <1>1, <1>3, <2>1, <3>1 DEF PaymentsInv
    <3>2. CASE pay[a].step = "record"
      <4>1. pay[a].t \in DOMAIN transfers /\ transfers[pay[a].t].withdrawal = w
        BY <1>1, <2>1, <3>2 DEF PaymentsInv
      <4>2. pay[a].t = u
        BY <1>1, <1>3, <4>1 DEF TransfersInv
      <4> QED BY <1>3, <3>2, <4>2 DEF Unrecorded
    <3> QED BY <1>1, <2>1, <3>1, <3>2, PayType
  <2> QED BY <2>1
<1>6. TransfersLast
  BY <1>1, <1>2, TransfersUnchanged
<1>7. \A x : Unrecorded(x)' <=> Unrecorded(x)
  BY <1>2 DEF Unrecorded
<1>8. /\ balance' \in [Players -> Nat]
      /\ notice' \in [Hooks -> NoticeState]
      /\ pay' \in [Payers -> PayState]
      /\ \A k \in Hooks : notice'[k] = notice[k] \/ notice'[k] = Idle
  BY <1>1, <1>2 DEF TypeOK, NoticeState, PayState
<1>9. NoticesInv'
  BY <1>1, <1>2, <1>7, <1>8, NoticesKept
<1> HIDE DEF w, r
<1>10. ASSUME NEW b, RowBecomes(w, "PAID", r, b), b = 1,
              commissions' \in [Deposits -> CommissionRow],
              CommissionsFollowWithdrawal',
              \A d \in Deposits :
                commissions'[d].withdrawal = commissions[d].withdrawal
       PROVE  IInv'
  <2>1. HeldOrReturned'
    BY <1>1, <1>2, <1>4, <1>10, HeldKept DEF Live
  <2>2. TransfersInv'
    BY <1>1, <1>4, <1>6, <1>7, <1>10, TransfersKept DEF r
  <2>3. PaymentsInv'
    BY <1>1, <1>2, <1>4, <1>5, <1>6, <1>10, PaymentsKept
  <2> QED BY <1>2, <1>4, <1>6, <1>8, <1>9, <1>10, <2>1, <2>2, <2>3, RowStep
<1>11. CASE Status(w) = "PAID"
  <2>1. withdrawals' = withdrawals /\ commissions' = commissions
    BY <1>2, <1>11 DEF MarkPaid, Unpaid
  <2>2. RowBecomes(w, "PAID", r, withdrawals[w].booked)
    BY <1>1, <1>4, <1>11, <2>1, RowsUnchanged DEF r
  <2>3. withdrawals[w].booked = 1
    BY <1>1, <1>4, <1>11 DEF BookedOnce
  <2>4. commissions' \in [Deposits -> CommissionRow]
    BY <1>1, <2>1 DEF TypeOK, CommissionRow
  <2>5. CommissionsFollowWithdrawal'
    BY <1>1, <1>4, <1>11, <2>1, <2>2, CommissionsKept
  <2> QED BY <1>10, <2>1, <2>2, <2>3, <2>4, <2>5
<1>12. CASE Status(w) = "APPROVED"
  <2>1. /\ withdrawals' = Paid(withdrawals, w)
        /\ commissions' = Moved(ReservedBy(w), "PAID", w)
    BY <1>2, <1>12 DEF MarkPaid, Unpaid
  <2>2. withdrawals[w].booked = 0
    BY <1>1, <1>4, <1>12 DEF BookedOnce
  <2>3. RowBecomes(w, "PAID", r, 1)
    BY <1>1, <1>4, <2>1, <2>2, PaidRow DEF r
  <2>4. /\ commissions' \in [Deposits -> CommissionRow]
        /\ CommissionsFollowWithdrawal'
        /\ \A d \in Deposits :
             commissions'[d].withdrawal = commissions[d].withdrawal
    BY <1>1, <1>4, <1>12, <2>1, <2>3, CommissionsPaid DEF CommissionRow
  <2> QED BY <1>10, <2>3, <2>4
<1> QED BY <1>4, <1>11, <1>12

-----------------------------------------------------------------------------
(* Steps that change no withdrawal.                                        *)

FormState == [step : {"idle", "reserve"}, affiliate : Affiliates,
              open : SUBSET Deposits, missing : SUBSET Deposits]

\* Forms are in no invariant.
LEMMA FormKeeps ==
  ASSUME IInv, form' \in [Confirmers -> FormState],
         UNCHANGED <<balance, withdrawals, commissions, transfers, pay, notice>>
  PROVE  IInv'
<1>1. MoneyIsHeld'
  <2>1. TypeOK'
    BY DEF IInv, MoneyIsHeld, TypeOK, FormState
  <2>2. HeldOrReturned'
    <3>1. /\ withdrawals \in Seq(Withdrawal) /\ HeldOrReturned
          /\ withdrawals' = withdrawals /\ balance' = balance
      BY DEF IInv, MoneyIsHeld, TypeOK
    <3> QED BY <3>1, HeldByPlayer
  <2>3. CommissionsFollowWithdrawal'
    BY DEF IInv, MoneyIsHeld, CommissionsFollowWithdrawal, Status,
           IsCommission, AmountOf
  <2> QED BY <2>1, <2>2, <2>3 DEF MoneyIsHeld
<1>2. BookedOnce' /\ TablesInv'
  BY DEF IInv, BookedOnce, TablesInv, Status
<1>3. TransfersInv' /\ PaymentsInv' /\ NoticesInv'
  BY DEF IInv, TransfersInv, PaymentsInv, NoticesInv, Unrecorded, Status
<1> QED BY <1>1, <1>2, <1>3 DEF IInv

\* A commission that no withdrawal is for may become open.
LEMMA EarnedKeeps ==
  ASSUME IInv, NEW d \in Deposits, commissions[d].status \in {"UNPAID", "NONE"},
         NEW s \in {"NONE", "OPEN"},
         commissions' = [commissions EXCEPT ![d].status = s],
         UNCHANGED <<balance, withdrawals, transfers, pay, notice, form>>
  PROVE  IInv'
<1>1. /\ commissions' \in [Deposits -> CommissionRow]
      /\ commissions'[d].status = s
      /\ \A e \in Deposits :
           /\ commissions'[e].withdrawal = commissions[e].withdrawal
           /\ e # d => commissions'[e] = commissions[e]
      /\ commissions[d].withdrawal = 0
  BY DEF IInv, MoneyIsHeld, TypeOK, CommissionRow, CommissionsFollowWithdrawal
<1>2. TypeOK'
  BY <1>1 DEF IInv, MoneyIsHeld, TypeOK, CommissionRow
<1>3. HeldOrReturned'
  <2>1. /\ withdrawals \in Seq(Withdrawal) /\ HeldOrReturned
        /\ withdrawals' = withdrawals /\ balance' = balance
    BY DEF IInv, MoneyIsHeld, TypeOK
  <2> QED BY <2>1, HeldByPlayer
<1>4. CommissionsFollowWithdrawal'
  <2>1. CommissionsFollowWithdrawal /\ withdrawals' = withdrawals
    BY DEF IInv, MoneyIsHeld
  <2>2. \A w : {e \in Deposits : commissions'[e].withdrawal = w}
                = {e \in Deposits : commissions[e].withdrawal = w}
    BY <1>1
  <2> QED BY <1>1, <2>1, <2>2 DEF CommissionsFollowWithdrawal, Status,
          IsCommission, AmountOf
<1>5. BookedOnce' /\ TablesInv'
  BY <1>1 DEF IInv, BookedOnce, TablesInv, Status
<1>6. TransfersInv' /\ PaymentsInv' /\ NoticesInv'
  BY DEF IInv, TransfersInv, PaymentsInv, NoticesInv, Unrecorded, Status
<1> QED BY <1>2, <1>3, <1>4, <1>5, <1>6 DEF IInv, MoneyIsHeld

\* The parts that are not about transfers, payments and notices.
LEMMA MoneyKept ==
  ASSUME IInv, UNCHANGED <<balance, withdrawals, commissions, form>>,
         transfers' \in Seq(Transfer), Len(transfers') <= MaxTransfers,
         pay' \in [Payers -> PayState], notice' \in [Hooks -> NoticeState]
  PROVE  MoneyIsHeld' /\ BookedOnce' /\ TablesInv'
<1>1. TypeOK'
  BY DEF IInv, MoneyIsHeld, TypeOK, PayState, NoticeState
<1>2. HeldOrReturned'
  <2>1. /\ withdrawals \in Seq(Withdrawal) /\ HeldOrReturned
        /\ withdrawals' = withdrawals /\ balance' = balance
    BY DEF IInv, MoneyIsHeld, TypeOK
  <2> QED BY <2>1, HeldByPlayer
<1>3. CommissionsFollowWithdrawal'
  BY DEF IInv, MoneyIsHeld, CommissionsFollowWithdrawal, Status,
         IsCommission, AmountOf
<1>4. BookedOnce' /\ TablesInv'
  BY DEF IInv, BookedOnce, TablesInv, Status
<1> QED BY <1>1, <1>2, <1>3, <1>4 DEF MoneyIsHeld

\* The provider creates a transfer only for a payer that works on a withdrawal
\* that has none.
LEMMA CreateTransferKeeps ==
  ASSUME IInv, Orderly, NEW a \in Payers, CreateTransfer(a)
  PROVE  IInv'
<1> DEFINE w == pay[a].w
           n == Len(transfers) + 1
<1>1. /\ TypeOK /\ TablesInv /\ TransfersInv /\ PaymentsInv /\ NoticesInv
  BY DEF IInv, MoneyIsHeld
<1>2. PICK s \in {"PENDING", "DONE"} :
        /\ transfers' = Append(transfers, [withdrawal |-> w, status |-> s])
        /\ pay' = [pay EXCEPT ![a] = [step |-> "record", w |-> w,
                                      t |-> n, status |-> s]]
  BY DEF CreateTransfer, Orderly
<1>3. /\ pay[a].step = "call" /\ Len(transfers) < MaxTransfers
      /\ UNCHANGED <<balance, withdrawals, commissions, notice, form>>
  BY DEF CreateTransfer
<1>4. /\ w \in DOMAIN withdrawals /\ Status(w) = "APPROVED"
      /\ \A u \in DOMAIN transfers : transfers[u].withdrawal # w
      /\ w \in 1 .. MaxWithdrawals
  BY <1>1, <1>3, PayType DEF PaymentsInv
<1>5. /\ \A c \in Payers : c = a
      /\ pay'[a] = [step |-> "record", w |-> w, t |-> n, status |-> s]
  BY <1>1, <1>2 DEF Orderly, TypeOK
<1>6. /\ \A u : ~Unrecorded(u)
      /\ \A u : Unrecorded(u)' <=> u = n
  BY <1>3, <1>5 DEF Unrecorded
<1>7. n \in 1 .. MaxTransfers
  BY <1>1, <1>3, RowType, WithdrawalsAssumption
<1>8. /\ transfers' \in Seq(Transfer) /\ Len(transfers') = n
      /\ DOMAIN transfers' = DOMAIN transfers \cup {n}
      /\ n \notin DOMAIN transfers
      /\ \A u \in DOMAIN transfers : transfers'[u] = transfers[u]
      /\ transfers'[n].withdrawal = w /\ transfers'[n].status = s
  <2> DEFINE r == [withdrawal |-> w, status |-> s]
  <2>1. r \in Transfer /\ r.withdrawal = w /\ r.status = s
    BY <1>4 DEF Transfer
  <2>2. /\ transfers \in Seq(Transfer) /\ Len(transfers) \in Nat
        /\ DOMAIN transfers = 1 .. Len(transfers)
        /\ transfers' = Append(transfers, r)
    BY <1>1, <1>2, LenProperties DEF TypeOK
  <2> HIDE DEF r, w
  <2>3. /\ transfers' \in Seq(Transfer) /\ Len(transfers') = Len(transfers) + 1
        /\ \A u \in 1 .. Len(transfers) : transfers'[u] = transfers[u]
        /\ transfers'[Len(transfers) + 1] = r
    BY <2>1, <2>2, AppendProperties
  <2> QED BY <2>1, <2>2, <2>3, LenProperties
<1>9. pay' \in [Payers -> PayState] /\ notice' \in [Hooks -> NoticeState]
  BY <1>1, <1>2, <1>3, <1>4, <1>7 DEF TypeOK, PayState, NoticeState
<1> HIDE DEF w, n
<1>10. TransfersInv'
  BY <1>1, <1>3, <1>4, <1>6, <1>8 DEF TransfersInv, Status
<1>11. PaymentsInv'
  BY <1>3, <1>4, <1>5, <1>8 DEF PaymentsInv, Status
<1>12. NoticesInv'
  <2>1. \A u \in DOMAIN transfers : ~Unrecorded(u)'
    BY <1>6, <1>8
  <2> QED BY <1>1, <1>3, <1>8, <2>1, NoticesKept
<1>13. MoneyIsHeld' /\ BookedOnce' /\ TablesInv'
  BY <1>3, <1>7, <1>8, <1>9, MoneyKept
<1> QED BY <1>10, <1>11, <1>12, <1>13 DEF IInv

\* The provider refuses a transfer.
LEMMA TransferRefusedKeeps ==
  ASSUME IInv, Orderly, NEW a \in Payers, TransferRefused(a)
  PROVE  IInv'
<1>1. /\ TypeOK /\ TablesInv /\ TransfersInv /\ PaymentsInv /\ NoticesInv
  BY DEF IInv, MoneyIsHeld
<1>2. /\ pay[a].step = "call"
      /\ pay' = [pay EXCEPT ![a] = [step |-> "failed", w |-> pay[a].w]]
      /\ UNCHANGED <<balance, withdrawals, commissions, transfers, notice, form>>
  BY DEF TransferRefused
<1>3. /\ \A c \in Payers : c = a
      /\ pay'[a] = [step |-> "failed", w |-> pay[a].w]
      /\ pay[a].w \in 1 .. MaxWithdrawals
  BY <1>1, <1>2, PayType DEF Orderly, TypeOK
<1>4. \A u : ~Unrecorded(u) /\ ~Unrecorded(u)'
  BY <1>2, <1>3 DEF Unrecorded
<1>5. pay' \in [Payers -> PayState] /\ notice' \in [Hooks -> NoticeState]
  BY <1>1, <1>2, <1>3 DEF TypeOK, PayState, NoticeState
<1>6. TransfersInv'
  BY <1>1, <1>2, <1>4 DEF TransfersInv, Status
<1>7. PaymentsInv'
  BY <1>1, <1>2, <1>3 DEF PaymentsInv, Status
<1>8. NoticesInv'
  BY <1>1, <1>2, <1>4, NoticesKept
<1>9. MoneyIsHeld' /\ BookedOnce' /\ TablesInv'
  BY <1>1, <1>2, <1>5, MoneyKept DEF TypeOK, TablesInv
<1> QED BY <1>6, <1>7, <1>8, <1>9 DEF IInv

\* A notice that arrives is about a recorded transfer that is done.
LEMMA HandleWebhookKeeps ==
  ASSUME IInv, Orderly, NEW h \in Hooks, NEW t \in DOMAIN transfers,
         HandleWebhook(h, t)
  PROVE  IInv'
<1> DEFINE w == transfers[t].withdrawal
<1>1. /\ TypeOK /\ TablesInv /\ TransfersInv /\ PaymentsInv /\ NoticesInv
  BY DEF IInv, MoneyIsHeld
<1>2. /\ ~Unrecorded(t)
      /\ notice' = [notice EXCEPT ![h] = [step |-> "paid", w |-> w]]
      /\ UNCHANGED <<balance, withdrawals, commissions, transfers, pay, form>>
  BY <1>1 DEF HandleWebhook, Orderly, FoundBy, TransfersInv
<1>3. /\ w \in 1 .. MaxWithdrawals
      /\ notice'[h] = [step |-> "paid", w |-> w]
      /\ \A k \in Hooks : k # h => notice'[k] = notice[k]
  BY <1>1, <1>2, RowType DEF TypeOK
<1>4. pay' \in [Payers -> PayState] /\ notice' \in [Hooks -> NoticeState]
  BY <1>1, <1>2, <1>3 DEF TypeOK, PayState, NoticeState
<1>5. \A u : Unrecorded(u)' <=> Unrecorded(u)
  BY <1>2 DEF Unrecorded
<1>6. TransfersInv' /\ PaymentsInv'
  BY <1>1, <1>2, <1>5 DEF TransfersInv, PaymentsInv, Status
<1>7. NoticesInv'
  BY <1>1, <1>2, <1>3, <1>5 DEF NoticesInv
<1>8. MoneyIsHeld' /\ BookedOnce' /\ TablesInv'
  BY <1>1, <1>2, <1>4, MoneyKept DEF TypeOK, TablesInv
<1> QED BY <1>6, <1>7, <1>8 DEF IInv

\* The provider's question is about a transfer of an approved or paid
\* withdrawal: it is linked, or about to be.
LEMMA ValidateKeeps ==
  ASSUME IInv, NEW h \in Hooks, NEW t \in DOMAIN transfers,
         ValidateTransfer(h, t)
  PROVE  IInv'
<1> DEFINE w == transfers[t].withdrawal
           n == [step |-> "link", w |-> w, t |-> t, read |-> Status(w)]
<1>1. /\ TypeOK /\ TablesInv /\ TransfersInv /\ PaymentsInv /\ NoticesInv
  BY DEF IInv, MoneyIsHeld
<1>2. w \in DOMAIN withdrawals /\ Status(w) \in {"APPROVED", "PAID"}
  BY <1>1 DEF TransfersInv
<1>3. /\ notice' = notice \/ notice' = [notice EXCEPT ![h] = n]
      /\ UNCHANGED <<balance, withdrawals, commissions, transfers, pay, form>>
  BY <1>2 DEF ValidateTransfer, AnswerFor
<1>4. w \in 1 .. MaxWithdrawals /\ t \in 1 .. MaxTransfers
  BY <1>1, <1>2, RowType, WithdrawalsAssumption DEF TablesInv
<1>5. /\ n \in NoticeState
      /\ n.step = "link" /\ n.read # "REJECTED" /\ n.t = t /\ n.w = w
  <2>1. Status(w) \in Statuses /\ Status(w) # "REJECTED"
    BY <1>2 DEF Statuses
  <2> HIDE DEF w
  <2>2. n \in [step : {"link"}, w : 1 .. MaxWithdrawals,
              t : 1 .. MaxTransfers, read : Statuses]
    BY <1>4, <2>1
  <2> QED BY <2>1, <2>2 DEF NoticeState
<1> HIDE DEF n
<1>6. pay' \in [Payers -> PayState] /\ notice' \in [Hooks -> NoticeState]
  <2>1. pay \in [Payers -> PayState] /\ notice \in [Hooks -> NoticeState]
    BY <1>1 DEF TypeOK, PayState, NoticeState
  <2> QED BY <1>3, <1>5, <2>1
<1>7. \A u : Unrecorded(u)' <=> Unrecorded(u)
  BY <1>3 DEF Unrecorded
<1>8. TransfersInv' /\ PaymentsInv'
  BY <1>1, <1>3, <1>7 DEF TransfersInv, PaymentsInv, Status
<1>9. NoticesInv'
  <2>1. CASE notice' = notice
    BY <1>1, <1>3, <1>7, <2>1, NoticesKept
  <2>2. CASE notice' = [notice EXCEPT ![h] = n]
    <3>1. \A k \in Hooks : notice'[k] = IF k = h THEN n ELSE notice[k]
      BY <1>1, <2>2 DEF TypeOK
    <3> QED BY <1>1, <1>3, <1>5, <1>7, <3>1 DEF NoticesInv
  <2> QED BY <1>3, <2>1, <2>2
<1>10. MoneyIsHeld' /\ BookedOnce' /\ TablesInv'
  BY <1>1, <1>3, <1>6, MoneyKept DEF TypeOK, TablesInv
<1> QED BY <1>8, <1>9, <1>10 DEF IInv

-----------------------------------------------------------------------------
(* Steps that add a withdrawal.                                            *)

\* The table with one more row.
RowAdded(owner, amount) ==
  LET n == Len(withdrawals) + 1
  IN  /\ withdrawals' \in Seq(Withdrawal) /\ Len(withdrawals') = n
      /\ DOMAIN withdrawals' = DOMAIN withdrawals \cup {n}
      /\ n \notin DOMAIN withdrawals
      /\ \A v \in DOMAIN withdrawals : withdrawals'[v] = withdrawals[v]
      /\ withdrawals'[n] = NewWithdrawal(owner, amount)

\* So it is after a new withdrawal has been appended.
LEMMA RowAppended ==
  ASSUME TypeOK, NEW o \in Players \cup Affiliates, NEW x \in Nat,
         withdrawals' = Append(withdrawals, NewWithdrawal(o, x))
  PROVE  RowAdded(o, x)
<1> DEFINE r == NewWithdrawal(o, x)
<1>1. r \in Withdrawal
  BY WithdrawalsAssumption DEF Withdrawal, NewWithdrawal, Statuses
<1>2. /\ withdrawals \in Seq(Withdrawal)
      /\ DOMAIN withdrawals = 1 .. Len(withdrawals) /\ Len(withdrawals) \in Nat
  BY LenProperties DEF TypeOK
<1>3. withdrawals' = Append(withdrawals, r)
  OBVIOUS
<1> HIDE DEF r
<1>4. /\ withdrawals' \in Seq(Withdrawal)
      /\ Len(withdrawals') = Len(withdrawals) + 1
      /\ \A v \in 1 .. Len(withdrawals) : withdrawals'[v] = withdrawals[v]
      /\ withdrawals'[Len(withdrawals) + 1] = r
  BY <1>1, <1>2, <1>3, AppendProperties
<1>5. /\ DOMAIN withdrawals' = DOMAIN withdrawals \cup {Len(withdrawals) + 1}
      /\ Len(withdrawals) + 1 \notin DOMAIN withdrawals
  BY <1>2, <1>4, LenProperties
<1> QED BY <1>2, <1>4, <1>5 DEF RowAdded, r

\* Its owner holds that much more, and nobody else.
LEMMA HeldAdded ==
  ASSUME TypeOK, NEW o, NEW x \in Nat, RowAdded(o, x), NEW p
  PROVE  HeldSum(withdrawals', p) =
           HeldSum(withdrawals, p) + (IF p = o THEN x ELSE 0)
<1> DEFINE n == Len(withdrawals) + 1
           f == AmountIn(withdrawals)
           g == AmountIn(withdrawals')
           S == HeldIn(withdrawals, p)
<1>1. withdrawals \in Seq(Withdrawal) /\ withdrawals' \in Seq(Withdrawal)
  BY DEF TypeOK, RowAdded
<1>2. /\ n \notin DOMAIN withdrawals
      /\ DOMAIN withdrawals' = DOMAIN withdrawals \cup {n}
      /\ \A v \in DOMAIN withdrawals : withdrawals'[v] = withdrawals[v]
      /\ withdrawals'[n].owner = o /\ withdrawals'[n].amount = x
      /\ withdrawals'[n].status = "PENDING"
  BY DEF RowAdded, NewWithdrawal
<1>3. /\ IsFiniteSet(S) /\ S \subseteq DOMAIN withdrawals /\ IsIntOn(f, S)
      /\ IsIntOn(g, HeldIn(withdrawals', p))
      /\ Sum(f, S) \in Nat
  BY <1>1, HeldSums DEF HeldSum
<1>4. HeldIn(withdrawals', p) = IF p = o THEN S \cup {n} ELSE S
  BY <1>2 DEF HeldIn, Live
<1>5. (\A v \in S : g[v] = f[v]) /\ g[n] = x /\ n \notin S
  <2> HIDE DEF n
  <2> QED BY <1>2, <1>3 DEF AmountIn
<1>6. /\ HeldSum(withdrawals', p) = Sum(g, HeldIn(withdrawals', p))
      /\ HeldSum(withdrawals, p) = Sum(f, S)
  BY DEF HeldSum
<1> HIDE DEF n, f, g, S
<1>7. Sum(g, S) = Sum(f, S)
  BY <1>3, <1>5, SumCongruence
<1>8. CASE p = o
  <2>1. IsIntOn(g, S \cup {n})
    BY <1>3, <1>4, <1>8
  <2>2. Sum(g, S \cup {n}) = Sum(g, S) + g[n]
    BY <1>3, <1>5, <2>1, SumAdd
  <2> QED BY <1>4, <1>5, <1>6, <1>7, <1>8, <2>2
<1>9. CASE p # o
  BY <1>3, <1>4, <1>6, <1>7, <1>9
<1> QED BY <1>8, <1>9

\* What does not look at the new row.
LEMMA AddedKeeps ==
  ASSUME IInv, NEW o, NEW x, RowAdded(o, x), Len(withdrawals) < MaxWithdrawals,
         UNCHANGED <<transfers, pay, notice>>
  PROVE  /\ TransfersInv' /\ PaymentsInv' /\ NoticesInv' /\ BookedOnce'
         /\ Len(withdrawals') <= MaxWithdrawals
<1>1. /\ TypeOK /\ TablesInv
      /\ TransfersInv /\ PaymentsInv /\ NoticesInv /\ BookedOnce
  BY DEF IInv, MoneyIsHeld
<1> DEFINE n == Len(withdrawals) + 1
<1>2. /\ DOMAIN withdrawals' = DOMAIN withdrawals \cup {n}
      /\ \A v \in DOMAIN withdrawals : withdrawals'[v] = withdrawals[v]
      /\ withdrawals'[n].status = "PENDING" /\ withdrawals'[n].transfer = 0
      /\ withdrawals'[n].booked = 0
      /\ n <= MaxWithdrawals /\ Len(withdrawals') = n
  BY <1>1, RowType, WithdrawalsAssumption DEF RowAdded, NewWithdrawal
<1>3. \A u : Unrecorded(u)' <=> Unrecorded(u)
  BY DEF Unrecorded
<1> HIDE DEF n
<1>4. TransfersInv'
  BY <1>1, <1>2, <1>3 DEF TransfersInv, Status
<1>5. PaymentsInv'
  BY <1>1, <1>2 DEF PaymentsInv, Status
<1>6. NoticesInv'
  BY <1>1, <1>3, NoticesKept
<1>7. BookedOnce'
  BY <1>1, <1>2 DEF BookedOnce, Status
<1> QED BY <1>2, <1>4, <1>5, <1>6, <1>7

\* A player asks for what the balance has.
LEMMA StoreKeeps ==
  ASSUME IInv, NEW p \in Players, NEW x \in Amounts, Store(p, x)
  PROVE  IInv'
<1>1. TypeOK /\ HeldOrReturned /\ CommissionsFollowWithdrawal /\ TablesInv
  BY DEF IInv, MoneyIsHeld
<1>2. /\ Len(withdrawals) < MaxWithdrawals /\ balance[p] >= x
      /\ balance' = [balance EXCEPT ![p] = @ - x]
      /\ withdrawals' = Append(withdrawals, NewWithdrawal(p, x))
      /\ UNCHANGED <<commissions, transfers, pay, notice, form>>
  BY DEF Store, Funds
<1>3. x \in Nat
  BY WithdrawalsAssumption
<1>4. RowAdded(p, x)
  BY <1>1, <1>2, <1>3, RowAppended
<1>5. /\ balance' \in [Players -> Nat]
      /\ balance'[p] = balance[p] - x
      /\ \A q \in Players : q # p => balance'[q] = balance[q]
      /\ \A q \in Players : balance[q] \in Nat
  BY <1>1, <1>2, <1>3 DEF TypeOK
<1>6. withdrawals \in Seq(Withdrawal) /\ withdrawals' \in Seq(Withdrawal)
  BY <1>1, <1>4 DEF TypeOK, RowAdded
<1>7. HeldOrReturned'
  <2>1. ASSUME NEW q \in Players
        PROVE  balance'[q] + HeldSum(withdrawals', q) = Opening[q]
    <3>1. balance[q] + HeldSum(withdrawals, q) = Opening[q]
      BY <1>1, <1>6, HeldByPlayer
    <3>2. HeldSum(withdrawals', q) =
            HeldSum(withdrawals, q) + (IF q = p THEN x ELSE 0)
      BY <1>1, <1>3, <1>4, HeldAdded
    <3>3. HeldSum(withdrawals, q) \in Nat
      BY <1>6, HeldSums
    <3> QED BY <1>3, <1>5, <3>1, <3>2, <3>3
  <2> QED BY <1>6, <2>1, HeldByPlayer
<1>8. CommissionsFollowWithdrawal'
  <2> DEFINE n == Len(withdrawals) + 1
  <2>1. /\ DOMAIN withdrawals' = DOMAIN withdrawals \cup {n}
        /\ \A v \in DOMAIN withdrawals : withdrawals'[v] = withdrawals[v]
        /\ withdrawals'[n].owner \notin Affiliates
    BY <1>4, WithdrawalsAssumption DEF RowAdded, NewWithdrawal
  <2> HIDE DEF n
  <2>2. \A d \in Deposits : commissions[d].status \in {"RESERVED", "PAID"} =>
          commissions[d].withdrawal \in DOMAIN withdrawals
    BY <1>1 DEF CommissionsFollowWithdrawal, TablesInv
  <2>3. ASSUME NEW d \in Deposits
        PROVE  LET c == commissions[d].status  v == commissions[d].withdrawal
               IN  /\ (c \in {"UNPAID", "NONE", "OPEN"}) <=> (v = 0)
                   /\ c = "RESERVED" =>
                        withdrawals'[v].status \in {"PENDING", "APPROVED"}
                   /\ c = "PAID" => withdrawals'[v].status = "PAID"
    BY <1>1, <2>1, <2>2 DEF CommissionsFollowWithdrawal, Status
  <2>4. ASSUME NEW v \in DOMAIN withdrawals',
               withdrawals'[v].owner \in Affiliates,
               withdrawals'[v].status # "REJECTED"
        PROVE  withdrawals'[v].amount =
                 CommissionOn({d \in Deposits : commissions[d].withdrawal = v})
    BY <1>1, <2>1, <2>4
       DEF CommissionsFollowWithdrawal, Status, IsCommission, AmountOf
  <2>5. commissions' = commissions
    BY <1>2
  <2> QED BY <2>3, <2>4, <2>5
          DEF CommissionsFollowWithdrawal, Status, IsCommission, AmountOf
<1>9. /\ TransfersInv' /\ PaymentsInv' /\ NoticesInv' /\ BookedOnce'
      /\ Len(withdrawals') <= MaxWithdrawals
  BY <1>2, <1>4, AddedKeeps
<1>10. TypeOK'
  BY <1>1, <1>2, <1>5, <1>6 DEF TypeOK
<1>11. TablesInv'
  BY <1>1, <1>2, <1>4, <1>9 DEF TablesInv, RowAdded
<1> QED BY <1>7, <1>8, <1>9, <1>10, <1>11 DEF IInv, MoneyIsHeld

\* The withdrawal of commissions is for the deposits that are reserved for it,
\* since each row was still open when it was locked.
LEMMA ReserveKeeps ==
  ASSUME IInv, NEW c \in Confirmers, Reserve(c)
  PROVE  IInv'
<1> DEFINE f == form[c]
           D == f.open \cup f.missing
           x == CommissionOn(D)
           n == Len(withdrawals) + 1
<1>1. TypeOK /\ HeldOrReturned /\ CommissionsFollowWithdrawal /\ TablesInv
  BY DEF IInv, MoneyIsHeld
<1>2. /\ form' = [form EXCEPT ![c] = NoPreview]
      /\ UNCHANGED <<balance, transfers, pay, notice>>
      /\ \/ /\ StillOpen(f) /\ Len(withdrawals) < MaxWithdrawals
            /\ withdrawals' = Append(withdrawals,
                                     NewWithdrawal(f.affiliate, x))
            /\ commissions' = Moved(D, "RESERVED", n)
         \/ UNCHANGED <<withdrawals, commissions>>
  BY DEF Reserve
<1>3. /\ f.affiliate \in Affiliates /\ f.open \in SUBSET Deposits
      /\ f.missing \in SUBSET Deposits /\ D \in SUBSET Deposits
  BY <1>1 DEF TypeOK
<1>4. NoPreview \in [step : {"idle", "reserve"}, affiliate : Affiliates,
                    open : SUBSET Deposits, missing : SUBSET Deposits]
  <2>1. (CHOOSE a \in Affiliates : TRUE) \in Affiliates
    BY WithdrawalsAssumption
  <2> QED BY <2>1 DEF NoPreview
<1>5. form' \in [Confirmers ->
         [step : {"idle", "reserve"}, affiliate : Affiliates,
          open : SUBSET Deposits, missing : SUBSET Deposits]]
  BY <1>1, <1>2, <1>4 DEF TypeOK
<1>6. CASE UNCHANGED <<withdrawals, commissions>>
  BY <1>2, <1>5, <1>6, FormKeeps DEF FormState
<1>7. CASE /\ StillOpen(f) /\ Len(withdrawals) < MaxWithdrawals
           /\ withdrawals' = Append(withdrawals,
                                    NewWithdrawal(f.affiliate, x))
           /\ commissions' = Moved(D, "RESERVED", n)
  <2>1. x \in Nat
    BY <1>3, CommissionOnType
  <2>2. RowAdded(f.affiliate, x)
    BY <1>1, <1>3, <1>7, <2>1, RowAppended
  <2>3. withdrawals \in Seq(Withdrawal) /\ withdrawals' \in Seq(Withdrawal)
    BY <1>1, <2>2 DEF TypeOK, RowAdded
  <2>4. n \in 0 .. MaxWithdrawals /\ n # 0
    BY <1>1, <1>7, RowType, WithdrawalsAssumption
  <2>5. /\ commissions' \in [Deposits -> CommissionRow]
        /\ \A d \in D : /\ commissions'[d].status = "RESERVED"
                        /\ commissions'[d].withdrawal = n
        /\ \A d \in Deposits \ D : commissions'[d] = commissions[d]
    <3>1. commissions' = Moved(D, "RESERVED", n)
      BY <1>7
    <3> HIDE DEF D, n
    <3> QED BY <1>1, <1>3, <2>4, <3>1, MovedTo DEF CommissionRow
  <2>6. HeldOrReturned'
    <3>1. ASSUME NEW q \in Players
          PROVE  balance'[q] + HeldSum(withdrawals', q) = Opening[q]
      <4>1. balance[q] + HeldSum(withdrawals, q) = Opening[q]
        BY <1>1, <2>3, HeldByPlayer
      <4>2. q # f.affiliate
        BY <1>3, WithdrawalsAssumption
      <4>3. HeldSum(withdrawals', q) = HeldSum(withdrawals, q) + 0
        BY <1>1, <2>1, <2>2, <4>2, HeldAdded
      <4>4. HeldSum(withdrawals, q) \in Nat
        BY <2>3, HeldSums
      <4> QED BY <1>2, <4>1, <4>3, <4>4
    <3> QED BY <2>3, <3>1, HeldByPlayer
  <2>7. \A d \in D : commissions[d].withdrawal = 0
    BY <1>1, <1>3, <1>7 DEF StillOpen, CommissionsFollowWithdrawal
  <2>8. /\ DOMAIN withdrawals' = DOMAIN withdrawals \cup {n}
        /\ n \notin DOMAIN withdrawals
        /\ \A v \in DOMAIN withdrawals : withdrawals'[v] = withdrawals[v]
        /\ withdrawals'[n].amount = x /\ withdrawals'[n].status = "PENDING"
        /\ \A v \in DOMAIN withdrawals : v # 0
    BY <1>1, <2>2, RowType DEF RowAdded, NewWithdrawal
  <2>9. \A d \in Deposits : commissions[d].withdrawal # 0 =>
          commissions[d].withdrawal \in DOMAIN withdrawals
    BY <1>1 DEF TablesInv
  <2> HIDE DEF n, x, D, f
  <2>10. CommissionsFollowWithdrawal'
    <3>1. ASSUME NEW d \in Deposits
          PROVE  LET s == commissions'[d].status
                     v == commissions'[d].withdrawal
                 IN  /\ (s \in {"UNPAID", "NONE", "OPEN"}) <=> (v = 0)
                     /\ s = "RESERVED" =>
                          withdrawals'[v].status \in {"PENDING", "APPROVED"}
                     /\ s = "PAID" => withdrawals'[v].status = "PAID"
      <4>1. CASE d \in D
        BY <2>4, <2>5, <2>8, <4>1
      <4>2. CASE d \notin D
        <5>1. commissions[d].status \in {"RESERVED", "PAID"} =>
                commissions[d].withdrawal \in DOMAIN withdrawals
          BY <1>1, <2>9 DEF CommissionsFollowWithdrawal
        <5> QED BY <1>1, <2>5, <2>8, <4>2, <5>1
                DEF CommissionsFollowWithdrawal, Status
      <4> QED BY <4>1, <4>2
    <3>2. ASSUME NEW v \in DOMAIN withdrawals',
                 withdrawals'[v].owner \in Affiliates,
                 withdrawals'[v].status # "REJECTED"
          PROVE  withdrawals'[v].amount =
                   CommissionOn({d \in Deposits :
                                   commissions'[d].withdrawal = v})
      <4>1. CASE v = n
        <5>1. {d \in Deposits : commissions'[d].withdrawal = v} = D
          BY <1>3, <2>4, <2>5, <2>8, <2>9, <4>1
        <5> QED BY <2>8, <4>1, <5>1 DEF x
      <4>2. CASE v \in DOMAIN withdrawals
        <5>1. {d \in Deposits : commissions'[d].withdrawal = v}
                = {d \in Deposits : commissions[d].withdrawal = v}
          BY <2>5, <2>7, <2>8, <4>2
        <5> QED BY <1>1, <2>8, <3>2, <4>2, <5>1
                DEF CommissionsFollowWithdrawal, Status, IsCommission, AmountOf
      <4> QED BY <2>8, <4>1, <4>2
    <3> QED BY <3>1, <3>2
            DEF CommissionsFollowWithdrawal, Status, IsCommission, AmountOf
  <2>11. /\ TransfersInv' /\ PaymentsInv' /\ NoticesInv' /\ BookedOnce'
         /\ Len(withdrawals') <= MaxWithdrawals
    BY <1>2, <1>7, <2>2, AddedKeeps
  <2>12. TypeOK'
    BY <1>1, <1>2, <1>5, <2>3, <2>5 DEF TypeOK, CommissionRow
  <2>13. TablesInv'
    BY <1>1, <1>2, <2>5, <2>8, <2>9, <2>11 DEF TablesInv
  <2> QED BY <2>6, <2>10, <2>11, <2>12, <2>13 DEF IInv, MoneyIsHeld
<1> QED BY <1>2, <1>6, <1>7

-----------------------------------------------------------------------------
(* The specification.                                                      *)

\* Nothing is asked for yet.
LEMMA InitHolds == Init => IInv
<1> SUFFICES ASSUME Init PROVE IInv
  OBVIOUS
<1>1. /\ withdrawals = <<>> /\ transfers = <<>> /\ balance = Opening
      /\ commissions = [d \in Deposits |->
                          [status |-> "UNPAID", withdrawal |-> 0]]
      /\ pay = [a \in Payers |-> Idle] /\ notice = [h \in Hooks |-> Idle]
      /\ form = [c \in Confirmers |-> NoPreview]
  BY DEF Init
<1>2. /\ withdrawals \in Seq(Withdrawal) /\ DOMAIN withdrawals = {}
      /\ Len(withdrawals) = 0
      /\ transfers \in Seq(Transfer) /\ DOMAIN transfers = {}
      /\ Len(transfers) = 0
  BY <1>1
<1>3. NoPreview \in FormState
  <2>1. (CHOOSE a \in Affiliates : TRUE) \in Affiliates
    BY WithdrawalsAssumption
  <2> QED BY <2>1 DEF NoPreview, FormState
<1>4. TypeOK
  <2>1. balance \in [Players -> Nat] /\ 0 \in 0 .. MaxWithdrawals
    BY <1>1, WithdrawalsAssumption
  <2>2. commissions \in
          [Deposits -> [status : {"UNPAID", "NONE", "OPEN", "RESERVED", "PAID"},
                        withdrawal : 0 .. MaxWithdrawals]]
    BY <1>1, <2>1
  <2> QED BY <1>1, <1>2, <1>3, <2>1, <2>2 DEF TypeOK, FormState
<1>5. HeldOrReturned
  <2>1. ASSUME NEW p \in Players
        PROVE  balance[p] + HeldSum(withdrawals, p) = Opening[p]
    <3>1. HeldIn(withdrawals, p) = {}
      BY <1>2 DEF HeldIn
    <3>2. HeldSum(withdrawals, p) = 0
      BY <3>1, SumEmpty DEF HeldSum
    <3>3. balance[p] = Opening[p] /\ Opening[p] \in Nat
      BY <1>1, WithdrawalsAssumption
    <3> QED BY <3>2, <3>3
  <2> QED BY <1>2, <2>1, HeldByPlayer
<1>6. CommissionsFollowWithdrawal
  BY <1>1, <1>2 DEF CommissionsFollowWithdrawal
<1>7. BookedOnce /\ TablesInv /\ TransfersInv
  BY <1>1, <1>2, WithdrawalsAssumption DEF BookedOnce, TablesInv, TransfersInv
<1>8. PaymentsInv /\ NoticesInv
  BY <1>1 DEF PaymentsInv, NoticesInv, Idle
<1> QED BY <1>4, <1>5, <1>6, <1>7, <1>8 DEF IInv, MoneyIsHeld

\* A confirmation begins with a preview.
LEMMA ConfirmKeeps ==
  ASSUME IInv, NEW c \in Confirmers, NEW a \in Affiliates, Confirm(c, a)
  PROVE  IInv'
<1>1. form \in [Confirmers -> FormState]
  BY DEF IInv, MoneyIsHeld, TypeOK, FormState
<1>2. EarnedBy(a, "OPEN") \subseteq Deposits
      /\ EarnedBy(a, "NONE") \subseteq Deposits
  BY DEF EarnedBy
<1>3. form' \in [Confirmers -> FormState]
  BY <1>1, <1>2 DEF Confirm, FormState
<1> QED BY <1>3, FormKeeps DEF Confirm

\* What never happens where one payer works and the provider only refuses: no
\* payer dies, and no notice opens a withdrawal again.
LEMMA NeverHappens ==
  ASSUME IInv, Orderly
  PROVE  /\ \A a \in Payers : ~PayerDies(a)
         /\ \A h \in Hooks : ~WebhookReopen(h)
BY DEF IInv, NoticesInv, Orderly, PayerDies, WebhookReopen

\* Every step preserves the invariant.
LEMMA NextKeeps ==
  ASSUME IInv, Orderly, [Next]_vars
  PROVE  IInv'
<1>1. CASE UNCHANGED vars
  <2>1. form' \in [Confirmers -> FormState]
    BY <1>1 DEF vars, IInv, MoneyIsHeld, TypeOK, FormState
  <2> QED BY <1>1, <2>1, FormKeeps DEF vars
<1>2. ASSUME NEW d \in Deposits, DepositPaid(d) \/ Preview(d)
      PROVE  IInv'
  <2>1. CASE DepositPaid(d)
    BY <2>1, EarnedKeeps DEF DepositPaid
  <2>2. CASE Preview(d)
    BY <2>2, EarnedKeeps DEF Preview
  <2> QED BY <1>2, <2>1, <2>2
<1>3. ASSUME NEW a \in Payers, PayerStep(a) \/ PayerDies(a)
      PROVE  IInv'
  BY <1>3, CreateTransferKeeps, TransferRefusedKeeps, PayFailedKeeps,
     PayRecordKeeps, NeverHappens DEF PayerStep
<1>4. ASSUME NEW h \in Hooks, Notify(h) \/ HookStep(h)
      PROVE  IInv'
  BY <1>4, HandleWebhookKeeps, ValidateKeeps, WebhookPaidKeeps, LinkKeeps,
     NeverHappens DEF Notify, HookStep
<1>5. ASSUME NEW c \in Confirmers,
             Reserve(c) \/ \E a \in Affiliates : Confirm(c, a)
      PROVE  IInv'
  BY <1>5, ReserveKeeps, ConfirmKeeps
<1>6. ASSUME NEW w \in DOMAIN withdrawals,
             Reject(w) \/ \E a \in Payers : PayViaPix(a, w)
      PROVE  IInv'
  BY <1>6, RejectKeeps, PayViaPixKeeps
<1>7. ASSUME NEW t \in DOMAIN transfers, FinishTransfer(t)
      PROVE  IInv'
  BY <1>7, FinishKeeps
<1>8. ASSUME NEW p \in Players, NEW x \in Amounts, Store(p, x)
      PROVE  IInv'
  BY <1>8, StoreKeeps
<1> QED BY <1>1, <1>2, <1>3, <1>4, <1>5, <1>6, <1>7, <1>8 DEF Next

\* The inductive invariant, where one administrator pays at a time and the
\* provider may refuse but neither loses an answer nor fails a transfer.
THEOREM Invariance ==
  ASSUME Orderly
  PROVE  Spec => []IInv
<1>1. IInv /\ [Next]_vars => IInv'
  BY NextKeeps
<1> QED BY <1>1, InitHolds, PTL DEF Spec

\* A player's money is in the balance or in withdrawals that are not rejected,
\* and each deposit's commission is in one withdrawal at most, which is for
\* just the deposits that are reserved for it.
THEOREM MoneyStaysHeld ==
  ASSUME Orderly
  PROVE  Spec => []MoneyIsHeld
<1>1. IInv => MoneyIsHeld
  BY DEF IInv
<1> QED BY <1>1, Invariance, PTL

\* A withdrawal is sent once and booked once, however often the provider says
\* that its transfer is done.
THEOREM NothingLeavesTwice ==
  ASSUME Orderly
  PROVE  Spec => []SentAndBookedOnce
<1>1. IInv => SentAndBookedOnce
  BY DEF IInv, TransfersInv, SentAndBookedOnce, OneTransfer
<1> QED BY <1>1, Invariance, PTL

\* No step opens a paid or rejected withdrawal again.
LEMMA ClosedStays ==
  ASSUME IInv, Orderly, Next, NEW w \in DOMAIN withdrawals,
         Status(w) \in {"PAID", "REJECTED"}
  PROVE  withdrawals'[w].status = Status(w)
<1>1. TypeOK
  BY DEF IInv, MoneyIsHeld
<1>2. ASSUME NEW v \in DOMAIN withdrawals, v # w,
             NEW s, NEW t, NEW b, RowBecomes(v, s, t, b)
      PROVE  withdrawals'[w].status = Status(w)
  BY <1>2 DEF RowBecomes, Status
<1>3. ASSUME NEW v \in DOMAIN withdrawals, v # w,
             NEW s \in {"PENDING", "APPROVED", "PAID", "REJECTED"},
             SetStatus(v, s)
      PROVE  withdrawals'[w].status = Status(w)
  BY <1>1, <1>2, <1>3, StatusRow
<1>4. ASSUME NEW a \in Payers, PayerStep(a) \/ PayerDies(a)
      PROVE  withdrawals'[w].status = Status(w)
  <2>1. pay[a].step # "idle" => /\ pay[a].w \in DOMAIN withdrawals
                                /\ pay[a].w # w
    BY DEF IInv, PaymentsInv
  <2>2. CASE CreateTransfer(a) \/ TransferRefused(a)
    BY <2>2 DEF CreateTransfer, TransferRefused, Status
  <2>3. CASE PayFailed(a)
    BY <1>3, <2>1, <2>3 DEF PayFailed
  <2>4. CASE PayRecord(a)
    BY <2>1, <2>4 DEF PayRecord, Paid, Status
  <2> QED BY <1>4, <2>2, <2>3, <2>4, NeverHappens DEF PayerStep
<1>5. ASSUME NEW h \in Hooks, Notify(h) \/ HookStep(h)
      PROVE  withdrawals'[w].status = Status(w)
  <2>1. CASE Notify(h)
    BY <2>1 DEF Notify, HandleWebhook, ValidateTransfer, Status
  <2>2. CASE WebhookPaid(h)
    <3>1. Status(notice[h].w) \in {"APPROVED", "PAID"}
      BY <2>2 DEF IInv, NoticesInv, TransfersInv, WebhookPaid
    <3> QED BY <2>2, <3>1 DEF WebhookPaid, MarkPaid, Unpaid, Paid, Status
  <2>3. CASE LinkTransfer(h)
    <3> DEFINE x == notice[h].w
               t == notice[h].t
    <3>1. notice[h].step = "link" /\ notice[h].step # "idle"
      BY <2>3 DEF LinkTransfer
    <3>2. x \in DOMAIN withdrawals /\ t \in 1 .. MaxTransfers
      BY <1>1, <3>1, NoticeType DEF IInv, NoticesInv, TransfersInv
    <3>3. withdrawals' = [withdrawals EXCEPT ![x].transfer = t]
      BY <2>3 DEF LinkTransfer
    <3> HIDE DEF x, t
    <3>4. RowBecomes(x, Status(x), t, withdrawals[x].booked)
      BY <1>1, <3>2, <3>3, LinkedRow
    <3> QED BY <3>4 DEF RowBecomes, Status
  <2> QED BY <1>5, <2>1, <2>2, <2>3, NeverHappens DEF HookStep
<1>6. ASSUME NEW v \in DOMAIN withdrawals,
             Reject(v) \/ \E a \in Payers : PayViaPix(a, v)
      PROVE  withdrawals'[w].status = Status(w)
  <2>1. v # w
    BY <1>6 DEF Reject, Rejectable, PayViaPix, Payable
  <2> QED BY <1>3, <1>6, <2>1 DEF Reject, PayViaPix
<1>7. ASSUME NEW t \in DOMAIN transfers, FinishTransfer(t)
      PROVE  withdrawals'[w].status = Status(w)
  BY <1>7 DEF FinishTransfer, Status
<1>8. ASSUME NEW o \in Players \cup Affiliates, NEW x \in Nat,
             withdrawals' = Append(withdrawals, NewWithdrawal(o, x))
      PROVE  withdrawals'[w].status = Status(w)
  <2>1. RowAdded(o, x)
    BY <1>1, <1>8, RowAppended
  <2> QED BY <2>1 DEF RowAdded, Status
<1>9. ASSUME NEW p \in Players, NEW x \in Amounts, Store(p, x)
      PROVE  withdrawals'[w].status = Status(w)
  BY <1>8, <1>9, WithdrawalsAssumption DEF Store
<1>10. ASSUME NEW c \in Confirmers,
              Reserve(c) \/ \E a \in Affiliates : Confirm(c, a)
       PROVE  withdrawals'[w].status = Status(w)
  <2> DEFINE D == form[c].open \cup form[c].missing
  <2>1. form[c].affiliate \in Affiliates /\ D \in SUBSET Deposits
    BY <1>1 DEF TypeOK
  <2>2. \/ withdrawals' = withdrawals
        \/ withdrawals' = Append(withdrawals,
                           NewWithdrawal(form[c].affiliate, CommissionOn(D)))
    BY <1>10 DEF Reserve, Confirm
  <2> HIDE DEF D
  <2>3. CommissionOn(D) \in Nat
    BY <2>1, CommissionOnType
  <2> QED BY <1>8, <2>1, <2>2, <2>3 DEF Status
<1>11. ASSUME NEW d \in Deposits, DepositPaid(d) \/ Preview(d)
       PROVE  withdrawals'[w].status = Status(w)
  BY <1>11 DEF DepositPaid, Preview, Status
<1> QED BY <1>4, <1>5, <1>6, <1>7, <1>9, <1>10, <1>11 DEF Next

\* What is paid or rejected stays so.
THEOREM ClosedStaysClosed ==
  ASSUME Orderly
  PROVE  Spec => ClosedIsFinal
<1> DEFINE Final ==
      \A w \in DOMAIN withdrawals :
        Status(w) \in {"PAID", "REJECTED"} =>
          withdrawals'[w].status = Status(w)
<1>1. IInv /\ [Next]_vars => [Final]_vars
  <2>1. ASSUME IInv, Next PROVE Final
    BY <2>1, ClosedStays
  <2> HIDE DEF Final
  <2> QED BY <2>1
<1>2. Spec => [][Final]_vars
  BY <1>1, Invariance, PTL DEF Spec
<1> QED BY <1>2 DEF ClosedIsFinal
=============================================================================
