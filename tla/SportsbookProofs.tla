-------------------------- MODULE SportsbookProofs --------------------------
(***************************************************************************)
(* Theorems about MCSportsbook.  Each component has a section: its types,  *)
(* the inductive invariant that carries its property, a lemma that it      *)
(* holds at first, one per action or kind of action that it is kept, and   *)
(* one that it gives the property.  The last section puts them together.   *)
(***************************************************************************)
EXTENDS MCSportsbook, SumTheorems, TLAPS

-----------------------------------------------------------------------------
(* Tax.                                                                    *)

\* Division with remainder, the one fact about \div the proofs use.
LEMMA Division ==
  ASSUME NEW n \in Int
  PROVE  /\ n \div Basis \in Int
         /\ Basis * (n \div Basis) <= n
         /\ n < Basis * (n \div Basis) + Basis
BY DEF Basis

\* The tax is the nearest cent (decimal.Round(2) of a non-negative amount).
LEMMA RoundsToNearest ==
  ASSUME NEW amount \in Nat, NEW rate \in Nat
  PROVE  /\ TaxOn(amount, rate) \in Int
         /\ Nearest(TaxOn(amount, rate), amount, rate)
<1> DEFINE p == amount * rate
           t == (p + Basis \div 2) \div Basis
<1>1. p \in Int
  OBVIOUS
<1>2. TaxOn(amount, rate) = t
  BY DEF TaxOn
<1> HIDE DEF p
<1>3. /\ t \in Int /\ Basis * t <= p + 5000 /\ p + 5000 < Basis * t + Basis
  BY <1>1, Division DEF Basis
<1> HIDE DEF t
<1>4. -Basis < 2 * (Basis * t - p) /\ 2 * (Basis * t - p) <= Basis
  BY <1>1, <1>3 DEF Basis
<1> QED BY <1>2, <1>3, <1>4 DEF Nearest, p

\* A tax at a rate below one takes part of the amount, never more.
LEMMA TaxWithinAmount ==
  ASSUME NEW amount \in Nat, NEW rate \in Nat, rate < Basis
  PROVE  TaxOn(amount, rate) \in 0 .. amount
<1> DEFINE p == amount * rate
<1>1. p \in Nat /\ p <= amount * (Basis - 1)
  BY DEF Basis
<1>2. p <= 9999 * amount
  BY <1>1 DEF Basis
<1> HIDE DEF p
<1>3. (p + 5000) \div 10000 \in 0 .. amount
  BY <1>1, <1>2
<1> QED BY <1>3 DEF TaxOn, Basis, p

\* A larger taxable amount is not taxed less, nor more by more than it grew.
LEMMA TaxMonotone ==
  ASSUME NEW x \in Nat, NEW y \in Nat, x <= y, NEW rate \in Nat, rate < Basis
  PROVE  TaxOn(y, rate) - TaxOn(x, rate) \in 0 .. y - x
<1> DEFINE p == x * rate
           q == y * rate
           d == y - x
<1>1. p \in Nat /\ q \in Nat /\ q = p + d * rate
  OBVIOUS
<1>2. d * rate \in Nat /\ d * rate <= d * (Basis - 1) /\ d \in Nat
  BY DEF Basis
<1>3. p <= q /\ q <= p + 9999 * d
  BY <1>1, <1>2 DEF Basis
<1> HIDE DEF p, q, d
<1>4. (q + 5000) \div 10000 - (p + 5000) \div 10000 \in 0 .. d
  BY <1>1, <1>2, <1>3
<1> QED BY <1>4 DEF TaxOn, Basis, p, q, d
-----------------------------------------------------------------------------
(* The quotes.                                                             *)

\* The states the engine is asked in.
QuoteType == country \in DOMAIN Regimes /\ bet \in Nat /\ payout \in Nat

\* The rates of a configured country are those validateRegime accepts.
LEMMA ConfiguredRates ==
  ASSUME NEW c \in DOMAIN Regimes
  PROVE  /\ Regimes[c].stakeRate \in Nat
         /\ Regimes[c].winningsRate \in Nat /\ Regimes[c].winningsRate < Basis
         /\ Regimes[c].threshold \in Nat
BY RegimesAssumption DEF ValidRegime, Regime

\* Every quote is for a configured country and amounts in cents.
LEMMA QuotesTyped == QuotesSpec => []QuoteType
<1>1. QuotesInit => QuoteType
  BY QuotesAssumption DEF QuotesInit, QuoteType
<1>2. QuoteType /\ [QuotesNext]_quotesVars => QuoteType'
  BY DEF QuoteType, QuotesNext, Ask, quotesVars
<1> QED BY <1>1, <1>2, PTL DEF QuotesSpec

\* What ApplyPayoutTax taxes, as a function of the payout.
Taxable(p) ==
  IF Excess(p, bet) = 0 THEN 0
  ELSE Excess(Excess(p, bet), Regimes[country].threshold)

\* The taxable amount is part of the winnings and grows no faster than the
\* payout.
LEMMA TaxableBounds ==
  ASSUME QuoteType, NEW p \in Nat
  PROVE  /\ Taxable(p) \in Nat /\ Taxable(p + 1) \in Nat
         /\ Taxable(p) <= Excess(p, bet)
         /\ Taxable(p + 1) - Taxable(p) \in {0, 1}
<1>1. Regimes[country].threshold \in Nat /\ bet \in Nat
  BY ConfiguredRates DEF QuoteType
<1> QED BY <1>1 DEF Taxable, Excess

\* The rounding is to the nearest cent.
THEOREM NearestCent == QuotesSpec => []TaxIsNearestCent
<1>1. ASSUME QuoteType PROVE TaxIsNearestCent
  <2>1. /\ Regimes[country].stakeRate \in Nat
        /\ Regimes[country].winningsRate \in Nat
        /\ bet \in Nat /\ payout \in Nat
    BY <1>1, ConfiguredRates DEF QuoteType
  <2>2. Taxable(payout) \in Nat
    BY <1>1, <2>1, TaxableBounds
  <2>3. /\ Quote.taxable = Taxable(payout)
        /\ Quote.tax = TaxOn(Taxable(payout), Regimes[country].winningsRate)
    BY DEF Quote, PayoutBreakdown, Payout, Taxable
  <2>4. StakeBreakdown(country, bet).tax
          = TaxOn(bet, Regimes[country].stakeRate)
    BY DEF StakeBreakdown
  <2> QED BY <2>1, <2>2, <2>3, <2>4, RoundsToNearest DEF TaxIsNearestCent
<1> QED BY <1>1, QuotesTyped, PTL

\* The winnings tax never takes any of the stake back.
THEOREM StakeKept == QuotesSpec => []StakeNeverTaxedAsWinnings
<1>1. ASSUME QuoteType PROVE StakeNeverTaxedAsWinnings
  <2>1. /\ Regimes[country].winningsRate \in Nat
        /\ Regimes[country].winningsRate < Basis
        /\ bet \in Nat /\ payout \in Nat
    BY <1>1, ConfiguredRates DEF QuoteType
  <2> DEFINE tax == TaxOn(Taxable(payout), Regimes[country].winningsRate)
  <2>2. Taxable(payout) \in Nat /\ Taxable(payout) <= Excess(payout, bet)
    BY <1>1, <2>1, TaxableBounds
  <2>3. tax \in 0 .. Taxable(payout)
    BY <2>1, <2>2, TaxWithinAmount
  <2>4. Quote.net = payout - tax
    BY DEF Quote, PayoutBreakdown, Payout, Taxable
  <2> HIDE DEF tax
  <2>5. tax \in Nat /\ tax <= Excess(payout, bet)
    <3> DEFINE x == Taxable(payout)
               e == Excess(payout, bet)
    <3>1. x \in Nat /\ e \in Nat /\ x <= e /\ tax \in 0 .. x
      BY <2>1, <2>2, <2>3 DEF Excess
    <3> HIDE DEF x, e
    <3>2. tax \in Nat /\ tax <= e
      BY <3>1
    <3> QED BY <3>2 DEF e
  <2> QED BY <2>1, <2>4, <2>5 DEF StakeNeverTaxedAsWinnings, Excess
<1> QED BY <1>1, QuotesTyped, PTL

\* One cent more of payout never nets less.
THEOREM NoCliff == QuotesSpec => NetGrowsWithPayout
<1>1. ASSUME QuoteType, [QuotesNext]_quotesVars PROVE [Quote'.net >= Quote.net]_quotesVars
  <2> SUFFICES ASSUME Ask PROVE Quote'.net >= Quote.net
    BY <1>1 DEF QuotesNext
  <2> DEFINE rate == Regimes[country].winningsRate
             x == Taxable(payout)
             y == Taxable(payout + 1)
  <2>1. rate \in Nat /\ rate < Basis /\ bet \in Nat /\ payout \in Nat
    BY <1>1, ConfiguredRates DEF QuoteType
  <2>2. x \in Nat /\ y \in Nat /\ y - x \in {0, 1}
    BY <1>1, <2>1, TaxableBounds
  <2>3. Quote.net = payout - TaxOn(x, rate)
    BY DEF Quote, PayoutBreakdown, Payout, Taxable
  <2>4. Quote'.net = (payout + 1) - TaxOn(y, rate)
    <3>1. payout' = payout + 1 /\ country' = country /\ bet' = bet
      BY DEF Ask
    <3>2. Quote'.net = payout' - TaxOn(IF Excess(payout', bet') = 0 THEN 0
                         ELSE Excess(Excess(payout', bet'),
                                     Regimes[country'].threshold),
                         Regimes[country'].winningsRate)
      BY DEF Quote, PayoutBreakdown, Payout
    <3>3. Taxable(payout + 1) = IF Excess(payout', bet') = 0 THEN 0
                                ELSE Excess(Excess(payout', bet'),
                                            Regimes[country'].threshold)
      BY <3>1, Zenon DEF Taxable
    <3>4. Quote'.net = payout' - TaxOn(y, Regimes[country'].winningsRate)
      BY <3>2, <3>3, Zenon
    <3> QED BY <3>1, <3>4
  <2> HIDE DEF rate, x, y
  <2>5. TaxOn(y, rate) - TaxOn(x, rate) \in 0 .. y - x
    BY <2>1, <2>2, TaxMonotone
  <2>6. TaxOn(x, rate) \in Int /\ TaxOn(y, rate) \in Int
    BY <2>1, <2>2, RoundsToNearest
  <2> QED BY <2>1, <2>2, <2>3, <2>4, <2>5, <2>6
<1> QED BY <1>1, QuotesTyped, PTL DEF QuotesSpec, NetGrowsWithPayout

-----------------------------------------------------------------------------
(* WalletRows.                                                             *)

Row == [balance : Int, version : Nat]
Places == {"new", "select", "update", "saved", "recorded", "listed", "conflict", "failed"}
SaverRecord == [at : Places, adds : Int, read : Row, version : Nat, moved : Int]

RowTypes ==
  /\ walletRow \in Row /\ added \in Int /\ unseen \in Int
  /\ saver \in [Savers -> SaverRecord]

\* The version a call selected is none later than today's, and while it is today's the
\* balance is what the call read and what had come since when it selected.
SelectedIsOfTheRow ==
  \A c \in Savers : saver[c].at = "update" =>
    /\ saver[c].version <= walletRow.version
    /\ SameVersion(c) => walletRow.balance = saver[c].read.balance + saver[c].moved

\* A row that exists has a version, and a call has read a row that exists.
Exists ==
  /\ walletRow # NoWallet => walletRow.version >= 1
  /\ \A c \in Savers : saver[c].at \in {"select", "update"} => walletRow.version >= 1

RowsInvariant == RowTypes /\ Exists /\ SelectedIsOfTheRow /\ BalanceAddsUp

-----------------------------------------------------------------------------
\* The row is created once, before any call read one (CreateWallet).
LEMMA CreateKeeps ==
  ASSUME RowsInvariant, CreateWallet  PROVE RowsInvariant'
<1> USE DEF RowsInvariant, CreateWallet, NoWallet
<1>1. RowTypes'
  BY DEF RowTypes, Row
<1>2. ASSUME NEW c \in Savers  PROVE saver[c].at \notin {"select", "update"}
  BY DEF Exists
<1>3. Exists' /\ SelectedIsOfTheRow'
  BY <1>2 DEF Exists, SelectedIsOfTheRow
<1>4. BalanceAddsUp'
  BY DEF BalanceAddsUp
<1> QED BY <1>1, <1>3, <1>4

\* What a call reads is the row as it is (GetWallet, GetBalance).
LEMMA ReadKeeps ==
  ASSUME RowsInvariant, NEW c \in Savers, GetWallet(c)  PROVE RowsInvariant'
<1> USE DEF RowsInvariant, GetWallet
<1>1. PICK n \in Increments :
        saver' = [saver EXCEPT ![c] =
          [at |-> "select", adds |-> n, read |-> walletRow, version |-> 0, moved |-> 0]]
  OBVIOUS
<1>2. n \in Int
  BY WalletRowsAssumption
<1>3. RowTypes'
  BY <1>1, <1>2 DEF RowTypes, Places, SaverRecord
<1>4. walletRow.version >= 1
  BY DEF Exists
<1>5. Exists'
  BY <1>1, <1>4 DEF Exists, RowTypes
<1>6. SelectedIsOfTheRow'
  BY <1>1 DEF SelectedIsOfTheRow, RowTypes, SameVersion
<1> QED BY <1>3, <1>5, <1>6 DEF BalanceAddsUp

\* The SELECT notes the version, and how far the balance has moved (SELECT ... FOR UPDATE).
LEMMA SelectKeeps ==
  ASSUME RowsInvariant, NEW c \in Savers, SelectVersion(c)  PROVE RowsInvariant'
<1> DEFINE gone == walletRow.balance - saver[c].read.balance
<1>1. /\ RowTypes /\ Exists /\ SelectedIsOfTheRow /\ BalanceAddsUp /\ saver[c].at = "select"
      /\ saver' = [saver EXCEPT ![c].at = "update", ![c].version = walletRow.version,
                                ![c].moved = gone]
      /\ UNCHANGED <<walletRow, added, unseen>>
  BY DEF RowsInvariant, SelectVersion
<1>2. /\ saver[c] \in SaverRecord /\ saver[c].read \in Row
      /\ walletRow.version \in Nat /\ walletRow.balance \in Int /\ gone \in Int
      /\ walletRow.balance = saver[c].read.balance + gone
  BY <1>1 DEF RowTypes, Row, SaverRecord
<1> HIDE DEF gone
<1>3. PICK k : k = [saver[c] EXCEPT !.at = "update"]
  OBVIOUS
<1>4. PICK m : m = [k EXCEPT !.version = walletRow.version]
  OBVIOUS
<1>5. PICK s : s = [m EXCEPT !.moved = gone]
  OBVIOUS
<1>6. saver' = [saver EXCEPT ![c] = s]
  BY <1>1, <1>3, <1>4, <1>5
<1>7. k \in SaverRecord /\ k.at = "update" /\ k.read = saver[c].read
  BY <1>2, <1>3 DEF SaverRecord, Places
<1>8. /\ m \in SaverRecord /\ m.at = "update" /\ m.read = saver[c].read
      /\ m.version = walletRow.version
  BY <1>2, <1>4, <1>7 DEF SaverRecord
<1>9. /\ s \in SaverRecord /\ s.at = "update" /\ s.read = saver[c].read
      /\ s.version = walletRow.version /\ s.moved = gone
  BY <1>2, <1>5, <1>8 DEF SaverRecord
<1>10. saver \in [Savers -> SaverRecord] /\ s \in SaverRecord
  BY <1>1, <1>9 DEF RowTypes
<1>11. saver' \in [Savers -> SaverRecord]
  BY <1>6, <1>10
<1>12. RowTypes'
  BY <1>1, <1>11 DEF RowTypes
<1>13. saver'[c] = s /\ \A d \in Savers \ {c} : saver'[d] = saver[d]
  BY <1>6, <1>10
<1>14. Exists'
  BY <1>1, <1>13 DEF Exists
<1>15. SelectedIsOfTheRow'
  <2> SUFFICES ASSUME NEW d \in Savers, saver'[d].at = "update"
               PROVE  /\ saver'[d].version <= walletRow.version
                      /\ saver'[d].version = walletRow.version =>
                           walletRow.balance = saver'[d].read.balance + saver'[d].moved
    BY <1>1 DEF SelectedIsOfTheRow, SameVersion
  <2>1. CASE d = c
    BY <1>2, <1>9, <1>13, <2>1
  <2>2. CASE d # c
    BY <1>1, <1>13, <2>2 DEF SelectedIsOfTheRow, SameVersion
  <2> QED BY <2>1, <2>2
<1>16. BalanceAddsUp'
  BY <1>1 DEF BalanceAddsUp
<1> QED BY <1>12, <1>14, <1>15, <1>16 DEF RowsInvariant

\* A call that leaves the row alone and is done with it disturbs nothing.
LEMMA LeaveKeeps ==
  ASSUME RowsInvariant, NEW c \in Savers, NEW p \in Places \ {"select", "update"},
         saver' = [saver EXCEPT ![c].at = p], UNCHANGED <<walletRow, added, unseen>>
  PROVE  RowsInvariant'
<1> USE DEF RowsInvariant
<1>1. RowTypes'
  BY DEF RowTypes, SaverRecord
<1>2. Exists'
  BY DEF Exists, RowTypes, SaverRecord
<1>3. SelectedIsOfTheRow'
  BY DEF SelectedIsOfTheRow, RowTypes, SaverRecord, SameVersion
<1> QED BY <1>1, <1>2, <1>3 DEF BalanceAddsUp

\* The update of an equal version writes what was read and the increment: the row's own
\* balance and the increment, less what had moved before the SELECT.
LEMMA UpdateKeeps ==
  ASSUME RowsInvariant, NEW c \in Savers, UpdateBalance(c)  PROVE RowsInvariant'
<1>1. CASE ~SameVersion(c)
  BY <1>1, LeaveKeeps DEF UpdateBalance, Places
<1>2. CASE SameVersion(c)
  <2>1. PICK answer \in {"saved", "failed"} : saver' = [saver EXCEPT ![c].at = answer]
    BY <1>2 DEF UpdateBalance
  <2>2. /\ saver[c].at = "update"
        /\ walletRow' = [balance |-> saver[c].read.balance + saver[c].adds,
                         version |-> walletRow.version + 1]
        /\ added' = added + saver[c].adds
        /\ unseen' = unseen + saver[c].moved
    BY <1>2 DEF UpdateBalance
  <2>3. /\ saver[c] \in SaverRecord /\ saver[c].read \in Row /\ saver[c].adds \in Int
        /\ saver[c].moved \in Int /\ saver[c].version \in Nat
        /\ walletRow \in Row /\ added \in Int /\ unseen \in Int
        /\ RowTypes /\ Exists /\ SelectedIsOfTheRow /\ BalanceAddsUp
    BY DEF RowsInvariant, RowTypes, SaverRecord
  <2>4. /\ walletRow'.balance = saver[c].read.balance + saver[c].adds
        /\ walletRow'.version = walletRow.version + 1 /\ walletRow' \in Row
        /\ walletRow.version \in Nat /\ walletRow.balance \in Int /\ saver[c].read.balance \in Int
    BY <2>2, <2>3 DEF Row
  <2>5. RowTypes'
    BY <2>1, <2>2, <2>3, <2>4 DEF RowTypes, SaverRecord, Places
  <2>6. /\ saver'[c].at # "update"
        /\ \A d \in Savers \ {c} : saver'[d] = saver[d]
    BY <2>1, <2>3 DEF RowTypes, SaverRecord
  <2>7. Exists'
    BY <2>2, <2>3, <2>4, <2>6 DEF Exists
  <2>8. SelectedIsOfTheRow'
    <3> SUFFICES ASSUME NEW d \in Savers, saver'[d].at = "update"
                 PROVE  saver'[d].version < walletRow'.version
      BY <2>4, <2>5 DEF SelectedIsOfTheRow, SameVersion, RowTypes, SaverRecord, Row
    <3>1. d # c /\ saver'[d] = saver[d] /\ saver[d].version \in Nat
      BY <2>3, <2>6 DEF RowTypes, SaverRecord
    <3> QED BY <2>3, <2>4, <3>1 DEF SelectedIsOfTheRow
  <2>9. BalanceAddsUp'
    <3>1. walletRow.balance = saver[c].read.balance + saver[c].moved
      BY <1>2, <2>2, <2>3 DEF SelectedIsOfTheRow
    <3>2. walletRow.balance = added - unseen
      BY <2>3 DEF BalanceAddsUp
    <3> QED BY <2>2, <2>3, <2>4, <3>1, <3>2 DEF BalanceAddsUp
  <2> QED BY <2>5, <2>7, <2>8, <2>9 DEF RowsInvariant
<1> QED BY <1>1, <1>2

-----------------------------------------------------------------------------
\* Every reachable row satisfies the invariant (wallet_repository.go).
THEOREM RowsInvariantHolds == RowsSpec => []RowsInvariant
<1>1. RowsInit => RowsInvariant
  <2> SUFFICES ASSUME RowsInit  PROVE RowsInvariant
    OBVIOUS
  <2>1. NoWallet \in Row
    BY DEF NoWallet, Row
  <2>2. RowTypes
    <3>1. NoSaver \in SaverRecord
      BY <2>1 DEF NoSaver, SaverRecord, Places
    <3>2. walletRow \in Row /\ added \in Int /\ unseen \in Int
      BY <2>1 DEF RowsInit
    <3>3. saver \in [Savers -> SaverRecord]
      BY <3>1 DEF RowsInit
    <3> QED BY <3>2, <3>3 DEF RowTypes
  <2>3. Exists /\ SelectedIsOfTheRow
    BY DEF RowsInit, Exists, SelectedIsOfTheRow, NoSaver
  <2>4. BalanceAddsUp
    BY DEF RowsInit, BalanceAddsUp, NoWallet
  <2> QED BY <2>2, <2>3, <2>4 DEF RowsInvariant
<1>2. RowsInvariant /\ [RowsNext]_rowVars => RowsInvariant'
  <2> SUFFICES ASSUME RowsInvariant, [RowsNext]_rowVars  PROVE RowsInvariant'
    OBVIOUS
  <2>1. CASE CreateWallet
    BY <2>1, CreateKeeps
  <2>2. ASSUME NEW c \in Savers, GetWallet(c) \/ GetBalance(c)  PROVE RowsInvariant'
    BY <2>2, ReadKeeps DEF GetBalance
  <2>3. ASSUME NEW c \in Savers, SelectVersion(c)  PROVE RowsInvariant'
    BY <2>3, SelectKeeps
  <2>4. ASSUME NEW c \in Savers, UpdateBalance(c)  PROVE RowsInvariant'
    BY <2>4, UpdateKeeps
  <2>5. ASSUME NEW c \in Savers, CreateTransaction(c)  PROVE RowsInvariant'
    BY <2>5, LeaveKeeps DEF CreateTransaction, Places
  <2>6. ASSUME NEW c \in Savers, GetTransactionsByUserID(c)  PROVE RowsInvariant'
    BY <2>6, LeaveKeeps DEF GetTransactionsByUserID, Places
  <2>7. ASSUME NEW c \in Savers, SaverFails(c) \/ UpdateTransactionStatus(c)  PROVE RowsInvariant'
    BY <2>7, LeaveKeeps DEF SaverFails, UpdateTransactionStatus, Places
  <2>8. CASE UNCHANGED rowVars
    BY <2>8 DEF rowVars, RowsInvariant, RowTypes, Exists, SelectedIsOfTheRow, SameVersion, BalanceAddsUp
  <2> QED BY <2>1, <2>2, <2>3, <2>4, <2>5, <2>6, <2>7, <2>8 DEF RowsNext
<1> QED BY <1>1, <1>2, PTL DEF RowsSpec

\* Whatever calls overlap and whatever answers are lost, the balance is what every update
\* that was made added, less what other updates brought between the read of a call and its
\* SELECT: nothing that came after the SELECT is overwritten (UpdateBalance's WHERE version).
THEOREM BalanceIsTheSum == RowsSpec => []BalanceAddsUp
<1>1. RowsInvariant => BalanceAddsUp
  BY DEF RowsInvariant
<1> QED BY <1>1, RowsInvariantHolds, PTL

-----------------------------------------------------------------------------
(* Edited bets (SportBets): what was debited and credited for a slip, and what
   the calls under way still owe it.                                       *)

SlipRow == [status : {"none", "PENDING", "WON", "LOST", "VOID"}, amount : Nat, reason : {"", "text", "NULL"},
            match : Matches \cup {"none"}]
Paid == [placed : Nat, debits : Nat, credits : Nat]
PlaceRow == [at : {"new", "save", "placed", "refused", "failed"}, match : Matches \cup {"none"}, amount : Int]
EditRow == [at : {"new", "match", "pay", "save", "edited", "refused", "failed", "nothing", "listed"},
            slip : Slips \cup {"none"}, seen : SlipRow, amount : Int]
SlipTypes ==
  /\ row \in [Slips -> SlipRow]
  /\ place \in [Slips -> PlaceRow]
  /\ edit \in [Edits -> EditRow]
  /\ money \in [Slips -> Paid]

\* A bet is stored when its call ends, and an edit under way has read it after that.
Ended(s) == place[s].at \in {"placed", "failed"}
EditsFollow == \A e \in Edits : Inside(e) =>
  /\ edit[e].slip \in Slips /\ Ended(edit[e].slip)
  /\ edit[e].seen.status # "none"
StoredOnce == \A s \in Slips :
  /\ row[s].status # "none" => Ended(s)
  /\ ~Ended(s) => money[s] = [placed |-> 0, debits |-> 0, credits |-> 0]

\* What a bet may come to stand for is paid for: its row, the row an edit has read,
\* and the one an edit that has moved the money will write.
Covered(s, amount) == amount <= money[s].placed + money[s].debits
Exact(s, amount) == amount + money[s].credits = money[s].placed + money[s].debits
AllCovered ==
  /\ \A s \in StoredSlips : Covered(s, row[s].amount)
  /\ \A e \in Edits : Inside(e) =>
       Covered(edit[e].slip, IF edit[e].at = "save" THEN edit[e].amount ELSE edit[e].seen.amount)

\* Of a bet whose edits were apart one at most is under way, it has read the bet as it
\* is, and the amounts agree before its money is moved and after.
OneAtATime == \A d, e \in Edits :
  Inside(d) /\ Inside(e) /\ edit[d].slip = edit[e].slip /\ d # e => edit[d].slip \in untidy
Settling(s) == \E e \in Edits : edit[e].slip = s /\ edit[e].at = "save"
ExactApart ==
  /\ \A s \in StoredSlips \ untidy : ~Settling(s) => Exact(s, row[s].amount)
  /\ \A e \in Edits : Inside(e) /\ edit[e].slip \in StoredSlips \ untidy =>
       IF edit[e].at = "save" THEN Exact(edit[e].slip, edit[e].amount)
       ELSE edit[e].seen.amount = row[edit[e].slip].amount
SlipsInvariant == SlipTypes /\ EditsFollow /\ StoredOnce /\ AllCovered /\ OneAtATime /\ ExactApart

\* The rows a placement and an edit keep.
LEMMA APlaceRow ==
  ASSUME NEW at \in {"new", "save", "placed", "refused", "failed"}, NEW x \in Matches \cup {"none"}, NEW n \in Int
  PROVE  [at |-> at, match |-> x, amount |-> n] \in PlaceRow
BY DEF PlaceRow

LEMMA AnEditRow ==
  ASSUME NEW at \in {"new", "match"}, NEW s \in Slips \cup {"none"}, NEW r \in SlipRow, NEW n \in Int
  PROVE  [at |-> at, slip |-> s, seen |-> r, amount |-> n] \in EditRow
BY DEF EditRow

\* The rows no call has touched.
LEMMA FirstRows ==
  ASSUME NEW z \in SlipRow
  PROVE  /\ [at |-> "new", match |-> "none", amount |-> 0] \in PlaceRow
         /\ [at |-> "new", slip |-> "none", seen |-> z, amount |-> 0] \in EditRow
<1>1. PICK n \in Int : n = 0
  OBVIOUS
<1>2. [at |-> "new", match |-> "none", amount |-> n] \in PlaceRow
  BY APlaceRow
<1>3. [at |-> "new", slip |-> "none", seen |-> z, amount |-> n] \in EditRow
  BY AnEditRow
<1> QED BY <1>1, <1>2, <1>3

LEMMA APlaceMoved ==
  ASSUME NEW p \in PlaceRow, NEW at \in {"refused", "failed"}
  PROVE  [p EXCEPT !.at = at] \in PlaceRow /\ [p EXCEPT !.at = at].at = at
BY DEF PlaceRow

\* No slip is stored and nobody paid.
LEMMA SlipsAtFirst == SportInit => SlipsInvariant
<1> SUFFICES ASSUME SportInit  PROVE SlipsInvariant
  OBVIOUS
<1> USE DEF SportInit, NoRow, NoEdit
<1>1. NoRow \in SlipRow
  BY DEF SlipRow
<1>2. SlipTypes
  <2>1. row \in [Slips -> SlipRow]
    BY <1>1
  <2>2. place \in [Slips -> PlaceRow]
    <3>1. PICK z : z = [at |-> "new", match |-> "none", amount |-> 0]
      OBVIOUS
    <3>2. z \in PlaceRow
      BY <1>1, <3>1, FirstRows
    <3>3. place = [s \in Slips |-> z]
      BY <3>1
    <3> QED BY <3>2, <3>3
  <2>3. money \in [Slips -> Paid]
    BY DEF Paid
  <2>4. edit \in [Edits -> EditRow]
    <3>1. PICK z : z = NoRow
      OBVIOUS
    <3>2. PICK n : n = [at |-> "new", slip |-> "none", seen |-> z, amount |-> 0]
      OBVIOUS
    <3>3. n \in EditRow
      BY <1>1, <3>1, <3>2, FirstRows
    <3>4. edit = [e \in Edits |-> n]
      BY <3>1, <3>2
    <3> QED BY <3>3, <3>4
  <2> QED BY <2>1, <2>2, <2>3, <2>4 DEF SlipTypes
<1>3. \A e \in Edits : ~Inside(e)
  BY DEF Inside
<1>4. StoredSlips = {}
  BY DEF StoredSlips
<1>5. StoredOnce
  BY DEF StoredOnce
<1> QED BY <1>2, <1>3, <1>4, <1>5 DEF SlipsInvariant, EditsFollow, AllCovered, OneAtATime, ExactApart

LEMMA OverZero == ASSUME NEW n \in Int, n > 0  PROVE n \in Nat
OBVIOUS

\* A bet not placed, refused or placed elsewhere concerns no edit.
LEMMA PlaceMoves ==
  ASSUME SlipsInvariant, NEW s \in Slips, CheckLive(s)  PROVE SlipsInvariant'
<1> USE DEF SlipsInvariant
<1>1. UNCHANGED <<row, shut, edit, money, untidy, suspended>>
  BY DEF CheckLive
<1>2. PICK x \in Matches, a \in Amounts, uuid \in BOOLEAN :
        place' = [place EXCEPT ![s] =
          IF x \in Listed \ suspended /\ uuid THEN [at |-> "save", match |-> x, amount |-> a]
          ELSE [@ EXCEPT !.at = "refused"]]
  BY DEF CheckLive
<1>3. PICK p : p = IF x \in Listed \ suspended /\ uuid THEN [at |-> "save", match |-> x, amount |-> a]
                   ELSE [place[s] EXCEPT !.at = "refused"]
  OBVIOUS
<1>4. /\ p \in PlaceRow
      /\ p.at \in {"save", "refused"}
  <2>1. CASE x \in Listed \ suspended /\ uuid
    <3>1. p = [at |-> "save", match |-> x, amount |-> a]
      BY <1>3, <2>1
    <3>2. a \in Int
      BY SportBetsAssumption
    <3> QED BY <3>1, <3>2, APlaceRow
  <2>2. CASE ~(x \in Listed \ suspended /\ uuid)
    <3>1. p = [place[s] EXCEPT !.at = "refused"]
      BY <1>3, <2>2
    <3>2. place[s] \in PlaceRow
      BY DEF SlipTypes
    <3> QED BY <3>1, <3>2, APlaceMoved
  <2> QED BY <2>1, <2>2
<1>5. place' = [place EXCEPT ![s] = p] /\ place[s].at = "new"
  BY <1>2, <1>3 DEF CheckLive
<1>6. SlipTypes'
  BY <1>1, <1>4, <1>5 DEF SlipTypes, PlaceRow, EditRow
<1>7. EditsFollow' /\ StoredOnce'
  <2>1. place'[s].at \in {"save", "refused"} /\ \A t \in Slips \ {s} : place'[t] = place[t]
    BY <1>4, <1>5 DEF SlipTypes, PlaceRow, EditRow
  <2> QED BY <1>1, <1>5, <2>1 DEF EditsFollow, StoredOnce, Inside, Ended
<1> QED BY <1>1, <1>6, <1>7 DEF AllCovered, OneAtATime, ExactApart, StoredSlips, Inside, Covered, Exact, Settling

\* The row is inserted with the stake as its amount, before any edit has read it.
LEMMA CreateStores ==
  ASSUME SlipsInvariant, NEW s \in Slips, Create(s)  PROVE SlipsInvariant'
<1> USE DEF SlipsInvariant
<1> DEFINE placed(q) == [place EXCEPT ![s].at = q]
<1>1. /\ place[s].at = "save" /\ row[s].status = "none" /\ UNCHANGED <<shut, edit, untidy, suspended>>
      /\ money[s] = [placed |-> 0, debits |-> 0, credits |-> 0]
      /\ place[s].amount \in Int /\ place[s].match \in Matches \cup {"none"}
  BY DEF Create, StoredOnce, SlipTypes, PlaceRow, EditRow, SlipRow, Ended
<1>2. \A e \in Edits : Inside(e) => edit[e].slip # s
  BY <1>1 DEF EditsFollow, Ended
<1>3. CASE place' = placed("failed") /\ UNCHANGED <<row, money>>
  <2>1. SlipTypes' /\ EditsFollow' /\ StoredOnce'
    <3>1. PICK p : p = [place[s] EXCEPT !.at = "failed"]
      OBVIOUS
    <3>2. /\ p \in PlaceRow
          /\ p.at = "failed"
      BY <3>1 DEF SlipTypes, PlaceRow, EditRow
    <3>3. place' = [place EXCEPT ![s] = p]
      BY <1>3, <3>1
    <3>4. SlipTypes' /\ place'[s].at = "failed" /\ \A t \in Slips \ {s} : place'[t] = place[t]
      BY <1>1, <1>3, <3>2, <3>3 DEF SlipTypes, PlaceRow, EditRow
    <3>5. EditsFollow'
      BY <1>1, <1>2, <1>3, <3>4 DEF EditsFollow, Inside, Ended
    <3>6. StoredOnce'
      BY <1>1, <1>3, <3>4 DEF StoredOnce, Ended
    <3> QED BY <3>4, <3>5, <3>6
  <2> QED BY <1>1, <1>3, <2>1 DEF AllCovered, OneAtATime, ExactApart, StoredSlips, Inside, Covered, Exact, Settling
<1>4. ASSUME NEW answer \in {"placed", "failed"}, place[s].amount > 0,
             place' = placed(answer), money' = [money EXCEPT ![s].placed = place[s].amount],
             row' = [row EXCEPT ![s] = [status |-> "PENDING", amount |-> place[s].amount,
                                        reason |-> "", match |-> place[s].match]]
      PROVE  SlipsInvariant'
  <2>0. place[s].amount \in Nat
    <3>1. place[s].amount \in Int
      BY <1>1
    <3>2. place[s].amount > 0
      BY <1>4
    <3> QED BY <3>1, <3>2, OverZero
  <2>1. PICK r, m : /\ r = [status |-> "PENDING", amount |-> place[s].amount, reason |-> "", match |-> place[s].match]
                    /\ m = [money[s] EXCEPT !.placed = place[s].amount]
    OBVIOUS
  <2>2. r \in SlipRow /\ r.status = "PENDING" /\ r.amount = place[s].amount
    <3>1. PICK n : n = place[s].amount
      OBVIOUS
    <3>2. n \in Nat
      BY <2>0, <3>1
    <3> QED BY <1>1, <2>1, <3>1, <3>2 DEF SlipRow
  <2>3. m = [placed |-> place[s].amount, debits |-> 0, credits |-> 0] /\ m \in Paid
    <3>1. PICK z, n : z = [placed |-> 0, debits |-> 0, credits |-> 0] /\ n = place[s].amount
      OBVIOUS
    <3>2. n \in Nat /\ z \in Paid
      BY <2>0, <3>1 DEF Paid
    <3>3. m = [z EXCEPT !.placed = n]
      BY <1>1, <2>1, <3>1
    <3>4. m \in Paid /\ m = [placed |-> n, debits |-> 0, credits |-> 0]
      BY <3>1, <3>2, <3>3 DEF Paid
    <3> QED BY <3>1, <3>4
  <2>4. row' = [row EXCEPT ![s] = r] /\ money' = [money EXCEPT ![s] = m]
    BY <1>4, <2>1
  <2>5. SlipTypes' /\ EditsFollow' /\ StoredOnce'
    <3>1. place' = [place EXCEPT ![s].at = answer]
      BY <1>4
    <3>2. SlipTypes'
      BY <1>1, <2>2, <2>3, <2>4, <3>1 DEF SlipTypes, PlaceRow, EditRow
    <3>3. EditsFollow'
      BY <1>1, <3>1 DEF EditsFollow, SlipTypes, PlaceRow, EditRow, Inside, Ended
    <3>4. StoredOnce'
      BY <1>1, <2>4, <3>1 DEF StoredOnce, SlipTypes, PlaceRow, EditRow, Ended
    <3> QED BY <3>2, <3>3, <3>4
  <2>6. /\ row'[s] = r /\ money'[s] = m
        /\ \A t \in Slips \ {s} : row'[t] = row[t] /\ money'[t] = money[t]
    BY <2>4 DEF SlipTypes, PlaceRow, EditRow
  <2>7. StoredSlips' = StoredSlips \cup {s}
    BY <2>2, <2>6 DEF StoredSlips
  <2>8. Covered(s, row[s].amount)' /\ Exact(s, row[s].amount)'
    BY <1>1, <2>2, <2>3, <2>6 DEF Covered, Exact
  <2>9. AllCovered'
    <3>1. ASSUME NEW t \in StoredSlips'  PROVE Covered(t, row[t].amount)'
      BY <2>6, <2>7, <2>8 DEF AllCovered, Covered, StoredSlips
    <3>2. ASSUME NEW e \in Edits, Inside(e)
          PROVE  Covered(edit[e].slip, IF edit[e].at = "save" THEN edit[e].amount ELSE edit[e].seen.amount)'
      BY <1>1, <1>2, <2>6, <3>2 DEF AllCovered, Covered, EditsFollow
    <3> QED BY <1>1, <3>1, <3>2 DEF AllCovered, Inside
  <2>10. ExactApart'
    <3>1. ASSUME NEW t \in (StoredSlips \ untidy)', ~Settling(t)'  PROVE Exact(t, row[t].amount)'
      BY <1>1, <2>6, <2>7, <2>8, <3>1 DEF ExactApart, Exact, StoredSlips, Settling
    <3>2. ASSUME NEW e \in Edits, Inside(e), edit[e].slip \in (StoredSlips \ untidy)'
          PROVE  IF edit[e].at = "save" THEN Exact(edit[e].slip, edit[e].amount)'
                 ELSE edit[e].seen.amount = row'[edit[e].slip].amount
      BY <1>1, <1>2, <2>6, <2>7, <3>2 DEF ExactApart, Exact, EditsFollow
    <3> QED BY <1>1, <3>1, <3>2 DEF ExactApart, Inside
  <2> QED BY <1>1, <2>5, <2>9, <2>10 DEF OneAtATime, Inside
<1> QED BY <1>3, <1>4 DEF Create

\* A mark changes no amount, and a bet deleted is not stored again.
LEMMA MarkKeepsAmount ==
  ASSUME SlipsInvariant, NEW s \in StoredSlips, NEW r \in SlipRow, r.status = "none" \/ r.amount = row[s].amount,
         Write(s, r)
  PROVE  SlipsInvariant'
<1> USE DEF SlipsInvariant
<1>1. /\ row' = [row EXCEPT ![s] = r] /\ UNCHANGED <<shut, place, edit, money, untidy, suspended>>
      /\ s \in Slips /\ row[s].status # "none" /\ Ended(s)
  BY DEF Write, StoredSlips, StoredOnce
<1>2. SlipTypes' /\ EditsFollow' /\ StoredOnce'
  BY <1>1 DEF SlipTypes, PlaceRow, EditRow, EditsFollow, StoredOnce, Inside, Ended
<1>3. StoredSlips' \subseteq StoredSlips /\ \A t \in StoredSlips' : row'[t].amount = row[t].amount
  BY <1>1 DEF SlipTypes, PlaceRow, EditRow, StoredSlips
<1>4. AllCovered' /\ OneAtATime'
  BY <1>1, <1>3 DEF AllCovered, OneAtATime, Covered, Inside
<1>5. ExactApart'
  BY <1>1, <1>3 DEF ExactApart, Exact, Inside, Settling
<1> QED BY <1>2, <1>4, <1>5

\* An edit that stops, or goes from the match to the money, before any is moved.
LEMMA EditMoves ==
  ASSUME SlipsInvariant, NEW e \in Edits, edit[e].at # "save",
         NEW p \in {"refused", "nothing", "listed", "pay"}, p = "pay" => edit[e].at = "match",
         edit' = [edit EXCEPT ![e].at = p], UNCHANGED <<row, place, money, untidy>>
  PROVE  SlipsInvariant'
<1> USE DEF SlipsInvariant
<1>0. PICK q : q = [edit[e] EXCEPT !.at = p]
  OBVIOUS
<1>1. /\ \A d \in Edits \ {e} : edit'[d] = edit[d]
      /\ edit'[e].at = p /\ edit'[e].slip = edit[e].slip /\ edit'[e].seen = edit[e].seen
      /\ edit'[e].amount = edit[e].amount
  BY DEF SlipTypes, PlaceRow, EditRow
<1>2. \A d \in Edits : Inside(d)' => Inside(d) /\ edit'[d].slip = edit[d].slip /\ edit'[d].seen = edit[d].seen
        /\ edit'[d].amount = edit[d].amount /\ (edit'[d].at = "save" <=> edit[d].at = "save")
  BY <1>1 DEF Inside
<1>3. SlipTypes'
  <2>1. edit[e] \in EditRow
    BY DEF SlipTypes
  <2>2. q \in EditRow
    BY <1>0, <2>1 DEF EditRow
  <2>3. edit' = [edit EXCEPT ![e] = q]
    BY <1>0
  <2> QED BY <2>2, <2>3 DEF SlipTypes
<1>4. EditsFollow' /\ StoredOnce' /\ OneAtATime'
  BY <1>2 DEF EditsFollow, StoredOnce, OneAtATime, Ended
<1>5. StoredSlips' = StoredSlips /\ \A s : Settling(s)' <=> Settling(s)
  BY <1>1 DEF StoredSlips, Settling
<1>6. AllCovered' /\ ExactApart'
  BY <1>2, <1>5 DEF AllCovered, ExactApart, Covered, Exact
<1> QED BY <1>3, <1>4, <1>6

\* An edit reads the bet as it is, and one that joins another makes the bet untidy (GetByID).
LEMMA ReadKeepsSlips ==
  ASSUME SlipsInvariant, NEW e \in Edits, ReadBet(e)  PROVE SlipsInvariant'
<1> USE DEF SlipsInvariant
<1>1. edit[e].at = "new" /\ UNCHANGED <<row, shut, place, money, suspended>>
  BY DEF ReadBet
<1>2. CASE edit' = [edit EXCEPT ![e].at = "refused"] /\ UNCHANGED untidy
  BY <1>1, <1>2, EditMoves
<1>3. ASSUME NEW s \in Slips, NEW a \in Amounts, Readable(s),
             edit' = [edit EXCEPT ![e] = [at |-> "match", slip |-> s, seen |-> row[s], amount |-> a]],
             untidy' = IF Others(e, s) = {} THEN untidy ELSE untidy \cup {s}
      PROVE  SlipsInvariant'
  <2>1. /\ s \in StoredSlips /\ row[s] \in SlipRow /\ a \in Int /\ Ended(s)
        /\ row[s].status # "none" /\ StoredSlips' = StoredSlips /\ untidy \subseteq untidy'
    BY <1>1, <1>3, SportBetsAssumption DEF Readable, StoredSlips, SlipTypes, PlaceRow, EditRow, StoredOnce
  <2>2. /\ \A d \in Edits \ {e} : edit'[d] = edit[d]
        /\ edit'[e].at = "match" /\ edit'[e].slip = s /\ edit'[e].seen = row[s] /\ edit'[e].amount = a
    BY <1>3 DEF SlipTypes, PlaceRow, EditRow
  <2>3. SlipTypes'
    BY <1>1, <1>3, <2>1 DEF SlipTypes, PlaceRow, EditRow
  <2>4. EditsFollow' /\ StoredOnce'
    BY <1>1, <2>1, <2>2 DEF EditsFollow, StoredOnce, Inside, Ended
  <2>5. \A d \in Edits \ {e} : Inside(d) /\ edit[d].slip = s => s \in untidy'
    BY <1>3 DEF Others
  <2>6. OneAtATime'
    BY <2>1, <2>2, <2>5 DEF OneAtATime, Inside
  <2>7. AllCovered'
    BY <1>1, <2>1, <2>2 DEF AllCovered, Covered, Inside
  <2>8. \A t : Settling(t)' <=> Settling(t)
    BY <1>1, <2>2 DEF Settling
  <2>9. ExactApart'
    BY <1>1, <2>1, <2>2, <2>8 DEF ExactApart, Exact, Inside
  <2> QED BY <2>3, <2>4, <2>6, <2>7, <2>9
<1> QED BY <1>2, <1>3 DEF ReadBet

\* What is debited and credited makes up for the difference.
LEMMA Differences ==
  ASSUME NEW old \in Int, NEW new \in Int
  PROVE  LET d == calculateAmountDifference(old, new)
         IN  /\ d.debit \in Nat /\ d.credit \in Nat /\ old + d.debit = new + d.credit
             /\ new <= old + d.debit
<1>1. CASE new > old
  <2>1. calculateAmountDifference(old, new) = [debit |-> new - old, credit |-> 0]
    BY <1>1 DEF calculateAmountDifference
  <2> QED BY <1>1, <2>1
<1>2. CASE ~(new > old)
  <2>1. calculateAmountDifference(old, new) = [debit |-> 0, credit |-> old - new]
    BY <1>2 DEF calculateAmountDifference
  <2> QED BY <1>2, <2>1
<1> QED BY <1>1, <1>2

\* The wallet takes or gives back the difference to what was read (processRefund,
\* processAdditionalPayment).
LEMMA MoneyKeeps ==
  ASSUME SlipsInvariant, NEW e \in Edits, MoveMoney(e)  PROVE SlipsInvariant'
<1> DEFINE s == edit[e].slip
           old == edit[e].seen.amount
           new == edit[e].amount
           d == calculateAmountDifference(old, new)
<1> USE DEF SlipsInvariant
<1>1. /\ edit[e].at = "pay" /\ s \in Slips /\ UNCHANGED <<row, shut, place, suspended>>
      /\ old \in Nat /\ new \in Int /\ money[s] \in Paid /\ Ended(s)
  BY DEF MoveMoney, EditsFollow, Inside, SlipTypes, PlaceRow, EditRow, SlipRow
<1>2. CASE edit' = [edit EXCEPT ![e].at = "refused"] /\ UNCHANGED <<money, untidy>>
  BY <1>1, <1>2, EditMoves
<1>3. ASSUME NEW at \in {"save", "refused"}, edit' = [edit EXCEPT ![e].at = at],
             untidy' = IF at = "save" THEN untidy ELSE untidy \cup {s},
             money' = [money EXCEPT ![s].debits = @ + d.debit, ![s].credits = @ + d.credit]
      PROVE  SlipsInvariant'
  <2>1. /\ d.debit \in Nat /\ d.credit \in Nat /\ old + d.debit = new + d.credit
        /\ new <= old + d.debit
    BY <1>1, Differences
  <2>2. PICK x, y : x = d.debit /\ y = d.credit
    OBVIOUS
  <2>3. PICK m : m = [placed |-> money[s].placed, debits |-> money[s].debits + x, credits |-> money[s].credits + y]
    OBVIOUS
  <2> HIDE DEF d
  <2>4. m \in Paid
    BY <1>1, <2>1, <2>2, <2>3 DEF Paid
  <2>5. money'[s] = m /\ \A t \in Slips \ {s} : money'[t] = money[t]
    <3>1. PICK q : q = [money EXCEPT ![s].debits = @ + x]
      OBVIOUS
    <3>2. PICK z : z = [money[s] EXCEPT !.debits = @ + x]
      OBVIOUS
    <3>3. z = [placed |-> money[s].placed, debits |-> money[s].debits + x, credits |-> money[s].credits]
      BY <1>1, <3>2 DEF Paid
    <3>4. q = [money EXCEPT ![s] = z]
      BY <3>1, <3>2
    <3>5. q \in [Slips -> Paid] /\ q[s] = z /\ \A t \in Slips \ {s} : q[t] = money[t]
      <4>1. z \in Paid
        BY <1>1, <2>1, <2>2, <3>3 DEF Paid
      <4> QED BY <1>1, <3>4, <4>1 DEF SlipTypes, PlaceRow, EditRow
    <3>6. money' = [q EXCEPT ![s].credits = @ + y]
      BY <1>3, <2>2, <3>1
    <3>7. money' = [q EXCEPT ![s] = [z EXCEPT !.credits = @ + y]]
      BY <3>5, <3>6
    <3>8. [z EXCEPT !.credits = @ + y] = m
      BY <2>3, <3>3
    <3> QED BY <1>1, <3>5, <3>7, <3>8
  <2>6. DOMAIN money' = Slips /\ money' = [t \in Slips |-> money'[t]]
    BY <1>3 DEF SlipTypes, PlaceRow, EditRow
  <2>7. /\ \A c \in Edits \ {e} : edit'[c] = edit[c]
        /\ edit'[e].at = at /\ edit'[e].slip = s /\ edit'[e].seen = edit[e].seen /\ edit'[e].amount = new
        /\ untidy \subseteq untidy' /\ (at = "refused" => s \in untidy')
    BY <1>3 DEF SlipTypes, PlaceRow, EditRow
  <2>8. SlipTypes'
    <3>1. money' \in [Slips -> Paid]
      BY <2>4, <2>5, <2>6 DEF SlipTypes, PlaceRow, EditRow
    <3> QED BY <1>1, <1>3, <3>1 DEF SlipTypes, PlaceRow, EditRow
  <2>9. EditsFollow' /\ StoredOnce' /\ OneAtATime'
    BY <1>1, <2>5, <2>7 DEF EditsFollow, StoredOnce, OneAtATime, Inside, Ended
  <2>10. Covered(s, new)'
    <3>1. Covered(s, old)
      BY <1>1 DEF AllCovered, Inside
    <3> QED BY <1>1, <2>1, <2>2, <2>3, <2>5, <2>7, <3>1 DEF Covered, Paid
  <2>11. ASSUME NEW t \in Slips, NEW a \in Int, Covered(t, a)  PROVE Covered(t, a)'
    BY <1>1, <2>1, <2>2, <2>3, <2>5, <2>11 DEF Covered, Paid
  <2>12. StoredSlips' = StoredSlips /\ StoredSlips \subseteq Slips
    BY <1>1 DEF StoredSlips
  <2>13. AllCovered'
    <3>1. ASSUME NEW t \in StoredSlips  PROVE Covered(t, row[t].amount)'
      <4>1. PICK a : a = row[t].amount
        OBVIOUS
      <4>2. t \in Slips /\ row[t].amount \in Nat
        BY <2>12 DEF SlipTypes, PlaceRow, EditRow, SlipRow
      <4>3. a \in Int /\ Covered(t, a)
        BY <4>1, <4>2 DEF AllCovered
      <4>4. Covered(t, a)'
        BY <2>11, <4>2, <4>3
      <4> QED BY <1>1, <4>1, <4>4 DEF Covered
    <3>2. ASSUME NEW c \in Edits \ {e}, Inside(c)
          PROVE  Covered(edit[c].slip, IF edit[c].at = "save" THEN edit[c].amount ELSE edit[c].seen.amount)'
      <4>1. PICK a : a = IF edit[c].at = "save" THEN edit[c].amount ELSE edit[c].seen.amount
        OBVIOUS
      <4>2. a \in Int /\ edit[c].slip \in Slips /\ Covered(edit[c].slip, a)
        <5>1. edit[c].slip \in Slips /\ Covered(edit[c].slip, a)
          BY <3>2, <4>1 DEF AllCovered, EditsFollow
        <5>2. edit[c].amount \in Int /\ edit[c].seen \in SlipRow
          BY DEF SlipTypes, PlaceRow, EditRow
        <5>3. edit[c].seen.amount \in Nat
          BY <5>2 DEF SlipRow
        <5> QED BY <4>1, <5>1, <5>2, <5>3
      <4>3. Covered(edit[c].slip, a)'
        BY <2>7, <2>11, <4>2 DEF Covered
      <4> QED BY <2>7, <4>1, <4>3
    <3> QED BY <1>1, <2>7, <2>10, <2>12, <3>1, <3>2 DEF AllCovered, Inside
  <2>14. s \in StoredSlips \ untidy => Exact(s, new)'
    <3>1. ASSUME s \in StoredSlips \ untidy  PROVE ~Settling(s) /\ old = row[s].amount
      BY <1>1, <3>1 DEF Settling, OneAtATime, ExactApart, Inside
    <3>2. ASSUME s \in StoredSlips \ untidy  PROVE Exact(s, old)
      BY <3>1, <3>2 DEF ExactApart
    <3> QED BY <1>1, <2>1, <2>2, <2>3, <2>5, <2>7, <3>2 DEF Exact, Paid
  <2>15. ExactApart'
    <3>1. ASSUME NEW t \in StoredSlips \ untidy', ~Settling(t)'  PROVE Exact(t, row[t].amount)'
      <4>1. t # s /\ ~Settling(t) /\ t \notin untidy
        BY <1>1, <2>7, <3>1 DEF Settling
      <4> QED BY <1>1, <2>5, <2>12, <3>1, <4>1 DEF ExactApart, Exact
    <3>2. ASSUME NEW c \in Edits \ {e}, Inside(c), edit[c].slip \in StoredSlips \ untidy'
          PROVE  IF edit[c].at = "save" THEN Exact(edit[c].slip, edit[c].amount)'
                 ELSE edit[c].seen.amount = row[edit[c].slip].amount
      <4>1. edit[c].slip # s /\ edit[c].slip \notin untidy
        BY <1>1, <2>7, <3>2 DEF OneAtATime, Inside
      <4> QED BY <2>5, <2>7, <2>12, <3>2, <4>1 DEF ExactApart, Exact
    <3>3. ASSUME Inside(e)', s \in StoredSlips \ untidy'  PROVE at = "save" /\ Exact(s, new)'
      BY <2>7, <2>14, <3>3 DEF Inside
    <3> QED BY <1>1, <2>7, <2>12, <3>1, <3>2, <3>3 DEF ExactApart, Inside, Exact
  <2> QED BY <2>8, <2>9, <2>13, <2>15
<1> QED BY <1>1, <1>2, <1>3 DEF MoveMoney

\* The row becomes what the money was moved for, or the bet is untidy (Update).
LEMMA SaveKeeps ==
  ASSUME SlipsInvariant, NEW e \in Edits, SaveEdit(e)  PROVE SlipsInvariant'
<1> DEFINE s == edit[e].slip
<1> USE DEF SlipsInvariant
<1>1. /\ edit[e].at = "save" /\ Inside(e) /\ s \in Slips /\ UNCHANGED <<shut, place, money, suspended>>
      /\ edit[e].seen \in SlipRow /\ edit[e].amount \in Int /\ Ended(s)
  BY DEF SaveEdit, EditsFollow, Inside, SlipTypes, PlaceRow, EditRow
<1>2. PICK p \in {"edited", "failed"}, stored \in BOOLEAN :
        /\ edit' = [edit EXCEPT ![e].at = p]
        /\ untidy' = IF stored THEN untidy ELSE untidy \cup {s}
        /\ row' = IF stored /\ s \in StoredSlips THEN [row EXCEPT ![s] = createEditedBet(e)] ELSE row
        /\ stored /\ s \in StoredSlips => edit[e].amount > 0
  BY DEF SaveEdit
<1>3. /\ \A c \in Edits \ {e} : edit'[c] = edit[c]
      /\ edit'[e].at = p /\ edit'[e].slip = s /\ ~Inside(e)'
  BY <1>2 DEF SlipTypes, PlaceRow, EditRow, Inside
<1>4. \A c \in Edits : Inside(c)' => c # e /\ Inside(c) /\ edit'[c] = edit[c]
  BY <1>3 DEF Inside
<1>5. PICK r : r = createEditedBet(e)
  OBVIOUS
<1>6. r.amount = edit[e].amount /\ (edit[e].amount > 0 => r \in SlipRow)
  <2>1. PICK q : q = [edit[e].seen EXCEPT !.amount = edit[e].amount]
    OBVIOUS
  <2>2. /\ q \in [status : {"none", "PENDING", "WON", "LOST", "VOID"}, amount : Int,
                   reason : {"", "text", "NULL"}, match : Matches \cup {"none"}]
        /\ q.amount = edit[e].amount
    BY <1>1, <2>1 DEF SlipRow
  <2>3. r = [q EXCEPT !.reason = "NULL"]
    BY <1>5, <2>1 DEF createEditedBet
  <2>4. r.amount = q.amount /\ (q.amount > 0 => r \in SlipRow)
    <3>1. r.amount = q.amount /\ q.amount \in Int
      BY <2>2, <2>3
    <3>2. ASSUME q.amount > 0  PROVE r \in SlipRow
      <4>1. q.amount \in Nat
        BY <3>1, <3>2, OverZero
      <4>2. q \in SlipRow
        BY <2>2, <4>1 DEF SlipRow
      <4> QED BY <2>3, <4>2 DEF SlipRow
    <3> QED BY <3>1, <3>2
  <2> QED BY <2>2, <2>4
<1>7. r.status # "none"
  <2>1. edit[e].seen.status # "none"
    BY <1>1 DEF EditsFollow
  <2>2. r.status = edit[e].seen.status
    BY <1>1, <1>5 DEF createEditedBet, SlipRow
  <2> QED BY <2>1, <2>2
<1>8. /\ \A t \in Slips \ {s} : row'[t] = row[t]
      /\ row'[s] = row[s] \/ (row'[s] = r /\ s \in StoredSlips)
      /\ stored /\ s \in StoredSlips => row'[s] = r
  BY <1>1, <1>2, <1>5 DEF SlipTypes, PlaceRow, EditRow
<1>9. StoredSlips' = StoredSlips /\ StoredSlips \subseteq Slips
  BY <1>7, <1>8 DEF StoredSlips
<1>10. SlipTypes'
  <2>1. row' \in [Slips -> SlipRow]
    BY <1>2, <1>5, <1>6 DEF SlipTypes, PlaceRow, EditRow
  <2> QED BY <1>1, <1>2, <2>1 DEF SlipTypes, PlaceRow, EditRow
<1>11. EditsFollow' /\ StoredOnce'
  BY <1>1, <1>4, <1>8 DEF EditsFollow, StoredOnce, StoredSlips, Ended
<1>12. OneAtATime'
  BY <1>2, <1>4 DEF OneAtATime
<1>13. AllCovered'
  <2>1. Covered(s, r.amount)
    BY <1>1, <1>6 DEF AllCovered
  <2>2. ASSUME NEW t \in StoredSlips  PROVE Covered(t, row[t].amount)'
    BY <1>1, <1>8, <1>9, <2>1 DEF AllCovered, Covered
  <2> QED BY <1>1, <1>4, <1>9, <2>2 DEF AllCovered, Covered
<1>14. ExactApart'
  <2>1. s \in StoredSlips \ untidy => Exact(s, r.amount)
    BY <1>1, <1>6 DEF ExactApart
  <2>2. ASSUME NEW t \in StoredSlips \ untidy', ~Settling(t)'  PROVE Exact(t, row[t].amount)'
    <3>1. CASE t = s
      BY <1>1, <1>2, <1>8, <2>1, <2>2, <3>1 DEF Exact
    <3>2. CASE t # s
      <4>1. ~Settling(t)
        BY <1>3, <2>2, <3>2 DEF Settling
      <4> QED BY <1>1, <1>2, <1>8, <1>9, <2>2, <3>2, <4>1 DEF ExactApart, Exact
    <3> QED BY <3>1, <3>2
  <2>3. ASSUME NEW c \in Edits, Inside(c)', edit[c].slip \in StoredSlips \ untidy'
        PROVE  IF edit[c].at = "save" THEN Exact(edit[c].slip, edit[c].amount)'
               ELSE edit[c].seen.amount = row'[edit[c].slip].amount
    <3>1. Inside(c) /\ c # e /\ edit'[c] = edit[c] /\ edit[c].slip \in StoredSlips \ untidy
      BY <1>2, <1>4, <2>3
    <3>2. edit[c].slip # s
      BY <1>1, <3>1 DEF OneAtATime
    <3> QED BY <1>1, <1>8, <1>9, <3>1, <3>2 DEF ExactApart, Exact
  <2> QED BY <1>4, <1>9, <2>2, <2>3 DEF ExactApart, Exact
<1> QED BY <1>10, <1>11, <1>12, <1>13, <1>14

\* Every step of placing, editing and settling keeps the invariant.
LEMMA SlipsKept == SlipsInvariant /\ [SportNext]_sportVars => SlipsInvariant'
<1> SUFFICES ASSUME SlipsInvariant, [SportNext]_sportVars  PROVE SlipsInvariant'
  OBVIOUS
<1>1. ASSUME UNCHANGED <<row, place, edit, money, untidy>>  PROVE SlipsInvariant'
  BY <1>1 DEF SlipsInvariant, SlipTypes, PlaceRow, EditRow, EditsFollow, StoredOnce, AllCovered, OneAtATime, ExactApart, Inside,
              StoredSlips, Settling, Covered, Exact, Ended
<1>2. CASE Shuts \/ SuspendMatch \/ UNCHANGED sportVars
  BY <1>1, <1>2 DEF Shuts, SuspendMatch, sportVars
<1>3. ASSUME NEW s \in Slips, CheckLive(s) \/ Create(s)  PROVE SlipsInvariant'
  BY <1>3, PlaceMoves, CreateStores
<1>4. ASSUME NEW s \in Slips, MarkAsWon(s) \/ MarkAsLost(s) \/ MarkAsVoid(s) \/ Delete(s)  PROVE SlipsInvariant'
  <2>1. s \in StoredSlips /\ row[s] \in SlipRow /\ NoRow \in SlipRow /\ NoRow.status = "none"
    BY <1>4 DEF MarkAsWon, MarkAsLost, MarkAsVoid, Delete, SlipsInvariant, SlipTypes, PlaceRow, EditRow, NoRow, SlipRow
  <2>2. ASSUME NEW t \in {"WON", "LOST", "VOID"}
        PROVE  [row[s] EXCEPT !.status = t] \in SlipRow /\ [row[s] EXCEPT !.status = t].amount = row[s].amount
    BY <2>1 DEF SlipRow
  <2>3. PICK q : q = [row[s] EXCEPT !.status = "VOID"]
    OBVIOUS
  <2>4. q \in SlipRow /\ q.amount = row[s].amount
    BY <2>2, <2>3
  <2>5. PICK v : v = [q EXCEPT !.reason = "text"]
    OBVIOUS
  <2>6. v \in SlipRow /\ v.amount = row[s].amount
    BY <2>4, <2>5 DEF SlipRow
  <2>7. PICK r \in SlipRow : (r.status = "none" \/ r.amount = row[s].amount) /\ Write(s, r)
    <3>1. CASE MarkAsWon(s)
      BY <2>2, <3>1 DEF MarkAsWon
    <3>2. CASE MarkAsLost(s)
      BY <2>2, <3>2 DEF MarkAsLost
    <3>3. CASE MarkAsVoid(s)
      BY <2>3, <2>5, <2>6, <3>3 DEF MarkAsVoid
    <3>4. CASE Delete(s)
      BY <2>1, <3>4 DEF Delete
    <3> QED BY <1>4, <3>1, <3>2, <3>3, <3>4
  <2> QED BY <2>1, <2>7, MarkKeepsAmount
<1>5. ASSUME NEW e \in Edits, ListBets(e) \/ ReadMatch(e)  PROVE SlipsInvariant'
  <2>1. PICK p \in {"refused", "nothing", "listed", "pay"} :
          /\ edit' = [edit EXCEPT ![e].at = p] /\ UNCHANGED <<row, place, money, untidy>>
          /\ edit[e].at # "save" /\ (p = "pay" => edit[e].at = "match")
    BY <1>5 DEF ListBets, ReadMatch
  <2> QED BY <2>1, EditMoves
<1>6. ASSUME NEW e \in Edits, ReadBet(e) \/ MoveMoney(e) \/ SaveEdit(e)  PROVE SlipsInvariant'
  BY <1>6, ReadKeepsSlips, MoneyKeeps, SaveKeeps
<1> QED BY <1>2, <1>3, <1>4, <1>5, <1>6 DEF SportNext, Bet, EditBet

\* Calls apart, the debits less the credits of a stored slip are its amount.
LEMMA SlipsAlways == SlipsInvariant => SlipsPaidApart
BY DEF SlipsInvariant, SlipsPaidApart, AllCovered, ExactApart, Covered, Exact, Settling, SlipTypes, PlaceRow, EditRow, SlipRow, Paid,
       StoredSlips

-----------------------------------------------------------------------------
(* Live prices (LivePrices): who wrote the odds last publishes them.       *)

PriceRow == [odds : Nat, previous : Nat, count : Nat]
UpdateRow == [at : {"new", "missing", "current", "count", "publish", "done"}, match : Priced \cup {"none"},
              odds : Nat, count : Nat]
SentRow == [odds : Nat, apart : BOOLEAN, ended : Nat, lost : BOOLEAN]
PriceTypes ==
  /\ price \in [Priced -> PriceRow] /\ update \in [Updates -> UpdateRow] /\ sent \in [Priced -> SentRow]
  /\ \A u \in Updates : update[u].at \in {"current", "count", "publish", "done"} => update[u].match \in Priced

\* The calls that wrote the count of a match: it never exceeds their number, nor does the
\* count a call is about to write from.
CountWriters(x) == {u \in Updates : update[u].match = x /\ update[u].at \in {"publish", "done"}}
CountsCovered ==
  /\ \A x \in Priced : price[x].count <= Cardinality(CountWriters(x))
  /\ \A u \in Updates : update[u].at = "count" => update[u].count <= Cardinality(CountWriters(update[u].match))

\* The odds published last are those in force, unless the last Publish failed.
ToldLast(x) == ~sent[x].lost => price[x].odds = sent[x].odds

\* While no two calls on a match overlapped, the call in progress accounts for what
\* differs between its outcome and what was published.
CallFollows(u, x) ==
  /\ update[u].at = "current" => price[x].count = sent[x].ended /\ ToldLast(x)
  /\ update[u].at = "count" => /\ price[x].count = sent[x].ended /\ update[u].count = sent[x].ended
                               /\ price[x].odds = update[u].odds
  /\ update[u].at = "publish" => price[x].count = sent[x].ended + 1 /\ price[x].odds = update[u].odds
Writer(u, x) == Writing(u) /\ update[u].match = x
MatchFollows(x) == sent[x].apart =>
  /\ \A u, v \in Updates : Writer(u, x) /\ Writer(v, x) => u = v
  /\ (\A u \in Updates : ~Writer(u, x)) => price[x].count = sent[x].ended /\ ToldLast(x)
  /\ \A u \in Updates : Writer(u, x) => CallFollows(u, x)
MatchesFollow == \A x \in Priced : MatchFollows(x)
PriceInvariant == PriceTypes /\ CountsCovered /\ MatchesFollow

\* The writers of a count are finitely many.
LEMMA WritersCounted ==
  ASSUME IsFiniteSet(Updates), NEW x
  PROVE  /\ IsFiniteSet(CountWriters(x)) /\ Cardinality(CountWriters(x)) \in Nat
         /\ Cardinality(CountWriters(x)) <= Cardinality({u \in Updates : update[u].match = x})
<1>1. IsFiniteSet({u \in Updates : update[u].match = x})
  BY FS_Subset
<1>2. CountWriters(x) \subseteq {u \in Updates : update[u].match = x}
  BY DEF CountWriters
<1> QED BY <1>1, <1>2, FS_Subset, FS_CardinalityType

\* No price has changed and no call has begun.
LEMMA PricesAtFirst == PriceInit /\ IsFiniteSet(Updates) /\ Prices # {} => PriceInvariant
<1> SUFFICES ASSUME PriceInit, IsFiniteSet(Updates), Prices # {}  PROVE PriceInvariant
  OBVIOUS
<1>1. FirstPrice \in Nat
  BY LivePricesAssumption DEF FirstPrice
<1>2. /\ price = [x \in Priced |-> [odds |-> FirstPrice, previous |-> FirstPrice, count |-> 0]]
      /\ update = [u \in Updates |-> [at |-> "new", match |-> "none", odds |-> 0, count |-> 0]]
      /\ sent = [x \in Priced |-> [odds |-> FirstPrice, apart |-> TRUE, ended |-> 0, lost |-> FALSE]]
  BY DEF PriceInit
<1>3. PriceTypes
  BY <1>1, <1>2 DEF PriceTypes, PriceRow, UpdateRow, SentRow
<1>4. CountsCovered
  <2>1. \A x \in Priced : price[x].count = 0
    BY <1>2
  <2>2. \A x : Cardinality(CountWriters(x)) \in Nat
    BY WritersCounted
  <2>3. \A u \in Updates : update[u].at # "count"
    BY <1>2
  <2> QED BY <2>1, <2>2, <2>3 DEF CountsCovered
<1>5. MatchesFollow
  BY <1>2 DEF MatchesFollow, MatchFollows, Writer, Writing, ToldLast
<1> QED BY <1>3, <1>4, <1>5 DEF PriceInvariant

\* A match none of whose rows or calls a step changes stays as it is.
LEMMA MatchStays ==
  ASSUME NEW x \in Priced, MatchFollows(x), price'[x] = price[x], sent'[x] = sent[x],
         \A u \in Updates : update'[u] = update[u] \/ (update[u].match # x /\ update'[u].match # x)
  PROVE  MatchFollows(x)'
<1>1. \A u \in Updates : /\ Writer(u, x)' = Writer(u, x) 
                         /\ Writer(u, x) => update'[u] = update[u]
  BY DEF Writer, Writing
<1>2. \A u \in Updates : Writer(u, x) => CallFollows(u, x)' = CallFollows(u, x)
  BY <1>1 DEF CallFollows, ToldLast
<1> QED BY <1>1, <1>2 DEF MatchFollows, ToldLast

\* The match is found, and the call that finds another in progress is noted.
LEMMA FindKeeps ==
  ASSUME PriceInvariant, IsFiniteSet(Updates), NEW u \in Updates, FindOutcome(u)  PROVE PriceInvariant'
<1> USE DEF PriceInvariant
<1>1. update[u] \in UpdateRow /\ update[u].at = "new"
  BY DEF FindOutcome, PriceTypes
<1>2. PICK x \in Asked, p \in Prices :
       IF x \in Priced
       THEN /\ update' = [update EXCEPT ![u] = [at |-> "current", match |-> x, odds |-> p, count |-> 0]]
            /\ price' = [price EXCEPT ![x].previous = price[x].odds]
            /\ sent' = [sent EXCEPT ![x].apart = @ /\ Racing(u, x) = {}]
       ELSE update' = [update EXCEPT ![u].at = "missing"] /\ UNCHANGED <<price, sent>>
  BY DEF FindOutcome
<1>3. CASE x \notin Priced
  <2>1. PICK n : n = [update[u] EXCEPT !.at = "missing"]
    OBVIOUS
  <2>2. n \in UpdateRow /\ n.at = "missing" /\ n.match = update[u].match
    BY <1>1, <2>1 DEF UpdateRow
  <2>3. update' = [update EXCEPT ![u] = n] /\ UNCHANGED <<price, sent>>
    BY <1>2, <1>3, <2>1
  <2>4. update'[u] = n /\ \A v \in Updates \ {u} : update'[v] = update[v]
    BY <2>3 DEF PriceTypes
  <2>5. PriceTypes'
    BY <2>2, <2>3, <2>4 DEF PriceTypes
  <2>6. \A y : CountWriters(y)' = CountWriters(y)
    BY <1>1, <2>2, <2>4 DEF CountWriters
  <2>7. CountsCovered'
    BY <2>2, <2>3, <2>4, <2>6 DEF CountsCovered
  <2>8. \A v \in Updates, y \in Priced : Writer(v, y)' = Writer(v, y) /\ (Writer(v, y) => CallFollows(v, y)' = CallFollows(v, y))
    BY <1>1, <2>2, <2>3, <2>4 DEF Writer, Writing, CallFollows, ToldLast
  <2>9. MatchesFollow'
    BY <2>3, <2>8 DEF MatchesFollow, MatchFollows, ToldLast
  <2> QED BY <2>5, <2>7, <2>9
<1>4. CASE x \in Priced
  <2>1. PICK n : n = [at |-> "current", match |-> x, odds |-> p, count |-> 0]
    OBVIOUS
  <2>2. n \in UpdateRow /\ n.at = "current" /\ n.match = x
    BY <1>4, <2>1, LivePricesAssumption DEF UpdateRow
  <2>3. update' = [update EXCEPT ![u] = n]
    BY <1>2, <1>4, <2>1
  <2>4. update'[u] = n /\ \A v \in Updates \ {u} : update'[v] = update[v]
    BY <2>3 DEF PriceTypes
  <2>5. PICK r : r = [price[x] EXCEPT !.previous = price[x].odds]
    OBVIOUS
  <2>6. r \in PriceRow /\ r.odds = price[x].odds /\ r.count = price[x].count
    BY <1>4, <2>5 DEF PriceTypes, PriceRow
  <2>7. price' = [price EXCEPT ![x] = r] /\ price'[x] = r
    BY <1>2, <1>4, <2>5 DEF PriceTypes
  <2>8. PICK alone \in BOOLEAN : alone = (sent[x].apart /\ Racing(u, x) = {})
    OBVIOUS
  <2>9. PICK s : s = [sent[x] EXCEPT !.apart = alone]
    OBVIOUS
  <2>10. s \in SentRow /\ s.odds = sent[x].odds /\ s.ended = sent[x].ended /\ s.apart = alone
        /\ s.lost = sent[x].lost
    BY <1>4, <2>8, <2>9 DEF PriceTypes, SentRow
  <2>11. sent' = [sent EXCEPT ![x] = s] /\ sent'[x] = s
    BY <1>2, <1>4, <2>8, <2>9 DEF PriceTypes
  <2>12. PriceTypes'
    <3>1. price' \in [Priced -> PriceRow]
      BY <2>6, <2>7 DEF PriceTypes
    <3>2. update' \in [Updates -> UpdateRow] /\ sent' \in [Priced -> SentRow]
      BY <2>2, <2>3, <2>10, <2>11 DEF PriceTypes
    <3> QED BY <1>4, <2>2, <2>4, <3>1, <3>2 DEF PriceTypes
  <2>13. \A y : CountWriters(y)' = CountWriters(y)
    BY <1>1, <2>2, <2>4 DEF CountWriters
  <2>14. \A y \in Priced : price'[y].count = price[y].count /\ price'[y].odds = price[y].odds
    BY <2>6, <2>7 DEF PriceTypes
  <2>15. CountsCovered'
    BY <2>2, <2>4, <2>13, <2>14 DEF CountsCovered
  <2>16. ASSUME NEW y \in Priced, y # x  PROVE MatchFollows(y)'
    <3>1. MatchFollows(y) /\ price'[y] = price[y] /\ sent'[y] = sent[y]
      BY <2>7, <2>11, <2>16 DEF MatchesFollow, PriceTypes
    <3>2. CASE update[u].match # y
      BY <2>2, <2>4, <2>16, <3>1, <3>2, MatchStays
    <3>3. CASE update[u].match = y
      <4>1. \A v \in Updates : Writer(v, y)' = Writer(v, y) /\ (Writer(v, y) => CallFollows(v, y)' = CallFollows(v, y))
        BY <1>1, <2>2, <2>4, <2>16, <3>1 DEF Writer, Writing, CallFollows, ToldLast
      <4> QED BY <3>1, <4>1 DEF MatchFollows, ToldLast
    <3> QED BY <3>2, <3>3
  <2>17. MatchFollows(x)'
    <3> SUFFICES ASSUME alone  PROVE /\ \A v, w \in Updates : Writer(v, x)' /\ Writer(w, x)' => v = w
                                     /\ Writer(u, x)' /\ CallFollows(u, x)'
      BY <2>10, <2>11 DEF MatchFollows
    <3>1. \A v \in Updates \ {u} : ~Writer(v, x) /\ ~Writer(v, x)'
      BY <2>4, <2>8 DEF Racing, Writer, Writing
    <3>2. ~Writer(u, x) /\ Writer(u, x)'
      BY <1>1, <2>2, <2>4 DEF Writer, Writing
    <3>3. price[x].count = sent[x].ended /\ ToldLast(x)
      BY <1>4, <2>8, <3>1, <3>2 DEF MatchesFollow, MatchFollows
    <3>4. CallFollows(u, x)'
      BY <1>4, <2>2, <2>4, <2>10, <2>11, <2>14, <3>3 DEF CallFollows, ToldLast
    <3> QED BY <3>1, <3>2, <3>4
  <2> QED BY <2>12, <2>15, <2>16, <2>17 DEF MatchesFollow
<1> QED BY <1>3, <1>4

\* The next step of a call that found its match: it touches that match alone, and while
\* no call overlapped it, it is the only one that does.
LEMMA CallMoves ==
  ASSUME PriceInvariant, NEW u \in Updates, Writing(u), NEW n \in UpdateRow, n.match = update[u].match,
         n.at \in {"count", "publish", "done"}, update' = [update EXCEPT ![u] = n],
         PriceTypes', CountsCovered',
         \A y \in Priced \ {n.match} : price'[y] = price[y] /\ sent'[y] = sent[y],
         sent'[n.match].apart = sent[n.match].apart,
         sent[n.match].apart /\ n.at # "done" /\ CallFollows(u, n.match) => CallFollows(u, n.match)',
         sent[n.match].apart /\ n.at = "done" /\ CallFollows(u, n.match) =>
           price'[n.match].count = sent'[n.match].ended /\ ToldLast(n.match)'
  PROVE  PriceInvariant'
<1> USE DEF PriceInvariant
<1>1. PICK x : x = n.match
  OBVIOUS
<1>2. x \in Priced /\ update'[u] = n /\ \A v \in Updates \ {u} : update'[v] = update[v]
  BY <1>1 DEF PriceTypes, Writing
<1>3. ASSUME NEW y \in Priced, y # x  PROVE MatchFollows(y)'
  BY <1>1, <1>2, <1>3, MatchStays DEF MatchesFollow
<1>4. MatchFollows(x)'
  <2> SUFFICES ASSUME sent[x].apart
               PROVE  /\ \A v, w \in Updates : Writer(v, x)' /\ Writer(w, x)' => v = w
                      /\ (\A v \in Updates : ~Writer(v, x)') => price'[x].count = sent'[x].ended /\ ToldLast(x)'
                      /\ \A v \in Updates : Writer(v, x)' => CallFollows(v, x)'
    BY <1>1 DEF MatchFollows
  <2>1. Writer(u, x) /\ MatchFollows(x)
    BY <1>1, <1>2 DEF Writer, MatchesFollow
  <2>2. CallFollows(u, x) /\ \A v \in Updates \ {u} : ~Writer(v, x)
    BY <2>1 DEF MatchFollows
  <2>3. \A v \in Updates \ {u} : ~Writer(v, x)'
    BY <1>2, <2>2 DEF Writer, Writing
  <2>4. CASE n.at = "done"
    <3>1. ~Writer(u, x)'
      BY <1>2, <2>4 DEF Writer, Writing
    <3>2. price'[x].count = sent'[x].ended /\ ToldLast(x)'
      BY <1>1, <2>2, <2>4
    <3> QED BY <2>3, <3>1, <3>2
  <2>5. CASE n.at # "done"
    <3>1. CallFollows(u, x)' /\ Writer(u, x)'
      BY <1>1, <1>2, <2>2, <2>5 DEF Writer, Writing
    <3> QED BY <2>3, <3>1
  <2> QED BY <2>4, <2>5
<1> QED BY <1>3, <1>4 DEF MatchesFollow

\* The odds are written and the count read.
LEMMA SetKeeps ==
  ASSUME PriceInvariant, IsFiniteSet(Updates), NEW u \in Updates, SetCurrent(u)  PROVE PriceInvariant'
<1> USE DEF PriceInvariant
<1>1. PICK x, k : x = update[u].match /\ k = price[x].count
  OBVIOUS
<1>2. /\ update[u].at = "current" /\ update[u] \in UpdateRow /\ x \in Priced /\ k \in Nat /\ price[x] \in PriceRow
      /\ sent' = sent /\ Writing(u)
  BY <1>1 DEF SetCurrent, PriceTypes, PriceRow, Writing
<1>3. PICK m : m = [update[u] EXCEPT !.at = "count"]
  OBVIOUS
<1>4. PICK n : n = [m EXCEPT !.count = k]
  OBVIOUS
<1>5. m \in UpdateRow /\ m.at = "count" /\ m.match = x /\ m.odds = update[u].odds
  BY <1>1, <1>2, <1>3 DEF UpdateRow
<1>6. n \in UpdateRow /\ n.at = "count" /\ n.match = x /\ n.odds = update[u].odds /\ n.count = k
  BY <1>2, <1>4, <1>5 DEF UpdateRow
<1>7. update' = [update EXCEPT ![u] = n]
  BY <1>1, <1>3, <1>4 DEF SetCurrent, PriceTypes
<1>8. update'[u] = n /\ \A v \in Updates \ {u} : update'[v] = update[v]
  BY <1>7 DEF PriceTypes
<1>9. PICK r : r = [price[x] EXCEPT !.odds = update[u].odds]
  OBVIOUS
<1>10. r \in PriceRow /\ r.odds = update[u].odds /\ r.count = k
  BY <1>1, <1>2, <1>9 DEF PriceRow, UpdateRow
<1>11. price' = [price EXCEPT ![x] = r]
  BY <1>1, <1>9 DEF SetCurrent
<1>12. price'[x] = r /\ \A y \in Priced \ {x} : price'[y] = price[y]
  BY <1>2, <1>11 DEF PriceTypes
<1>13. PriceTypes'
  <2>1. price' \in [Priced -> PriceRow] /\ update' \in [Updates -> UpdateRow]
    BY <1>6, <1>7, <1>10, <1>11 DEF PriceTypes
  <2> QED BY <1>2, <1>6, <1>8, <2>1 DEF PriceTypes
<1>14. \A y : CountWriters(y)' = CountWriters(y)
  BY <1>2, <1>6, <1>8 DEF CountWriters
<1>15. CountsCovered'
  <2>1. k <= Cardinality(CountWriters(x))
    BY <1>1, <1>2 DEF CountsCovered
  <2>2. \A y \in Priced : price'[y].count = price[y].count
    BY <1>1, <1>10, <1>12
  <2> QED BY <1>6, <1>8, <1>14, <2>1, <2>2 DEF CountsCovered
<1>16. sent[x].apart /\ CallFollows(u, x) => CallFollows(u, x)'
  BY <1>1, <1>2, <1>6, <1>8, <1>10, <1>12 DEF CallFollows
<1>17. /\ n.match = update[u].match /\ n.at # "done"
       /\ \A y \in Priced \ {n.match} : price'[y] = price[y] /\ sent'[y] = sent[y]
       /\ sent[n.match].apart /\ n.at # "done" /\ CallFollows(u, n.match) => CallFollows(u, n.match)'
       /\ sent'[n.match].apart = sent[n.match].apart
  BY <1>1, <1>2, <1>6, <1>12, <1>16
<1> HIDE DEF PriceInvariant
<1> QED BY <1>2, <1>6, <1>7, <1>13, <1>15, <1>17, CallMoves

\* The count is written from what was read: calls that overlap write the same one.
LEMMA CountKeeps ==
  ASSUME PriceInvariant, IsFiniteSet(Updates), NEW u \in Updates, WriteCount(u)  PROVE PriceInvariant'
<1> USE DEF PriceInvariant
<1>1. PICK x, k : x = update[u].match /\ k = update[u].count
  OBVIOUS
<1>2. /\ update[u].at = "count" /\ update[u] \in UpdateRow /\ x \in Priced /\ k \in Nat /\ price[x] \in PriceRow
      /\ sent' = sent /\ Writing(u)
  BY <1>1 DEF WriteCount, PriceTypes, UpdateRow, Writing
<1>3. PICK n : n = [update[u] EXCEPT !.at = "publish"]
  OBVIOUS
<1>4. n \in UpdateRow /\ n.at = "publish" /\ n.match = x /\ n.odds = update[u].odds
  BY <1>1, <1>2, <1>3 DEF UpdateRow
<1>5. update' = [update EXCEPT ![u] = n]
  BY <1>3 DEF WriteCount
<1>6. update'[u] = n /\ \A v \in Updates \ {u} : update'[v] = update[v]
  BY <1>5 DEF PriceTypes
<1>7. PICK r : r = [price[x] EXCEPT !.count = k + 1]
  OBVIOUS
<1>8. r \in PriceRow /\ r.odds = price[x].odds /\ r.count = k + 1
  BY <1>2, <1>7 DEF PriceRow
<1>9. price' = [price EXCEPT ![x] = r]
  BY <1>1, <1>7 DEF WriteCount
<1>10. price'[x] = r /\ \A y \in Priced \ {x} : price'[y] = price[y]
  BY <1>2, <1>9 DEF PriceTypes
<1>11. PriceTypes'
  <2>1. price' \in [Priced -> PriceRow] /\ update' \in [Updates -> UpdateRow]
    BY <1>4, <1>5, <1>8, <1>9 DEF PriceTypes
  <2> QED BY <1>2, <1>4, <1>6, <2>1 DEF PriceTypes
<1>12. /\ u \notin CountWriters(x) /\ CountWriters(x)' = CountWriters(x) \cup {u}
       /\ \A y : y # x => CountWriters(y)' = CountWriters(y)
  BY <1>1, <1>2, <1>4, <1>6 DEF CountWriters
<1>13. Cardinality(CountWriters(x)') = Cardinality(CountWriters(x)) + 1 /\ Cardinality(CountWriters(x)) \in Nat
  BY <1>12, WritersCounted, FS_AddElement
<1>14. CountsCovered'
  <2>1. k <= Cardinality(CountWriters(x))
    BY <1>1, <1>2 DEF CountsCovered
  <2>2. ASSUME NEW y \in Priced  PROVE price'[y].count <= Cardinality(CountWriters(y)')
    <3>1. CASE y = x
      BY <1>2, <1>8, <1>10, <1>13, <2>1, <3>1
    <3>2. CASE y # x
      BY <1>10, <1>12, <3>2 DEF CountsCovered
    <3> QED BY <3>1, <3>2
  <2>3. ASSUME NEW v \in Updates, update'[v].at = "count"
        PROVE  update'[v].count <= Cardinality(CountWriters(update[v].match)')
    <3>1. v # u /\ update'[v] = update[v] /\ update[v].count \in Nat
      BY <1>4, <1>6, <2>3 DEF PriceTypes, UpdateRow
    <3>2. PICK y : y = update[v].match
      OBVIOUS
    <3>3. update[v].count <= Cardinality(CountWriters(y))
      BY <2>3, <3>1, <3>2 DEF CountsCovered
    <3>4. CASE y = x
      BY <1>13, <3>1, <3>2, <3>3, <3>4
    <3>5. CASE y # x
      BY <1>12, <3>1, <3>2, <3>3, <3>5
    <3> QED BY <3>4, <3>5
  <2> QED BY <2>2, <2>3 DEF CountsCovered
<1>15. sent[x].apart /\ CallFollows(u, x) => CallFollows(u, x)'
  BY <1>1, <1>2, <1>4, <1>6, <1>8, <1>10 DEF CallFollows
<1>16. /\ n.match = update[u].match /\ n.at # "done"
       /\ \A y \in Priced \ {n.match} : price'[y] = price[y] /\ sent'[y] = sent[y]
       /\ sent[n.match].apart /\ n.at # "done" /\ CallFollows(u, n.match) => CallFollows(u, n.match)'
       /\ sent'[n.match].apart = sent[n.match].apart
  BY <1>1, <1>2, <1>4, <1>10, <1>15
<1> HIDE DEF PriceInvariant
<1> QED BY <1>2, <1>4, <1>5, <1>11, <1>14, <1>16, CallMoves

\* The odds of the call are published.
LEMMA PublishKeeps ==
  ASSUME PriceInvariant, IsFiniteSet(Updates), NEW u \in Updates, PublishOdds(u)  PROVE PriceInvariant'
<1> USE DEF PriceInvariant
<1>1. PICK x : x = update[u].match
  OBVIOUS
<1>2. /\ update[u].at = "publish" /\ update[u] \in UpdateRow /\ x \in Priced /\ sent[x] \in SentRow
      /\ price' = price /\ Writing(u)
  BY <1>1 DEF PublishOdds, PriceTypes, Writing
<1>3. PICK n : n = [update[u] EXCEPT !.at = "done"]
  OBVIOUS
<1>4. n \in UpdateRow /\ n.at = "done" /\ n.match = x /\ n.odds = update[u].odds /\ update[u].odds \in Nat
  BY <1>1, <1>2, <1>3 DEF UpdateRow
<1>5. update' = [update EXCEPT ![u] = n]
  BY <1>3 DEF PublishOdds
<1>6. update'[u] = n /\ \A v \in Updates \ {u} : update'[v] = update[v]
  BY <1>5 DEF PriceTypes
<1>7. PICK published \in BOOLEAN :
        sent' = [sent EXCEPT ![x].ended = @ + 1, ![x].lost = ~published,
                             ![x].odds = IF published THEN update[u].odds ELSE @]
  BY <1>1 DEF PublishOdds
<1>8. PICK r, s, t : /\ r = [sent[x] EXCEPT !.ended = @ + 1]
                     /\ s = [r EXCEPT !.lost = ~published]
                     /\ t = [s EXCEPT !.odds = IF published THEN update[u].odds ELSE sent[x].odds]
  OBVIOUS
<1>9. /\ r \in SentRow /\ r.ended = sent[x].ended + 1 /\ r.apart = sent[x].apart /\ r.odds = sent[x].odds
      /\ s \in SentRow /\ s.ended = r.ended /\ s.apart = r.apart /\ s.lost = ~published /\ s.odds = r.odds
  <2>1. r \in SentRow /\ r.ended = sent[x].ended + 1 /\ r.apart = sent[x].apart /\ r.odds = sent[x].odds
    BY <1>2, <1>8 DEF SentRow
  <2> QED BY <1>8, <2>1 DEF SentRow
<1>10. /\ t \in SentRow /\ t.ended = sent[x].ended + 1 /\ t.apart = sent[x].apart
       /\ ~t.lost => t.odds = update[u].odds
  <2>1. PICK o : o = IF published THEN update[u].odds ELSE sent[x].odds
    OBVIOUS
  <2>2. o \in Nat /\ (published => o = update[u].odds)
    BY <1>2, <1>4, <2>1 DEF SentRow
  <2>3. t = [s EXCEPT !.odds = o]
    BY <1>8, <2>1
  <2>4. t \in SentRow /\ t.odds = o /\ t.ended = s.ended /\ t.apart = s.apart /\ t.lost = s.lost
    BY <1>9, <2>2, <2>3 DEF SentRow
  <2> QED BY <1>9, <2>2, <2>4
<1>11. sent' = [sent EXCEPT ![x] = t]
  BY <1>2, <1>7, <1>8 DEF PriceTypes, SentRow
<1>12. sent'[x] = t /\ \A y \in Priced \ {x} : sent'[y] = sent[y]
  BY <1>2, <1>11 DEF PriceTypes
<1>13. PriceTypes'
  <2>1. sent' \in [Priced -> SentRow] /\ update' \in [Updates -> UpdateRow]
    BY <1>4, <1>5, <1>10, <1>11 DEF PriceTypes
  <2> QED BY <1>2, <1>4, <1>6, <2>1 DEF PriceTypes
<1>14. \A y : CountWriters(y)' = CountWriters(y)
  BY <1>1, <1>2, <1>4, <1>6 DEF CountWriters
<1>15. CountsCovered'
  BY <1>2, <1>4, <1>6, <1>14 DEF CountsCovered
<1>16. CallFollows(u, x) => price'[x].count = sent'[x].ended /\ ToldLast(x)'
  BY <1>2, <1>10, <1>12 DEF CallFollows, ToldLast
<1>17. /\ n.match = update[u].match
       /\ \A y \in Priced \ {n.match} : price'[y] = price[y] /\ sent'[y] = sent[y]
       /\ CallFollows(u, n.match) =>
            price'[n.match].count = sent'[n.match].ended /\ ToldLast(n.match)'
       /\ sent'[n.match].apart = sent[n.match].apart
  BY <1>1, <1>2, <1>4, <1>10, <1>12, <1>16
<1> HIDE DEF PriceInvariant
<1> QED BY <1>2, <1>4, <1>5, <1>13, <1>15, <1>17, CallMoves

\* Every step of UpdateOdds keeps the invariant.
LEMMA PricesKept ==
  ASSUME PriceInvariant, IsFiniteSet(Updates), [PriceNext]_priceVars  PROVE PriceInvariant'
<1>1. CASE UNCHANGED priceVars
  BY <1>1 DEF priceVars, PriceInvariant, PriceTypes, CountsCovered, MatchesFollow, MatchFollows, Writer, Writing,
              CallFollows, CountWriters, ToldLast
<1>2. CASE PriceNext
  BY <1>2, FindKeeps, SetKeeps, CountKeeps, PublishKeeps DEF PriceNext, UpdateLiveOdds
<1> QED BY <1>1, <1>2

\* The count of a match never exceeds its calls; once calls that came one after the other
\* have ended, the odds published last are those in force, unless the last of them failed
\* to publish (UpdateLiveOdds).
LEMMA PricesAlways == PriceInvariant /\ IsFiniteSet(Updates) => PricesPublishedApart
<1> SUFFICES ASSUME PriceInvariant, IsFiniteSet(Updates), NEW x \in Priced
             PROVE  /\ price[x].count <= Cardinality({u \in Updates : update[u].match = x})
                    /\ sent[x].apart /\ (\A u \in Updates : ~(Writing(u) /\ update[u].match = x)) =>
                         price[x].count = sent[x].ended /\ ToldLast(x)
  BY DEF PricesPublishedApart, ToldLast
<1>1. MatchFollows(x) /\ price[x].count \in Nat /\ price[x].count <= Cardinality(CountWriters(x))
  BY DEF PriceInvariant, MatchesFollow, CountsCovered, PriceTypes, PriceRow
<1>2. IsFiniteSet({u \in Updates : update[u].match = x})
  BY FS_Subset
<1>3. Cardinality({u \in Updates : update[u].match = x}) \in Nat
  BY <1>2, FS_CardinalityType
<1>4. price[x].count <= Cardinality({u \in Updates : update[u].match = x})
  BY <1>1, <1>3, WritersCounted
<1> QED BY <1>1, <1>4 DEF MatchFollows, Writer

-----------------------------------------------------------------------------
(* Jackpots: a prize is covered by the start and the contributions of its pot.*)

PotRow == [status : {"none", "ACTIVE", "COMPLETED"}, amount : Nat, winner : Buys \cup {"none"}]
TicketRow == [status : {"none", "ACTIVE", "WINNER"}, pot : Pots \cup {"none"}, combo : Combos \cup {"none", "invalid"},
              stake : Nat, prize : Nat]
BuyRow == [at : {"new", "refused", "ticket", "pot", "bought", "failed"}, ask : TicketRow, seen : PotRow]
DrawRow == [at : {"new", "tickets", "mark", "pay", "write", "drawn", "failed"}, pot : Pots \cup {"none"},
            seen : PotRow, winner : Buys \cup {"none"}]
JackpotTypes ==
  /\ pot \in [Pots -> PotRow] /\ ticket \in [Buys -> TicketRow]
  /\ buy \in [Buys -> BuyRow] /\ draw \in [Draws -> DrawRow]
  /\ credits \subseteq [draw : Draws, ticket : Buys, amount : Nat]
  /\ start \in [Pots -> Nat]

\* The purchases whose contribution was written, or may have been before an error, and
\* the most that a row of the jackpot can hold with them.
Bought(p) == {b \in Buys : ticket[b].pot = p /\ buy[b].at \in {"bought", "failed"}}
Bound(p) == start[p] + Sum(Contributions, Bought(p))

PotsCovered == \A p \in Pots :
  /\ pot[p].amount <= Bound(p)
  /\ pot[p].status = "none" => start[p] = 0

\* A purchase has its ticket from the step that saves it, and read the jackpot before.
BuyCovered(b) ==
  /\ buy[b].at \in {"new", "ticket"} => ticket[b] = NoTicket
  /\ buy[b].at \in {"ticket", "pot"} =>
       /\ buy[b].ask.pot \in Pots /\ buy[b].seen.status = "ACTIVE" /\ buy[b].ask.status = "ACTIVE"
       /\ buy[b].seen.amount <= Bound(buy[b].ask.pot)
  /\ buy[b].at = "pot" => ticket[b].pot = buy[b].ask.pot /\ ticket[b].stake = buy[b].ask.stake
  /\ ticket[b].status # "none" => ticket[b].pot \in Pots
BuysCovered == \A b \in Buys : BuyCovered(b)

DrawCovered(d) ==
  /\ Drawing(d) => /\ draw[d].pot \in Pots /\ draw[d].seen.status # "none"
                   /\ draw[d].seen.amount <= Bound(draw[d].pot)
  /\ draw[d].at \in {"mark", "pay"} =>
       /\ draw[d].winner \in Buys /\ ticket[draw[d].winner].pot = draw[d].pot
       /\ ticket[draw[d].winner].status # "none"
  /\ draw[d].at = "pay" => ticket[draw[d].winner].status = "WINNER"
DrawsCovered == \A d \in Draws : DrawCovered(d)
CreditCovered(x) ==
  /\ ticket[x.ticket].status = "WINNER"
  /\ x.amount <= Bound(ticket[x.ticket].pot)
CreditsCovered == \A x \in credits : CreditCovered(x)

\* Draws of one jackpot that overlap leave their mark; without it the winner a draw
\* is about to pay has not been paid.
OneDrawAtATime == \A d, e \in Draws :
  Drawing(d) /\ Drawing(e) /\ draw[d].pot = draw[e].pot /\ d # e => draw[d].pot \in crossed
NotYetPaid == \A d \in Draws :
  draw[d].at \in {"mark", "pay"} /\ draw[d].pot \notin crossed => \A x \in credits : x.ticket # draw[d].winner
PaidOnceApart == \A x, y \in credits :
  x.ticket = y.ticket /\ ticket[x.ticket].pot \notin crossed => x = y
JackpotInvariant ==
  /\ JackpotTypes /\ PotsCovered /\ BuysCovered /\ DrawsCovered /\ CreditsCovered
  /\ OneDrawAtATime /\ NotYetPaid /\ PaidOnceApart

\* A contribution is an amount.
LEMMA ContributionNat ==
  ASSUME NEW n \in Nat  PROVE Contribution(n) \in Nat
BY JackpotsAssumption DEF Contribution

\* What a ticket adds to its jackpot is a natural number (CalculateContribution).
LEMMA ContributionsNat ==
  ASSUME JackpotTypes
  PROVE  \A b \in Buys : Contributions[b] = Contribution(ticket[b].stake) /\ Contributions[b] \in Nat
BY ContributionNat DEF Contributions, JackpotTypes, TicketRow

\* The contributions written are among the saved tickets'.
LEMMA BoundBelow ==
  ASSUME JackpotTypes, IsFiniteSet(Buys), NEW p \in Pots
  PROVE  Bound(p) \in Nat /\ Bound(p) <= start[p] + Contributed(p)
<1> DEFINE S == {b \in Buys : ticket[b].pot = p}
           W == Contributions
           T == Bought(p)
<1>1. IsFiniteSet(S) /\ T \subseteq S /\ \A b \in S : W[b] \in Nat
  BY FS_Subset, ContributionsNat DEF Bought
<1>2. IsIntOn(W, S)
  BY <1>1 DEF IsIntOn
<1>3. Contributed(p) = Sum(W, S)
  BY DEF Contributed, Sum
<1>4. start[p] \in Nat
  BY DEF JackpotTypes
<1> HIDE DEF S, W, T
<1>5. /\ Sum(W, S) = Sum(W, T) + Sum(W, S \ T)
  BY <1>1, <1>2, SumSplit
<1>6. Sum(W, T) \in Nat /\ Sum(W, S \ T) \in Nat
  <2>1. IsFiniteSet(T) /\ IsFiniteSet(S \ T)
    BY <1>1, FS_Subset
  <2> QED BY <1>1, <2>1, SumNat
<1> QED BY <1>3, <1>4, <1>5, <1>6 DEF Bound, W, T

\* The bound of the next state is a number as well.
LEMMA BoundBelowNext ==
  ASSUME JackpotTypes', IsFiniteSet(Buys), NEW p \in Pots  PROVE Bound(p)' \in Nat
<1> DEFINE g == Contributions'
           T == Bought(p)'
<1>1. IsFiniteSet(T) /\ T \subseteq Buys
  BY FS_Subset DEF Bought
<1>2. \A b \in Buys : g[b] \in Nat
  BY ContributionNat DEF Contributions, Contribution, JackpotTypes, TicketRow
<1>3. Bound(p)' = start'[p] + Sum(g, T) /\ start'[p] \in Nat
  BY DEF Bound, JackpotTypes
<1> HIDE DEF g, T
<1>4. Sum(g, T) \in Nat
  BY <1>1, <1>2, SumNat
<1> QED BY <1>3, <1>4

\* What a jackpot may hold does not shrink while the contributions written keep their stakes.
LEMMA BoundGrows ==
  ASSUME JackpotTypes, JackpotTypes', IsFiniteSet(Buys), NEW p \in Pots, start[p] <= start'[p],
         Bought(p) \subseteq Bought(p)', \A b \in Bought(p) : ticket'[b].stake = ticket[b].stake
  PROVE  Bound(p) <= Bound(p)'
<1> DEFINE f == Contributions
           g == Contributions'
           T == Bought(p)
           U == Bought(p)'
<1>1. IsFiniteSet(T) /\ T \subseteq Buys
  BY FS_Subset DEF Bought
<1>2. \A b \in Buys : f[b] = Contribution(ticket[b].stake) /\ f[b] \in Nat
  BY ContributionsNat
<1>3. \A b \in Buys : g[b] = Contribution(ticket'[b].stake)
  BY DEF Contributions, Contribution
<1>4. \A b \in T : g[b] = f[b]
  BY <1>1, <1>2, <1>3
<1>5. IsIntOn(f, T) /\ \A b \in T : f[b] \in Nat
  BY <1>1, <1>2 DEF IsIntOn
<1>6. /\ T \subseteq U /\ IsFiniteSet(U) /\ U \subseteq Buys
      /\ \A b \in U : g[b] \in Nat
  BY <1>3, ContributionNat, FS_Subset DEF Bought, JackpotTypes, TicketRow
<1>7. IsIntOn(g, U) /\ IsFiniteSet(U \ T)
  BY <1>6, FS_Subset DEF IsIntOn
<1>8. start[p] \in Nat /\ start'[p] \in Nat
  BY DEF JackpotTypes
<1>9. Bound(p) = start[p] + Sum(f, T) /\ Bound(p)' = start'[p] + Sum(g, U)
  BY DEF Bound
<1> HIDE DEF f, g, T, U
<1>10. Sum(g, T) = Sum(f, T) /\ Sum(f, T) \in Nat
  BY <1>1, <1>4, <1>5, SumCongruence, SumNat
<1>11. Sum(g, U) = Sum(g, T) + Sum(g, U \ T)
  BY <1>6, <1>7, SumSplit
<1>12. Sum(g, U \ T) \in Nat
  BY <1>6, <1>7, SumNat
<1> QED BY <1>8, <1>9, <1>10, <1>11, <1>12

\* A written contribution counts from then on.
LEMMA BoundAdds ==
  ASSUME JackpotTypes, JackpotTypes', IsFiniteSet(Buys), NEW p \in Pots, NEW b \in Buys, b \notin Bought(p),
         UNCHANGED <<start, ticket>>, Bought(p)' = Bought(p) \cup {b}
  PROVE  Bound(p)' = Bound(p) + Contribution(ticket[b].stake)
<1> DEFINE f == Contributions
           T == Bought(p)
<1>1. IsFiniteSet(T) /\ T \subseteq Buys
  BY FS_Subset DEF Bought
<1>2. \A c \in Buys : f[c] = Contribution(ticket[c].stake) /\ f[c] \in Nat
  BY ContributionsNat
<1>3. Contributions' = f
  BY DEF Contributions, Contribution
<1>4. start[p] \in Nat
  BY DEF JackpotTypes
<1>5. Bound(p) = start[p] + Sum(f, T) /\ Bound(p)' = start[p] + Sum(f, T \cup {b})
  BY <1>3 DEF Bound
<1> HIDE DEF f, T
<1>6. IsIntOn(f, T \cup {b}) /\ b \notin T /\ \A c \in T : f[c] \in Nat
  BY <1>1, <1>2 DEF IsIntOn, T
<1>7. Sum(f, T \cup {b}) = Sum(f, T) + f[b] /\ Sum(f, T) \in Nat
  BY <1>1, <1>6, SumAdd, SumNat
<1> QED BY <1>2, <1>4, <1>5, <1>7

\* No prize exceeds what the jackpot began with and its tickets contributed, and each was
\* read under that bound; draws apart pay a ticket once.
LEMMA JackpotsAlways == JackpotInvariant /\ IsFiniteSet(Buys) => PrizesAreCovered
<1> SUFFICES ASSUME JackpotInvariant, IsFiniteSet(Buys)  PROVE PrizesAreCovered
  OBVIOUS
<1> USE DEF JackpotInvariant
<1>1. ASSUME NEW x \in credits
      PROVE  /\ ticket[x.ticket].status = "WINNER"
             /\ x.amount <= start[ticket[x.ticket].pot] + Contributed(ticket[x.ticket].pot)
  <2>1. PICK p : p = ticket[x.ticket].pot
    OBVIOUS
  <2>2. /\ x.ticket \in Buys /\ x.amount \in Nat /\ ticket[x.ticket].status = "WINNER" /\ x.amount <= Bound(p)
    BY <2>1 DEF CreditsCovered, CreditCovered, JackpotTypes
  <2>3. p \in Pots
    BY <2>1, <2>2 DEF BuysCovered, BuyCovered
  <2>4. Bound(p) \in Nat /\ Bound(p) <= start[p] + Contributed(p)
    BY <2>3, BoundBelow
  <2>5. start[p] + Contributed(p) \in Int
    <3> DEFINE S == {b \in Buys : ticket[b].pot = p}
    <3>1. IsFiniteSet(S) /\ \A b \in S : Contributions[b] \in Nat
      BY FS_Subset, ContributionsNat
    <3>2. Sum(Contributions, S) \in Nat
      BY <3>1, SumNat
    <3> QED BY <2>3, <3>2 DEF Contributed, Sum, JackpotTypes
  <2> QED BY <2>1, <2>2, <2>4, <2>5
<1> QED BY <1>1 DEF PrizesAreCovered, PaidOnceApart

\* No jackpot, no ticket and no draw: nothing to cover.
LEMMA JackpotsAtFirst == JackpotInit /\ IsFiniteSet(Buys) => JackpotInvariant
<1> SUFFICES ASSUME JackpotInit, IsFiniteSet(Buys)  PROVE JackpotInvariant
  OBVIOUS
<1> USE DEF JackpotInit
<1>1. NoPot \in PotRow /\ NoTicket \in TicketRow
  BY DEF NoPot, NoTicket, PotRow, TicketRow
<1>2. JackpotTypes
  BY <1>1 DEF JackpotTypes, BuyRow, DrawRow
<1>3. \A p \in Pots : Bound(p) \in Nat
  BY <1>2, BoundBelow
<1>4. PotsCovered
  BY <1>3 DEF PotsCovered, NoPot
<1>5. BuysCovered
  BY DEF BuysCovered, BuyCovered, NoTicket
<1>6. \A d \in Draws : ~Drawing(d) /\ draw[d].at = "new"
  BY DEF Drawing
<1> QED BY <1>2, <1>4, <1>5, <1>6 DEF JackpotInvariant, DrawsCovered, DrawCovered, CreditsCovered, OneDrawAtATime, NotYetPaid,
        PaidOnceApart

\* What the jackpots may hold grows, if it changes at all.
Grow == \A p \in Pots : Bound(p) \in Nat /\ Bound(p)' \in Nat /\ Bound(p) <= Bound(p)'

\* A step of a purchase that has not ended lets every bound stand, or rise.
LEMMA BuysGrow ==
  ASSUME JackpotTypes, JackpotTypes', IsFiniteSet(Buys), NEW b \in Buys, UNCHANGED start,
         buy[b].at \notin {"bought", "failed"},
         \A c \in Buys \ {b} : buy'[c] = buy[c] /\ ticket'[c] = ticket[c]
  PROVE  Grow
<1> SUFFICES ASSUME NEW p \in Pots  PROVE Bound(p) \in Nat /\ Bound(p)' \in Nat /\ Bound(p) <= Bound(p)'
  BY DEF Grow
<1>1. Bought(p) \subseteq Bought(p)' /\ \A c \in Bought(p) : ticket'[c].stake = ticket[c].stake
  BY DEF Bought
<1>2. Bound(p) \in Nat
  BY BoundBelow
<1>3. start[p] \in Nat /\ start'[p] = start[p]
  BY DEF JackpotTypes
<1>4. Bound(p) <= Bound(p)'
  BY <1>1, <1>3, BoundGrows
<1>5. Bound(p)' \in Nat
  BY BoundBelowNext
<1> QED BY <1>2, <1>4, <1>5

\* A draw writes no contribution.
LEMMA DrawsGrow ==
  ASSUME JackpotTypes, JackpotTypes', IsFiniteSet(Buys), UNCHANGED <<buy, start>>,
         \A c \in Buys : ticket'[c].pot = ticket[c].pot /\ ticket'[c].stake = ticket[c].stake
  PROVE  Grow
<1> SUFFICES ASSUME NEW p \in Pots  PROVE Bound(p) \in Nat /\ Bound(p)' \in Nat /\ Bound(p) <= Bound(p)'
  BY DEF Grow
<1>1. Bought(p)' = Bought(p) /\ \A c \in Bought(p) : ticket'[c].stake = ticket[c].stake
  BY DEF Bought
<1>2. Bound(p) \in Nat
  BY BoundBelow
<1>3. start[p] \in Nat /\ start'[p] = start[p]
  BY DEF JackpotTypes
<1>4. Bound(p) <= Bound(p)'
  BY <1>1, <1>3, BoundGrows
<1>5. Bound(p)' \in Nat
  BY BoundBelowNext
<1> QED BY <1>2, <1>4, <1>5

\* A saved ticket keeps its jackpot and stake, and stays the winner it is marked as.
TicketsStay == \A b \in Buys : ticket[b].status # "none" =>
  /\ ticket'[b].pot = ticket[b].pot /\ ticket'[b].stake = ticket[b].stake
  /\ ticket'[b].status \in {ticket[b].status, "WINNER"}

\* What is covered stays so while the bounds grow: a purchase, a draw and a credit that
\* a step leaves alone.
LEMMA BuyStays ==
  ASSUME JackpotInvariant, Grow, TicketsStay, NEW b \in Buys, buy'[b] = buy[b],
         ticket'[b] = ticket[b] \/ ticket[b].status # "none"
  PROVE  BuyCovered(b)'
<1>1. PICK p, n : p = buy[b].ask.pot /\ n = buy[b].seen.amount
  OBVIOUS
<1>2. BuyCovered(b) /\ n \in Nat
  BY <1>1 DEF JackpotInvariant, BuysCovered, JackpotTypes, BuyRow, PotRow
<1>3. buy[b].at \in {"ticket", "pot"} => n <= Bound(p)'
  <2>1. ASSUME buy[b].at \in {"ticket", "pot"}  PROVE p \in Pots /\ n <= Bound(p)
    BY <1>1, <1>2, <2>1 DEF BuyCovered
  <2> QED BY <1>2, <2>1 DEF Grow
<1>4. buy'[b].ask.pot = p /\ buy'[b].seen.amount = n
  BY <1>1
<1>5. buy[b].at \in {"ticket", "pot"} => buy'[b].seen.amount <= Bound(buy[b].ask.pot)'
  BY <1>3, <1>4
<1> QED BY <1>2, <1>5 DEF BuyCovered, TicketsStay, NoTicket

\* A draw that did not move stays covered when the bounds grow.
LEMMA DrawStays ==
  ASSUME JackpotInvariant, Grow, TicketsStay, NEW d \in Draws, draw'[d] = draw[d]
  PROVE  DrawCovered(d)'
<1>1. PICK p, n : p = draw[d].pot /\ n = draw[d].seen.amount
  OBVIOUS
<1>2. DrawCovered(d) /\ n \in Nat
  BY <1>1 DEF JackpotInvariant, DrawsCovered, JackpotTypes, DrawRow, PotRow
<1>3. Drawing(d) => n <= Bound(p)'
  <2>1. ASSUME Drawing(d)  PROVE p \in Pots /\ n <= Bound(p)
    BY <1>1, <1>2, <2>1 DEF DrawCovered
  <2> QED BY <1>2, <2>1 DEF Grow
<1>4. Drawing(d)' = Drawing(d) /\ draw'[d].pot = p /\ draw'[d].seen.amount = n
  BY <1>1 DEF Drawing
<1>5. Drawing(d)' => draw'[d].seen.amount <= Bound(draw[d].pot)'
  BY <1>3, <1>4
<1> QED BY <1>2, <1>4, <1>5 DEF DrawCovered, TicketsStay

\* A credit stays covered when the bounds grow.
LEMMA CreditStays ==
  ASSUME JackpotInvariant, Grow, TicketsStay, NEW x \in credits
  PROVE  CreditCovered(x)'
<1>1. PICK p, n : p = ticket[x.ticket].pot /\ n = x.amount
  OBVIOUS
<1>2. CreditCovered(x) /\ x.ticket \in Buys /\ n \in Nat /\ BuyCovered(x.ticket)
  BY <1>1 DEF JackpotInvariant, CreditsCovered, BuysCovered, JackpotTypes
<1>3. p \in Pots /\ n <= Bound(p)
  BY <1>1, <1>2 DEF CreditCovered, BuyCovered
<1>4. ticket'[x.ticket].pot = p /\ ticket'[x.ticket].status = "WINNER"
  BY <1>1, <1>2 DEF CreditCovered, TicketsStay
<1>5. n <= Bound(p)'
  BY <1>2, <1>3 DEF Grow
<1> QED BY <1>1, <1>4, <1>5 DEF CreditCovered

\* The draws and the credits of a step that is not theirs.
LEMMA NoDraw ==
  ASSUME JackpotInvariant, Grow, TicketsStay, UNCHANGED <<draw, credits, crossed>>
  PROVE  DrawsCovered' /\ CreditsCovered' /\ OneDrawAtATime' /\ NotYetPaid' /\ PaidOnceApart'
<1> USE DEF JackpotInvariant
<1>1. DrawsCovered' /\ CreditsCovered'
  BY DrawStays, CreditStays DEF DrawsCovered, CreditsCovered
<1>2. PaidOnceApart'
  BY DEF PaidOnceApart, TicketsStay, CreditsCovered, CreditCovered, JackpotTypes
<1> QED BY <1>1, <1>2 DEF OneDrawAtATime, NotYetPaid, Drawing

\* A jackpot begins with what it is created with (CreateJackpot).
LEMMA CreateKeepsPots ==
  ASSUME JackpotInvariant, IsFiniteSet(Buys), NEW p \in Pots, CreateJackpot(p)  PROVE JackpotInvariant'
<1> USE DEF JackpotInvariant
<1>1. PICK a \in StartAmounts :
        /\ pot' = [pot EXCEPT ![p] = [status |-> "ACTIVE", amount |-> a, winner |-> "none"]]
        /\ start' = [start EXCEPT ![p] = a]
  BY DEF CreateJackpot
<1>2. a \in Nat /\ pot[p].status = "none" /\ UNCHANGED <<ticket, buy, draw, credits, crossed>> /\ start[p] = 0
  BY JackpotsAssumption DEF CreateJackpot, PotsCovered
<1>3. JackpotTypes'
  BY <1>1, <1>2 DEF JackpotTypes, PotRow
<1>4. Grow
  <2> SUFFICES ASSUME NEW q \in Pots  PROVE Bound(q) \in Nat /\ Bound(q)' \in Nat /\ Bound(q) <= Bound(q)'
    BY DEF Grow
  <2>1. Bought(q)' = Bought(q) /\ \A c \in Bought(q) : ticket'[c].stake = ticket[c].stake
    BY <1>2 DEF Bought
  <2>2. start[q] <= start'[q]
    BY <1>1, <1>2 DEF JackpotTypes
  <2> QED BY <1>3, <2>1, <2>2, BoundGrows, BoundBelow, BoundBelowNext
<1>5. Bound(p)' \in Nat /\ a <= Bound(p)'
  <2>1. Bought(p) \subseteq Buys /\ Bound(p)' = a + Sum(Contributions, Bought(p))
    <3>1. Contributions' = Contributions /\ Bought(p)' = Bought(p) /\ start'[p] = a
      BY <1>1, <1>2 DEF Contributions, Contribution, Bought, JackpotTypes
    <3> QED BY <3>1 DEF Bound, Bought
  <2>2. Sum(Contributions, Bought(p)) \in Nat
    BY <2>1, FS_Subset, ContributionsNat, SumNat
  <2> QED BY <1>2, <2>1, <2>2
<1>6. PotsCovered'
  <2>1. ASSUME NEW q \in Pots, q # p  PROVE pot'[q] = pot[q] /\ start'[q] = start[q] /\ pot[q].amount \in Nat
    BY <1>1, <2>1 DEF JackpotTypes, PotRow
  <2>2. pot'[p].status = "ACTIVE" /\ pot'[p].amount = a
    BY <1>1 DEF JackpotTypes
  <2> QED BY <1>2, <1>4, <1>5, <2>1, <2>2 DEF PotsCovered, Grow
<1>7. TicketsStay
  BY <1>2 DEF TicketsStay
<1>8. BuysCovered'
  BY <1>2, <1>4, <1>7, BuyStays DEF BuysCovered
<1> QED BY <1>2, <1>3, <1>4, <1>6, <1>7, <1>8, NoDraw

\* A step of a purchase that writes no row of a jackpot.
LEMMA PurchaseMoves ==
  ASSUME JackpotInvariant, IsFiniteSet(Buys), NEW b \in Buys, UNCHANGED <<pot, draw, credits, start, crossed>>,
         buy[b].at \notin {"bought", "failed"}, NEW n \in BuyRow, buy' = [buy EXCEPT ![b] = n],
         NEW t \in TicketRow, ticket' = [ticket EXCEPT ![b] = t], t = ticket[b] \/ ticket[b].status = "none",
         (JackpotTypes' /\ Grow) => BuyCovered(b)'
  PROVE  JackpotInvariant'
<1> USE DEF JackpotInvariant
<1>1. JackpotTypes'
  BY DEF JackpotTypes
<1>2. /\ buy'[b] = n /\ ticket'[b] = t
      /\ \A c \in Buys \ {b} : buy'[c] = buy[c] /\ ticket'[c] = ticket[c]
  BY DEF JackpotTypes
<1>3. Grow
  BY <1>1, <1>2, BuysGrow
<1>4. TicketsStay
  BY <1>2 DEF TicketsStay
<1>5. BuysCovered'
  <2>1. ASSUME NEW c \in Buys \ {b}  PROVE BuyCovered(c)'
    BY <1>2, <1>3, <1>4, BuyStays
  <2> QED BY <1>1, <1>3, <2>1 DEF BuysCovered
<1>6. PotsCovered'
  BY <1>3 DEF PotsCovered, Grow, JackpotTypes, PotRow
<1> QED BY <1>1, <1>3, <1>4, <1>5, <1>6, NoDraw

\* The jackpot is read and the ticket saved, or the purchase ends (PurchaseTicket).
LEMMA PurchaseKeeps ==
  ASSUME JackpotInvariant, IsFiniteSet(Buys), NEW b \in Buys, ReadPot(b) \/ CreateTicket(b) \/ PurchaseFails(b)
  PROVE  JackpotInvariant'
<1> USE DEF JackpotInvariant
<1>1. /\ buy[b] \in BuyRow /\ ticket[b] \in TicketRow /\ BuyCovered(b) /\ ticket = [ticket EXCEPT ![b] = ticket[b]]
      /\ UNCHANGED <<pot, draw, credits, start, crossed>> /\ buy[b].at \in {"new", "ticket", "pot"}
  BY DEF BuysCovered, JackpotTypes, ReadPot, CreateTicket, PurchaseFails
<1>2. ASSUME NEW at \in {"refused", "failed"}, buy' = [buy EXCEPT ![b].at = at], UNCHANGED ticket
      PROVE  JackpotInvariant'
  <2>1. PICK n : n = [buy[b] EXCEPT !.at = at]
    OBVIOUS
  <2>2. n \in BuyRow /\ n.at = at
    BY <1>1, <2>1 DEF BuyRow
  <2>3. buy' = [buy EXCEPT ![b] = n] /\ buy'[b].at = at /\ ticket'[b] = ticket[b]
    BY <1>2, <2>1, <2>2 DEF JackpotTypes
  <2>4. BuyCovered(b)'
    BY <1>1, <2>3 DEF BuyCovered
  <2> QED BY <1>1, <1>2, <2>2, <2>3, <2>4, PurchaseMoves
<1>3. CASE PurchaseFails(b)
  BY <1>2, <1>3 DEF PurchaseFails
<1>4. CASE CreateTicket(b)
  <2>1. buy[b].ask \in TicketRow /\ buy[b].at = "ticket" /\ ticket' = [ticket EXCEPT ![b] = buy[b].ask]
    BY <1>1, <1>4 DEF CreateTicket, BuyRow
  <2>2. PICK at \in {"pot", "failed"} : buy' = [buy EXCEPT ![b].at = at]
    BY <1>4 DEF CreateTicket
  <2>3. PICK n : n = [buy[b] EXCEPT !.at = at]
    OBVIOUS
  <2>4. n \in BuyRow /\ n.at \in {"pot", "failed"} /\ n.ask = buy[b].ask /\ n.seen = buy[b].seen
    BY <1>1, <2>3 DEF BuyRow
  <2>5. buy' = [buy EXCEPT ![b] = n] /\ buy'[b] = n /\ ticket'[b] = buy[b].ask
    BY <2>1, <2>3, <2>2 DEF JackpotTypes
  <2>6. ticket[b] = NoTicket /\ ticket[b].status = "none"
    BY <1>1, <2>1 DEF BuyCovered, NoTicket
  <2>7. ASSUME Grow  PROVE BuyCovered(b)'
    <3>1. PICK p, k : p = buy[b].ask.pot /\ k = buy[b].seen.amount
      OBVIOUS
    <3>2. p \in Pots /\ k \in Nat /\ k <= Bound(p)
      BY <1>1, <2>1, <3>1 DEF BuyCovered, BuyRow, PotRow
    <3>3. k <= Bound(p)'
      BY <2>7, <3>2 DEF Grow
    <3>4. buy'[b].ask.pot = p /\ buy'[b].seen.amount = k
      BY <2>4, <2>5, <3>1
    <3>5. buy'[b].seen.amount <= Bound(buy[b].ask.pot)'
      BY <3>3, <3>4
    <3> QED BY <1>1, <2>1, <2>4, <2>5, <3>1, <3>2, <3>5 DEF BuyCovered
  <2> QED BY <1>1, <2>1, <2>4, <2>5, <2>6, <2>7, PurchaseMoves
<1>5. CASE ReadPot(b)
  <2>1. PICK p \in Pots, c \in Combos \cup {"invalid"}, k \in Stakes :
          LET t == [status |-> "ACTIVE", pot |-> p, combo |-> c, stake |-> k, prize |-> 0]
          IN  buy' = [buy EXCEPT ![b] = IF validateTicketPurchase(pot[p], t)
                                        THEN [at |-> "ticket", ask |-> t, seen |-> pot[p]]
                                        ELSE [@ EXCEPT !.at = "refused"]]
    BY <1>5 DEF ReadPot
  <2>2. PICK t : t = [status |-> "ACTIVE", pot |-> p, combo |-> c, stake |-> k, prize |-> 0]
    OBVIOUS
  <2>3. t \in TicketRow /\ t.pot = p /\ t.status = "ACTIVE" /\ pot[p] \in PotRow
    BY <2>2, JackpotsAssumption DEF TicketRow, JackpotTypes
  <2>4. buy[b].at = "new" /\ UNCHANGED ticket
    BY <1>5 DEF ReadPot
  <2>5. CASE ~validateTicketPurchase(pot[p], t)
    <3>1. buy' = [buy EXCEPT ![b].at = "refused"]
      BY <2>1, <2>2, <2>5
    <3> QED BY <1>2, <2>4, <3>1
  <2>6. CASE validateTicketPurchase(pot[p], t)
    <3>1. PICK n : n = [at |-> "ticket", ask |-> t, seen |-> pot[p]]
      OBVIOUS
    <3>2. n \in BuyRow /\ n.at = "ticket" /\ n.ask = t /\ n.seen = pot[p]
      BY <2>3, <3>1 DEF BuyRow
    <3>3. buy' = [buy EXCEPT ![b] = n] /\ buy'[b] = n /\ ticket'[b] = ticket[b]
      BY <2>1, <2>2, <2>4, <2>6, <3>1 DEF JackpotTypes
    <3>4. ASSUME Grow  PROVE BuyCovered(b)'
      <4>1. PICK m : m = pot[p].amount
        OBVIOUS
      <4>2. m \in Nat /\ m <= Bound(p)
        BY <2>3, <4>1 DEF PotsCovered, PotRow
      <4>3. m <= Bound(p)'
        BY <3>4, <4>2 DEF Grow
      <4>4. buy'[b].ask.pot = p /\ buy'[b].seen.amount = m
        BY <2>3, <3>2, <3>3, <4>1
      <4>5. buy'[b].seen.amount <= Bound(buy[b].ask.pot)'
        BY <4>3, <4>4
      <4>6. pot[p].status = "ACTIVE" /\ ticket[b] = NoTicket
        BY <1>1, <2>4, <2>6 DEF BuyCovered, validateTicketPurchase
      <4> QED BY <1>1, <2>3, <3>2, <3>3, <4>5, <4>6 DEF BuyCovered
    <3> QED BY <1>1, <2>4, <3>2, <3>3, <3>4, PurchaseMoves
  <2> QED BY <2>5, <2>6
<1> QED BY <1>3, <1>4, <1>5

\* The row becomes what was read with the contribution, which counts from this step
\* on: other contributions written since are lost, none is made up (AddContribution).
LEMMA ContributionKeeps ==
  ASSUME JackpotInvariant, IsFiniteSet(Buys), NEW b \in Buys, AddContribution(b)  PROVE JackpotInvariant'
<1> USE DEF JackpotInvariant
<1>1. PICK p, k : p = buy[b].ask.pot /\ k = Contribution(ticket[b].stake)
  OBVIOUS
<1>2. /\ buy[b] \in BuyRow /\ ticket[b] \in TicketRow /\ BuyCovered(b) /\ buy[b].at = "pot"
      /\ UNCHANGED <<ticket, draw, credits, start, crossed>>
  BY DEF AddContribution, BuysCovered, JackpotTypes
<1>3. /\ p \in Pots /\ ticket[b].pot = p /\ ticket[b].stake = buy[b].ask.stake /\ k \in Nat
      /\ buy[b].seen.status = "ACTIVE" /\ buy[b].seen \in PotRow /\ buy[b].seen.amount <= Bound(p)
  BY <1>1, <1>2, ContributionNat DEF BuyCovered, BuyRow, TicketRow
<1>4. PICK r : r = [buy[b].seen EXCEPT !.amount = @ + k]
  OBVIOUS
<1>5. r \in PotRow /\ r.status = "ACTIVE" /\ r.amount = buy[b].seen.amount + k
  BY <1>3, <1>4 DEF PotRow
<1>6. pot' = [pot EXCEPT ![p] = r]
  BY <1>1, <1>3, <1>4 DEF AddContribution
<1>7. PICK at \in {"bought", "failed"} : buy' = [buy EXCEPT ![b].at = at]
  BY DEF AddContribution
<1>8. PICK n : n = [buy[b] EXCEPT !.at = at]
  OBVIOUS
<1>9. n \in BuyRow /\ n.at \in {"bought", "failed"}
  BY <1>2, <1>8 DEF BuyRow
<1>10. buy' = [buy EXCEPT ![b] = n]
  BY <1>8, <1>7
<1>11. JackpotTypes'
  BY <1>2, <1>5, <1>6, <1>9, <1>10 DEF JackpotTypes
<1>12. buy'[b].at \in {"bought", "failed"} /\ \A c \in Buys \ {b} : buy'[c] = buy[c]
  BY <1>9, <1>10 DEF JackpotTypes
<1>13. Bound(p)' = Bound(p) + k
  <2>1. b \notin Bought(p) /\ Bought(p)' = Bought(p) \cup {b}
    BY <1>2, <1>3, <1>12 DEF Bought
  <2> QED BY <1>1, <1>2, <1>3, <1>11, <2>1, BoundAdds
<1>14. Grow
  <2> SUFFICES ASSUME NEW q \in Pots  PROVE Bound(q) \in Nat /\ Bound(q)' \in Nat /\ Bound(q) <= Bound(q)'
    BY DEF Grow
  <2>1. Bound(q) \in Nat /\ Bound(q)' \in Nat
    BY <1>11, BoundBelow, BoundBelowNext
  <2>2. CASE q = p
    BY <1>3, <1>13, <2>1, <2>2
  <2>3. CASE q # p
    <3>1. Bought(q)' = Bought(q)
      BY <1>2, <1>3, <1>12, <2>3 DEF Bought
    <3>2. start[q] <= start'[q] /\ \A c \in Bought(q) : ticket'[c].stake = ticket[c].stake
      BY <1>2 DEF JackpotTypes
    <3> QED BY <1>11, <2>1, <3>1, <3>2, BoundGrows
  <2> QED BY <2>2, <2>3
<1>15. TicketsStay
  BY <1>2 DEF TicketsStay
<1>16. BuysCovered'
  <2>1. ASSUME NEW c \in Buys \ {b}  PROVE BuyCovered(c)'
    BY <1>2, <1>12, <1>14, <1>15, BuyStays
  <2>2. BuyCovered(b)'
    BY <1>2, <1>12 DEF BuyCovered
  <2> QED BY <2>1, <2>2 DEF BuysCovered
<1>17. PotsCovered'
  <2>1. Bound(p) \in Nat /\ buy[b].seen.amount \in Nat
    BY <1>3, <1>14 DEF Grow, PotRow
  <2>2. r.amount <= Bound(p)'
    BY <1>3, <1>5, <1>13, <2>1
  <2>3. ASSUME NEW q \in Pots, q # p
        PROVE  pot'[q].amount <= Bound(q)' /\ (pot'[q].status = "none" => start'[q] = 0)
    BY <1>2, <1>6, <1>14, <2>3 DEF Grow, PotsCovered, JackpotTypes, PotRow
  <2>4. pot'[p] = r
    BY <1>3, <1>6 DEF JackpotTypes
  <2> QED BY <1>5, <2>2, <2>3, <2>4 DEF PotsCovered
<1> QED BY <1>2, <1>11, <1>14, <1>15, <1>16, <1>17, NoDraw

\* A step of a draw: it writes no contribution, and what it may disturb besides its own
\* row is the row of the jackpot, the winner's ticket and the credits.
LEMMA DrawMoves ==
  ASSUME JackpotInvariant, IsFiniteSet(Buys), NEW d \in Draws, UNCHANGED <<buy, start>>, JackpotTypes',
         NEW n \in DrawRow, draw' = [draw EXCEPT ![d] = n], TicketsStay,
         \A c \in Buys : /\ ticket'[c].pot = ticket[c].pot /\ ticket'[c].stake = ticket[c].stake
                         /\ ticket'[c] = ticket[c] \/ ticket[c].status # "none",
         credits \subseteq credits', crossed \subseteq crossed',
         Grow => PotsCovered' /\ DrawCovered(d)' /\ \A x \in credits' \ credits : CreditCovered(x)',
         \A e \in Draws \ {d} : Drawing(d)' /\ Drawing(e) /\ n.pot = draw[e].pot => n.pot \in crossed',
         NotYetPaid', PaidOnceApart'
  PROVE  JackpotInvariant'
<1> USE DEF JackpotInvariant
<1>1. Grow
  BY DrawsGrow
<1>2. draw'[d] = n /\ \A e \in Draws \ {d} : draw'[e] = draw[e]
  BY DEF JackpotTypes
<1>3. BuysCovered'
  BY <1>1, BuyStays DEF BuysCovered
<1>4. DrawsCovered'
  BY <1>1, <1>2, DrawStays DEF DrawsCovered
<1>5. CreditsCovered'
  <2>1. ASSUME NEW x \in credits  PROVE CreditCovered(x)'
    BY <1>1, CreditStays
  <2> QED BY <1>1, <2>1 DEF CreditsCovered
<1>6. OneDrawAtATime'
  <2>1. \A e \in Draws \ {d} : Drawing(e)' = Drawing(e)
    BY <1>2 DEF Drawing
  <2> QED BY <1>2, <2>1 DEF OneDrawAtATime
<1> QED BY <1>1, <1>3, <1>4, <1>5, <1>6

\* A draw begins with the row it reads, and two that overlap are noted (DrawJackpot).
LEMMA DrawReads ==
  ASSUME JackpotInvariant, IsFiniteSet(Buys), NEW d \in Draws, ReadPotToDraw(d)  PROVE JackpotInvariant'
<1> USE DEF JackpotInvariant
<1>1. PICK p \in Pots :
       /\ pot[p].status # "none"
       /\ draw' = [draw EXCEPT ![d] = [at |-> "tickets", pot |-> p, seen |-> pot[p], winner |-> "none"]]
       /\ crossed' = IF \E e \in Draws \ {d} : Drawing(e) /\ draw[e].pot = p
                     THEN crossed \cup {p} ELSE crossed
  BY DEF ReadPotToDraw
<1>2. PICK n : n = [at |-> "tickets", pot |-> p, seen |-> pot[p], winner |-> "none"]
  OBVIOUS
<1>3. /\ n \in DrawRow /\ n.at = "tickets" /\ n.pot = p /\ n.seen = pot[p]
      /\ UNCHANGED <<pot, ticket, buy, credits, start>>
  BY <1>2 DEF JackpotTypes, DrawRow, ReadPotToDraw
<1>4. draw' = [draw EXCEPT ![d] = n] /\ draw'[d] = n /\ \A e \in Draws \ {d} : draw'[e] = draw[e]
  BY <1>1, <1>2 DEF JackpotTypes
<1>5. JackpotTypes'
  BY <1>3, <1>4 DEF JackpotTypes
<1>6. TicketsStay
  BY <1>3 DEF TicketsStay
<1>7. ASSUME Grow  PROVE PotsCovered' /\ DrawCovered(d)'
  <2>1. \A q \in Pots : pot[q].amount \in Nat /\ pot[q].amount <= Bound(q)'
    BY <1>7 DEF Grow, PotsCovered, JackpotTypes, PotRow
  <2>2. draw'[d].seen.amount <= Bound(p)'
    BY <1>3, <1>4, <2>1
  <2>3. draw'[d].pot = p /\ Bound(draw[d].pot)' = Bound(p)'
    BY <1>3, <1>4
  <2>4. PotsCovered'
    BY <1>3, <2>1 DEF PotsCovered
  <2> QED BY <1>1, <1>3, <1>4, <2>2, <2>3, <2>4 DEF DrawCovered
<1>8. NotYetPaid' /\ PaidOnceApart'
  BY <1>1, <1>3, <1>4 DEF NotYetPaid, PaidOnceApart
<1>9. crossed \subseteq crossed' /\ \A e \in Draws \ {d} : Drawing(e) /\ n.pot = draw[e].pot => n.pot \in crossed'
  BY <1>1, <1>3
<1>10. \A c \in Buys : /\ ticket'[c].pot = ticket[c].pot /\ ticket'[c].stake = ticket[c].stake
                       /\ ticket'[c] = ticket[c]
  BY <1>3
<1>11. credits \subseteq credits' /\ UNCHANGED <<buy, start>>
  BY <1>3
<1>12. Grow => PotsCovered' /\ DrawCovered(d)' /\ \A x \in credits' \ credits : CreditCovered(x)'
  BY <1>3, <1>7
<1>13. /\ \A e \in Draws \ {d} : Drawing(d)' /\ Drawing(e) /\ n.pot = draw[e].pot => n.pot \in crossed'
       /\ JackpotInvariant
       /\ \A c \in Buys : /\ ticket'[c].pot = ticket[c].pot /\ ticket'[c].stake = ticket[c].stake
                          /\ ticket'[c] = ticket[c] \/ ticket[c].status # "none"
  BY <1>9, <1>10
<1> HIDE DEF JackpotInvariant
<1> QED BY <1>3, <1>4, <1>5, <1>6, <1>8, <1>9, <1>11, <1>12, <1>13, DrawMoves

\* The winner drawn has an active ticket, which no draw has paid; or the draw ends.
LEMMA DrawDraws ==
  ASSUME JackpotInvariant, IsFiniteSet(Buys), NEW d \in Draws, DrawNumbers(d) \/ DrawFails(d)
  PROVE  JackpotInvariant'
<1> USE DEF JackpotInvariant
<1>1. /\ Drawing(d) /\ UNCHANGED <<pot, ticket, buy, credits, start, crossed>> /\ DrawCovered(d)
      /\ draw[d] \in DrawRow
  BY DEF DrawNumbers, DrawFails, Drawing, DrawsCovered, JackpotTypes
<1>2. TicketsStay
  BY <1>1 DEF TicketsStay
<1>3. ASSUME NEW n \in DrawRow, draw' = [draw EXCEPT ![d] = n], n.pot = draw[d].pot, n.seen = draw[d].seen,
             n.at \in {"mark", "write", "failed"},
             n.at = "mark" => /\ n.winner \in Buys /\ ticket[n.winner].pot = n.pot
                              /\ ticket[n.winner].status = "ACTIVE"
      PROVE  JackpotInvariant'
  <2>1. draw'[d] = n /\ \A e \in Draws \ {d} : draw'[e] = draw[e]
    BY <1>3 DEF JackpotTypes
  <2>2. JackpotTypes'
    BY <1>1, <1>3, <2>1 DEF JackpotTypes
  <2>3. ASSUME Grow  PROVE PotsCovered' /\ DrawCovered(d)'
    <3>1. PICK p, k : p = draw[d].pot /\ k = draw[d].seen.amount
      OBVIOUS
    <3>2. p \in Pots /\ k \in Nat /\ k <= Bound(p) /\ draw[d].seen.status # "none"
      BY <1>1, <3>1 DEF DrawCovered, DrawRow, PotRow
    <3>3. k <= Bound(p)'
      BY <2>3, <3>2 DEF Grow
    <3>4. draw'[d].pot = p /\ draw'[d].seen.amount = k
      BY <1>3, <2>1, <3>1
    <3>5. draw'[d].seen.amount <= Bound(draw[d].pot)'
      BY <3>3, <3>4
    <3>6. PotsCovered'
      BY <1>1, <2>3 DEF PotsCovered, Grow, JackpotTypes, PotRow
    <3>7. DrawCovered(d)'
      BY <1>1, <1>3, <2>1, <3>2, <3>4, <3>5 DEF DrawCovered
    <3> QED BY <3>6, <3>7
  <2>4. NotYetPaid'
    BY <1>1, <1>3, <2>1 DEF NotYetPaid, CreditsCovered, CreditCovered
  <2>5. PaidOnceApart'
    BY <1>1 DEF PaidOnceApart
  <2>6. \A e \in Draws \ {d} : Drawing(d)' /\ Drawing(e) /\ n.pot = draw[e].pot => n.pot \in crossed'
    BY <1>1, <1>3 DEF OneDrawAtATime
  <2> QED BY <1>1, <1>2, <1>3, <2>2, <2>3, <2>4, <2>5, <2>6, DrawMoves
<1>4. ASSUME NEW at \in {"write", "failed"}, draw' = [draw EXCEPT ![d].at = at]  PROVE JackpotInvariant'
  <2>1. PICK n : n = [draw[d] EXCEPT !.at = at]
    OBVIOUS
  <2>2. n \in DrawRow /\ n.at = at /\ n.pot = draw[d].pot /\ n.seen = draw[d].seen
    BY <1>1, <2>1 DEF DrawRow
  <2>3. draw' = [draw EXCEPT ![d] = n]
    BY <1>4, <2>1
  <2> QED BY <1>3, <2>2, <2>3
<1>5. CASE DrawFails(d)
  BY <1>4, <1>5 DEF DrawFails
<1>6. CASE DrawNumbers(d)
  <2>1. CASE GetActiveTickets(draw[d].pot) = {}
    BY <1>4, <1>6, <2>1 DEF DrawNumbers
  <2>2. CASE GetActiveTickets(draw[d].pot) # {}
    <3>1. PICK drawn \in Combos \cup {"invalid"} :
            IF findWinner(GetActiveTickets(draw[d].pot), drawn) = {} THEN draw' = [draw EXCEPT ![d].at = "write"]
            ELSE \E b \in findWinner(GetActiveTickets(draw[d].pot), drawn) :
                   draw' = [draw EXCEPT ![d].at = "mark", ![d].winner = b]
      BY <1>6, <2>2 DEF DrawNumbers
    <3>2. CASE findWinner(GetActiveTickets(draw[d].pot), drawn) = {}
      BY <1>4, <3>1, <3>2
    <3>3. CASE findWinner(GetActiveTickets(draw[d].pot), drawn) # {}
      <4>1. PICK b \in findWinner(GetActiveTickets(draw[d].pot), drawn) :
              draw' = [draw EXCEPT ![d].at = "mark", ![d].winner = b]
        BY <3>1, <3>3
      <4>2. b \in Buys /\ ticket[b].pot = draw[d].pot /\ ticket[b].status = "ACTIVE"
        BY DEF findWinner, GetActiveTickets
      <4>3. PICK m : m = [draw[d] EXCEPT !.at = "mark"]
        OBVIOUS
      <4>4. PICK n : n = [m EXCEPT !.winner = b]
        OBVIOUS
      <4>5. m \in DrawRow /\ m.at = "mark" /\ m.pot = draw[d].pot /\ m.seen = draw[d].seen
        BY <1>1, <4>3 DEF DrawRow
      <4>6. n \in DrawRow /\ n.at = "mark" /\ n.pot = draw[d].pot /\ n.seen = draw[d].seen /\ n.winner = b
        BY <4>2, <4>4, <4>5 DEF DrawRow
      <4>7. draw' = [draw EXCEPT ![d] = n]
        BY <4>1, <4>3, <4>4 DEF JackpotTypes
      <4> QED BY <1>3, <4>2, <4>6, <4>7
    <3> QED BY <3>2, <3>3
  <2> QED BY <2>1, <2>2
<1> QED BY <1>5, <1>6

\* The winner's ticket is marked before it is paid.
LEMMA DrawMarks ==
  ASSUME JackpotInvariant, IsFiniteSet(Buys), NEW d \in Draws, MarkWinner(d)  PROVE JackpotInvariant'
<1> USE DEF JackpotInvariant
<1>1. PICK b : b = draw[d].winner
  OBVIOUS
<1>2. /\ draw[d] \in DrawRow /\ DrawCovered(d) /\ draw[d].at = "mark" /\ Drawing(d)
      /\ UNCHANGED <<pot, buy, credits, start, crossed>>
  BY DEF MarkWinner, DrawsCovered, JackpotTypes, Drawing
<1>3. /\ b \in Buys /\ ticket[b].pot = draw[d].pot /\ ticket[b].status # "none" /\ ticket[b] \in TicketRow
      /\ draw[d].seen.amount \in Nat
  BY <1>1, <1>2 DEF DrawCovered, JackpotTypes, DrawRow, PotRow
<1>4. PICK s : s = [ticket[b] EXCEPT !.status = "WINNER"]
  OBVIOUS
<1>5. PICK t : t = [s EXCEPT !.prize = draw[d].seen.amount]
  OBVIOUS
<1>6. PICK at \in {"pay", "failed"} : draw' = [draw EXCEPT ![d].at = at]
  BY DEF MarkWinner
<1>7. PICK n : n = [draw[d] EXCEPT !.at = at]
  OBVIOUS
<1>8. s \in TicketRow /\ s.status = "WINNER" /\ s.pot = ticket[b].pot /\ s.stake = ticket[b].stake
  BY <1>3, <1>4 DEF TicketRow
<1>9. t \in TicketRow /\ t.status = "WINNER" /\ t.pot = ticket[b].pot /\ t.stake = ticket[b].stake
  BY <1>3, <1>5, <1>8 DEF TicketRow
<1>10. n \in DrawRow /\ n.at \in {"pay", "failed"} /\ n.pot = draw[d].pot /\ n.seen = draw[d].seen /\ n.winner = b
  BY <1>1, <1>2, <1>7 DEF DrawRow
<1>11. ticket' = [ticket EXCEPT ![b] = t]
  BY <1>1, <1>4, <1>5 DEF MarkWinner, JackpotTypes
<1>12. draw' = [draw EXCEPT ![d] = n]
  BY <1>7, <1>6
<1>13. /\ draw'[d] = n /\ \A e \in Draws \ {d} : draw'[e] = draw[e]
       /\ ticket'[b] = t /\ \A c \in Buys \ {b} : ticket'[c] = ticket[c]
  BY <1>3, <1>11, <1>12 DEF JackpotTypes
<1>14. JackpotTypes'
  BY <1>2, <1>9, <1>10, <1>11, <1>12 DEF JackpotTypes
<1>15. \A c \in Buys : /\ ticket'[c].pot = ticket[c].pot /\ ticket'[c].stake = ticket[c].stake
                       /\ ticket'[c] = ticket[c] \/ ticket[c].status # "none"
                       /\ ticket'[c].status \in {ticket[c].status, "WINNER"}
  BY <1>3, <1>9, <1>13
<1>16. TicketsStay
  BY <1>15 DEF TicketsStay
<1>17. ASSUME Grow  PROVE PotsCovered' /\ DrawCovered(d)'
  <2>1. PICK p, k : p = draw[d].pot /\ k = draw[d].seen.amount
    OBVIOUS
  <2>2. p \in Pots /\ k <= Bound(p) /\ draw[d].seen.status # "none"
    BY <1>2, <2>1 DEF DrawCovered
  <2>3. k <= Bound(p)'
    BY <1>3, <1>17, <2>1, <2>2 DEF Grow
  <2>4. draw'[d].pot = p /\ draw'[d].seen.amount = k
    BY <1>10, <1>13, <2>1
  <2>5. draw'[d].seen.amount <= Bound(draw[d].pot)'
    BY <2>3, <2>4
  <2>6. PotsCovered'
    BY <1>2, <1>17 DEF PotsCovered, Grow, JackpotTypes, PotRow
  <2>7. DrawCovered(d)'
    BY <1>3, <1>9, <1>10, <1>13, <2>1, <2>2, <2>4, <2>5 DEF DrawCovered
  <2> QED BY <2>6, <2>7
<1>18. NotYetPaid'
  BY <1>1, <1>2, <1>10, <1>13 DEF NotYetPaid
<1>19. PaidOnceApart'
  BY <1>2, <1>15 DEF PaidOnceApart, JackpotTypes
<1>20. \A e \in Draws \ {d} : Drawing(d)' /\ Drawing(e) /\ n.pot = draw[e].pot => n.pot \in crossed'
  BY <1>2, <1>10 DEF OneDrawAtATime
<1> QED BY <1>2, <1>10, <1>12, <1>14, <1>15, <1>16, <1>17, <1>18, <1>19, <1>20, DrawMoves

\* What the draw read is paid to its winner: a second time only if two draws overlapped.
LEMMA DrawPays ==
  ASSUME JackpotInvariant, IsFiniteSet(Buys), NEW d \in Draws, CreditWinner(d)  PROVE JackpotInvariant'
<1> USE DEF JackpotInvariant
<1>1. PICK b, p, k : b = draw[d].winner /\ p = draw[d].pot /\ k = draw[d].seen.amount
  OBVIOUS
<1>2. /\ draw[d] \in DrawRow /\ DrawCovered(d) /\ draw[d].at = "pay" /\ Drawing(d)
      /\ UNCHANGED <<pot, ticket, buy, start, crossed>>
  BY DEF CreditWinner, DrawsCovered, JackpotTypes, Drawing
<1>3. /\ b \in Buys /\ ticket[b].pot = p /\ ticket[b].status = "WINNER" /\ ticket[b] \in TicketRow
      /\ k \in Nat /\ p \in Pots /\ k <= Bound(p) /\ draw[d].seen.status # "none"
  BY <1>1, <1>2 DEF DrawCovered, JackpotTypes, DrawRow, PotRow
<1>4. PICK x : x = [draw |-> d, ticket |-> b, amount |-> k]
  OBVIOUS
<1>5. PICK at \in {"write", "failed"} : draw' = [draw EXCEPT ![d].at = at]
  BY DEF CreditWinner
<1>6. PICK n : n = [draw[d] EXCEPT !.at = at]
  OBVIOUS
<1>7. n \in DrawRow /\ n.at \in {"write", "failed"} /\ n.pot = p /\ n.seen = draw[d].seen /\ n.winner = b
  BY <1>1, <1>2, <1>6 DEF DrawRow
<1>8. credits' = credits \cup {x} /\ draw' = [draw EXCEPT ![d] = n]
  BY <1>1, <1>4, <1>6, <1>5 DEF CreditWinner
<1>9. draw'[d] = n /\ \A e \in Draws \ {d} : draw'[e] = draw[e]
  BY <1>8 DEF JackpotTypes
<1>10. JackpotTypes'
  BY <1>2, <1>3, <1>4, <1>7, <1>8 DEF JackpotTypes
<1>11. TicketsStay
  BY <1>2 DEF TicketsStay
<1>12. ASSUME Grow  PROVE PotsCovered' /\ DrawCovered(d)' /\ CreditCovered(x)'
  <2>1. k <= Bound(p)'
    BY <1>3, <1>12 DEF Grow
  <2>2. draw'[d].pot = p /\ draw'[d].seen.amount = k /\ x.amount = k /\ ticket'[x.ticket].pot = p
    BY <1>1, <1>2, <1>3, <1>4, <1>7, <1>9
  <2>3. draw'[d].seen.amount <= Bound(draw[d].pot)' /\ x.amount <= Bound(ticket[x.ticket].pot)'
    BY <2>1, <2>2
  <2>4. PotsCovered'
    BY <1>2, <1>12 DEF PotsCovered, Grow, JackpotTypes, PotRow
  <2>5. CreditCovered(x)'
    BY <1>2, <1>3, <1>4, <2>3 DEF CreditCovered
  <2>6. DrawCovered(d)'
    BY <1>3, <1>7, <1>9, <2>2, <2>3 DEF DrawCovered
  <2> QED BY <2>4, <2>5, <2>6
<1>13. NotYetPaid'
  <2> SUFFICES ASSUME NEW e \in Draws, draw'[e].at \in {"mark", "pay"}, draw'[e].pot \notin crossed', NEW y \in credits'
               PROVE  y.ticket # draw'[e].winner
    BY DEF NotYetPaid
  <2>1. e # d /\ draw'[e] = draw[e] /\ draw[e].pot \notin crossed
    BY <1>2, <1>7, <1>9
  <2>2. CASE y \in credits
    BY <2>1, <2>2 DEF NotYetPaid
  <2>3. CASE y = x
    <3>1. SUFFICES ASSUME draw[e].winner = b  PROVE FALSE
      BY <1>4, <2>1, <2>3
    <3>2. DrawCovered(e) /\ draw[e].pot = p /\ Drawing(e)
      BY <1>3, <2>1, <3>1 DEF DrawsCovered, DrawCovered, Drawing
    <3> QED BY <1>1, <1>2, <2>1, <3>2 DEF OneDrawAtATime
  <2> QED BY <1>8, <2>2, <2>3
<1>14. PaidOnceApart'
  <2>1. p \notin crossed => \A y \in credits : y.ticket # b
    BY <1>1, <1>2 DEF NotYetPaid
  <2>2. x.ticket = b
    BY <1>4
  <2> QED BY <1>2, <1>3, <1>8, <2>1, <2>2 DEF PaidOnceApart
<1>15. \A e \in Draws \ {d} : Drawing(d)' /\ Drawing(e) /\ n.pot = draw[e].pot => n.pot \in crossed'
  BY <1>1, <1>2, <1>7 DEF OneDrawAtATime
<1> QED BY <1>2, <1>7, <1>8, <1>10, <1>11, <1>12, <1>13, <1>14, <1>15, DrawMoves

\* The jackpot's row goes back to what the draw read: contributions written since are lost.
LEMMA DrawWrites ==
  ASSUME JackpotInvariant, IsFiniteSet(Buys), NEW d \in Draws, WriteDraw(d)  PROVE JackpotInvariant'
<1> USE DEF JackpotInvariant
<1>1. PICK p, w, s : p = draw[d].pot /\ w = draw[d].winner /\ s = draw[d].seen
  OBVIOUS
<1>2. /\ draw[d] \in DrawRow /\ DrawCovered(d) /\ draw[d].at = "write" /\ Drawing(d)
      /\ UNCHANGED <<ticket, buy, credits, start, crossed>>
  BY DEF WriteDraw, DrawsCovered, JackpotTypes, Drawing
<1>3. /\ p \in Pots /\ s \in PotRow /\ s.amount \in Nat /\ s.amount <= Bound(p) /\ s.status # "none"
      /\ w \in Buys \cup {"none"}
  BY <1>1, <1>2 DEF DrawCovered, DrawRow, PotRow
<1>4. PICK c : c = [s EXCEPT !.status = "COMPLETED"]
  OBVIOUS
<1>5. PICK f : f = [c EXCEPT !.winner = w]
  OBVIOUS
<1>6. c \in PotRow /\ c.status = "COMPLETED" /\ c.amount = s.amount
  BY <1>3, <1>4 DEF PotRow
<1>7. f \in PotRow /\ f.status = "COMPLETED" /\ f.amount = s.amount
  BY <1>3, <1>5, <1>6 DEF PotRow
<1>8. PICK r : r = IF w = "none" THEN s ELSE f
  OBVIOUS
<1>9. r \in PotRow /\ r.status # "none" /\ r.amount = s.amount
  BY <1>3, <1>7, <1>8
<1>10. pot' = [pot EXCEPT ![p] = r]
  BY <1>1, <1>4, <1>5, <1>8 DEF WriteDraw, PotRow
<1>11. PICK at \in {"drawn", "failed"} : draw' = [draw EXCEPT ![d].at = at]
  BY DEF WriteDraw
<1>12. PICK n : n = [draw[d] EXCEPT !.at = at]
  OBVIOUS
<1>13. n \in DrawRow /\ n.at \in {"drawn", "failed"} /\ n.pot = p
  BY <1>1, <1>2, <1>12 DEF DrawRow
<1>14. draw' = [draw EXCEPT ![d] = n]
  BY <1>12, <1>11
<1>15. draw'[d] = n /\ \A e \in Draws \ {d} : draw'[e] = draw[e]
  BY <1>14 DEF JackpotTypes
<1>16. JackpotTypes'
  BY <1>2, <1>3, <1>9, <1>10, <1>13, <1>14 DEF JackpotTypes
<1>17. TicketsStay
  BY <1>2 DEF TicketsStay
<1>18. ~Drawing(d)' /\ DrawCovered(d)'
  BY <1>13, <1>15 DEF Drawing, DrawCovered
<1>19. ASSUME Grow  PROVE PotsCovered'
  <2>1. r.amount <= Bound(p)'
    BY <1>3, <1>9, <1>19 DEF Grow
  <2>2. ASSUME NEW q \in Pots, q # p
        PROVE  pot'[q].amount <= Bound(q)' /\ (pot'[q].status = "none" => start'[q] = 0)
    BY <1>2, <1>10, <1>19, <2>2 DEF Grow, PotsCovered, JackpotTypes, PotRow
  <2>3. pot'[p] = r
    BY <1>3, <1>10 DEF JackpotTypes
  <2> QED BY <1>9, <2>1, <2>2, <2>3 DEF PotsCovered
<1>20. NotYetPaid'
  BY <1>2, <1>13, <1>15 DEF NotYetPaid
<1>21. PaidOnceApart'
  BY <1>2 DEF PaidOnceApart
<1> QED BY <1>2, <1>13, <1>14, <1>16, <1>17, <1>18, <1>19, <1>20, <1>21, DrawMoves

\* Every step of a purchase and of a draw keeps the invariant.
LEMMA JackpotsKept ==
  ASSUME JackpotInvariant, IsFiniteSet(Buys), [JackpotNext]_jackpotVars  PROVE JackpotInvariant'
<1>1. CASE UNCHANGED jackpotVars
  <2>1. JackpotInvariant /\ UNCHANGED <<pot, ticket, buy, draw, credits, start, crossed>>
    BY <1>1 DEF jackpotVars
  <2>2. \A p : Bound(p)' = Bound(p)
    BY <2>1 DEF Bound, Bought, Contributions, Contribution
  <2>3. JackpotTypes' /\ PotsCovered'
    BY <2>1, <2>2 DEF JackpotInvariant, JackpotTypes, PotsCovered
  <2>4. BuysCovered'
    BY <2>1, <2>2 DEF JackpotInvariant, BuysCovered, BuyCovered
  <2>5. DrawsCovered'
    BY <2>1, <2>2 DEF JackpotInvariant, DrawsCovered, DrawCovered, Drawing
  <2>6. CreditsCovered'
    BY <2>1, <2>2 DEF JackpotInvariant, CreditsCovered, CreditCovered
  <2>7. OneDrawAtATime' /\ NotYetPaid' /\ PaidOnceApart'
    BY <2>1 DEF JackpotInvariant, OneDrawAtATime, NotYetPaid, PaidOnceApart, Drawing
  <2> QED BY <2>3, <2>4, <2>5, <2>6, <2>7 DEF JackpotInvariant
<1>2. CASE \E p \in Pots : CreateJackpot(p)
  BY <1>2, CreateKeepsPots
<1>3. CASE \E b \in Buys : Purchase(b)
  BY <1>3, PurchaseKeeps, ContributionKeeps DEF Purchase
<1>4. CASE \E d \in Draws : DrawJackpot(d)
  BY <1>4, DrawReads, DrawDraws, DrawMarks, DrawPays, DrawWrites DEF DrawJackpot
<1> QED BY <1>1, <1>2, <1>3, <1>4 DEF JackpotNext

-----------------------------------------------------------------------------
(* Virtual sports: games never leave the table they are scheduled on.      *)

\* No game is ever upcoming, nor live, and no call got through.
ShutInvariant ==
  /\ virtual \in [Virtuals -> {"none", "SCHEDULED"}]
  /\ punt \in [Punts -> {"none", "error", "refused"}]
  /\ taken = 0

\* No game is on offer at first.
LEMMA ShutAtFirst == VirtualInit => ShutInvariant
BY DEF VirtualInit, ShutInvariant

\* A game is scheduled, and starting it or betting on it fails (CreateVirtualGame,
\* StartGame, PlaceVirtualBet).
LEMMA ShutKept == ShutInvariant /\ [VirtualNext]_virtualVars => ShutInvariant'
<1> SUFFICES ASSUME ShutInvariant, [VirtualNext]_virtualVars  PROVE ShutInvariant'
  OBVIOUS
<1> USE DEF ShutInvariant
<1>1. ASSUME NEW g \in Virtuals, CreateVirtualGame(g)  PROVE ShutInvariant'
  BY <1>1 DEF CreateVirtualGame, AsScheduled
<1>2. ASSUME NEW g \in Virtuals, NEW p \in Punts, StartGame(p, g)  PROVE ShutInvariant'
  BY <1>2 DEF StartGame
<1>3. ASSUME NEW g \in Virtuals, NEW p \in Punts, PlaceVirtualBet(p, g)  PROVE ShutInvariant'
  BY <1>3 DEF PlaceVirtualBet
<1>4. CASE UNCHANGED virtualVars
  BY <1>4 DEF virtualVars
<1> QED BY <1>1, <1>2, <1>3, <1>4 DEF VirtualNext

\* A table of games that are at most scheduled takes no bet and lists none (GetActiveGames).
LEMMA ShutAlways == ShutInvariant => VirtualGamesStayShut
BY DEF ShutInvariant, VirtualGamesStayShut, GetActiveGames

-----------------------------------------------------------------------------
(* The odds engine (OddsQuotes): how old what the cache holds can be.      *)

CacheRow == [read : Nat, until : Nat]
SyncRow == [left : SUBSET Fixtures, read : Nat, on : BOOLEAN]
QuoteStages == {"new", "price", "ErrNoValidSelections", "quoted"}
QuoteRow == [at : QuoteStages, left : SUBSET Fixtures, priced : SUBSET Fixtures, oldest : Nat]
OddsTypes ==
  /\ cache \in [Fixtures -> CacheRow] /\ sync \in SyncRow
  /\ quote \in [QuoteCalls -> QuoteRow] /\ age \in Nat

\* What a sync stores was read within its time, and an entry lives no longer than its
\* time from when it could be stored.
SyncTimely == sync.on => sync.read <= age /\ age <= sync.read + Lag
CacheTimely == \A x \in Fixtures : cache[x].read <= age /\ cache[x].until <= cache[x].read + Lag + OddsTTL
OddsInvariant == OddsTypes /\ SyncTimely /\ CacheTimely /\ QuotesAreRecent

\* The larger of two numbers is one of them.
LEMMA MaxOfTwo ==
  ASSUME NEW a \in Nat, NEW b \in Nat  PROVE Max({a, b}) \in {a, b}
<1>1. \E x \in {a, b} : \A y \in {a, b} : x >= y
  OBVIOUS
<1> QED BY <1>1 DEF Max

\* Empty cache, no sync, no quote.
LEMMA OddsAtFirst == OddsInit => OddsInvariant
<1> SUFFICES ASSUME OddsInit  PROVE OddsInvariant
  OBVIOUS
<1>1. NoEntry \in CacheRow /\ NoQuote \in QuoteRow
  BY DEF NoEntry, NoQuote, CacheRow, QuoteRow, QuoteStages
<1>2. OddsTypes
  BY <1>1 DEF OddsInit, OddsTypes, SyncRow
<1>3. SyncTimely
  BY DEF OddsInit, SyncTimely
<1>4. CacheTimely
  BY OddsAssumption DEF OddsInit, CacheTimely, NoEntry
<1>5. QuotesAreRecent
  BY OddsAssumption DEF OddsInit, QuotesAreRecent, NoQuote
<1> QED BY <1>2, <1>3, <1>4, <1>5 DEF OddsInvariant

\* A match is stored with the time the sync read it at, however late it is stored.
LEMMA StoreKeeps ==
  ASSUME OddsInvariant, SyncMatch  PROVE OddsInvariant'
<1> USE DEF OddsInvariant
<1>1. sync.on /\ UNCHANGED <<quote, age>> /\ sync \in SyncRow /\ age \in Nat /\ sync.read \in Nat
  BY DEF SyncMatch, OddsTypes, SyncRow
<1>2. PICK x \in sync.left, failed \in BOOLEAN :
         /\ IF failed THEN UNCHANGED cache ELSE Stored(x)
         /\ sync' = [sync EXCEPT !.left = @ \ {x}]
  BY DEF SyncMatch
<1>3. sync' \in SyncRow /\ sync'.on = sync.on /\ sync'.read = sync.read
  BY <1>1, <1>2 DEF SyncRow
<1>4. SyncTimely' /\ QuotesAreRecent'
  BY <1>1, <1>3 DEF SyncTimely, QuotesAreRecent
<1>5. CASE UNCHANGED cache
  <2>1. OddsTypes'
    BY <1>1, <1>3, <1>5 DEF OddsTypes
  <2> QED BY <1>1, <1>4, <1>5, <2>1 DEF CacheTimely
<1>6. CASE Stored(x)
  <2>1. PICK r : r = [read |-> sync.read, until |-> age + OddsTTL]
    OBVIOUS
  <2>2. r \in CacheRow /\ r.read = sync.read /\ r.until = age + OddsTTL
    BY <1>1, <2>1, OddsAssumption DEF CacheRow
  <2>3. cache' = [cache EXCEPT ![x] = r] /\ x \in Fixtures
    BY <1>1, <1>2, <1>6, <2>1 DEF Stored, SyncRow
  <2>4. OddsTypes'
    BY <1>1, <1>3, <2>2, <2>3 DEF OddsTypes
  <2>5. r.read <= age /\ r.until <= r.read + Lag + OddsTTL
    BY <1>1, <2>2, OddsAssumption DEF SyncTimely
  <2>6. CacheTimely'
    BY <1>1, <2>3, <2>5 DEF CacheTimely, OddsTypes
  <2> QED BY <1>4, <2>4, <2>6
<1> QED BY <1>2, <1>5, <1>6

\* A selection is priced with what the cache has while its entry lives, or what the
\* provider says now.
LEMMA SelectionKeeps ==
  ASSUME OddsInvariant, NEW q \in QuoteCalls, NEW x \in Fixtures, PriceSelection(q, x)  PROVE OddsInvariant'
<1> USE DEF OddsInvariant
<1>1. UNCHANGED <<cache, sync, age>> /\ quote[q] \in QuoteRow /\ x \in quote[q].left /\ age \in Nat
      /\ quote[q].oldest \in Nat /\ quote[q].oldest < OddsTTL + Lag
  BY DEF PriceSelection, OddsTypes, QuoteRow, QuotesAreRecent
<1>2. ASSUME NEW n \in QuoteRow, quote' = [quote EXCEPT ![q] = n], n.oldest < OddsTTL + Lag  PROVE OddsInvariant'
  <2>1. OddsTypes'
    BY <1>1, <1>2 DEF OddsTypes
  <2>2. QuotesAreRecent'
    BY <1>2 DEF QuotesAreRecent, OddsTypes
  <2> QED BY <1>1, <2>1, <2>2 DEF SyncTimely, CacheTimely
<1>3. PICK m : m = [quote[q] EXCEPT !.left = @ \ {x}]
  OBVIOUS
<1>4. m \in QuoteRow /\ m.oldest = quote[q].oldest /\ m.priced = quote[q].priced
  BY <1>1, <1>3 DEF QuoteRow
<1>5. CASE quote' = [quote EXCEPT ![q].left = @ \ {x}]
  BY <1>1, <1>2, <1>3, <1>4, <1>5
<1>6. CASE \E read \in getMatchOdds(x) :
             quote' = [quote EXCEPT ![q].left = @ \ {x}, ![q].priced = @ \cup {x},
                                    ![q].oldest = Max({@, age - read})]
  <2>1. PICK read \in getMatchOdds(x) :
             quote' = [quote EXCEPT ![q].left = @ \ {x}, ![q].priced = @ \cup {x},
                                    ![q].oldest = Max({@, age - read})]
    BY <1>6
  <2>2. read \in Nat /\ read <= age /\ age - read < OddsTTL + Lag
    <3>1. CASE read = age
      BY <1>1, <3>1, OddsAssumption
    <3>2. CASE cache[x].until > age /\ read = cache[x].read
      <4>1. /\ cache[x].read \in Nat /\ cache[x].until \in Nat /\ cache[x].read <= age
            /\ cache[x].until <= cache[x].read + Lag + OddsTTL
        BY DEF OddsTypes, CacheRow, CacheTimely
      <4> QED BY <1>1, <3>2, <4>1, OddsAssumption
    <3> QED BY <3>1, <3>2 DEF getMatchOdds
  <2>3. PICK k : k = Max({quote[q].oldest, age - read})
    OBVIOUS
  <2>4. k \in Nat /\ k < OddsTTL + Lag
    <3>1. age - read \in Nat
      BY <1>1, <2>2
    <3> QED BY <1>1, <2>2, <2>3, <3>1, MaxOfTwo
  <2>5. PICK l : l = [m EXCEPT !.priced = @ \cup {x}]
    OBVIOUS
  <2>6. l \in QuoteRow /\ l.oldest = quote[q].oldest
    BY <1>4, <2>5 DEF QuoteRow
  <2>7. PICK n : n = [l EXCEPT !.oldest = k]
    OBVIOUS
  <2>8. n \in QuoteRow /\ n.oldest = k
    BY <2>4, <2>6, <2>7 DEF QuoteRow
  <2>9. quote' = [quote EXCEPT ![q] = n]
    BY <1>3, <2>1, <2>3, <2>5, <2>7 DEF OddsTypes, QuoteRow
  <2> QED BY <1>2, <2>4, <2>8, <2>9
<1> QED BY <1>5, <1>6 DEF PriceSelection

\* Every step of a sync, of a quote and of the clock keeps the invariant.
LEMMA OddsKept ==
  ASSUME OddsInvariant, [OddsNext]_oddsVars  PROVE OddsInvariant'
<1> USE DEF OddsInvariant
<1>1. CASE UNCHANGED oddsVars
  BY <1>1 DEF oddsVars, OddsTypes, SyncTimely, CacheTimely, QuotesAreRecent
<1>2. CASE GetLiveOdds
  <2>1. PICK live \in SUBSET Fixtures : sync' = [left |-> live, read |-> age, on |-> TRUE]
    BY <1>2 DEF GetLiveOdds
  <2>2. sync' \in SyncRow /\ sync'.read = age /\ UNCHANGED <<cache, quote, age>>
    BY <1>2, <2>1 DEF GetLiveOdds, OddsTypes, SyncRow
  <2>3. OddsTypes' /\ SyncTimely'
    BY <2>2, OddsAssumption DEF OddsTypes, SyncTimely
  <2> QED BY <2>2, <2>3 DEF CacheTimely, QuotesAreRecent
<1>3. CASE SyncMatch
  BY <1>3, StoreKeeps
<1>4. CASE PublishUpdated
  <2>1. sync' \in SyncRow /\ ~sync'.on /\ UNCHANGED <<cache, quote, age>>
    BY <1>4 DEF PublishUpdated, SyncRow
  <2>2. OddsTypes' /\ SyncTimely'
    BY <2>1 DEF OddsTypes, SyncTimely
  <2> QED BY <2>1, <2>2 DEF CacheTimely, QuotesAreRecent
<1>5. CASE Aging
  <2>1. age' = age + 1 /\ UNCHANGED <<cache, sync, quote>> /\ age \in Nat /\ (sync.on => age < sync.read + Lag)
    BY <1>5 DEF Aging, OddsTypes
  <2>2. OddsTypes' /\ QuotesAreRecent'
    BY <2>1 DEF OddsTypes, QuotesAreRecent
  <2>3. SyncTimely'
    BY <2>1, OddsAssumption DEF SyncTimely, OddsTypes, SyncRow
  <2>4. CacheTimely'
    BY <2>1, OddsAssumption DEF CacheTimely, OddsTypes, CacheRow
  <2> QED BY <2>2, <2>3, <2>4
<1>6. ASSUME NEW q \in QuoteCalls, NEW n \in QuoteRow, n.oldest < OddsTTL + Lag, quote' = [quote EXCEPT ![q] = n],
             UNCHANGED <<cache, sync, age>>
      PROVE  OddsInvariant'
  <2>1. OddsTypes'
    BY <1>6 DEF OddsTypes
  <2>2. QuotesAreRecent'
    BY <1>6 DEF QuotesAreRecent, OddsTypes
  <2> QED BY <1>6, <2>1, <2>2 DEF SyncTimely, CacheTimely
<1>7. ASSUME NEW q \in QuoteCalls, AskQuote(q)  PROVE OddsInvariant'
  <2>1. PICK s \in SlipSets : quote' = [quote EXCEPT ![q] = [NoQuote EXCEPT !.at = "price", !.left = s]]
    BY <1>7 DEF AskQuote
  <2>2. PICK n : n = [NoQuote EXCEPT !.at = "price", !.left = s]
    OBVIOUS
  <2>3. n \in QuoteRow /\ n.oldest = 0
    BY <2>2 DEF QuoteRow, QuoteStages, NoQuote, SlipSets
  <2>4. quote' = [quote EXCEPT ![q] = n]
    BY <2>1, <2>2
  <2>5. 0 < OddsTTL + Lag
    BY OddsAssumption
  <2>6. UNCHANGED <<cache, sync, age>>
    BY <1>7 DEF AskQuote
  <2> QED BY <1>6, <2>3, <2>4, <2>5, <2>6
<1>8. ASSUME NEW q \in QuoteCalls, CalculateBetOdds(q)  PROVE OddsInvariant'
  <2>1. PICK at \in QuoteStages : at = IF quote[q].priced = {} THEN "ErrNoValidSelections" ELSE "quoted"
    BY DEF QuoteStages
  <2>2. PICK n : n = [quote[q] EXCEPT !.at = at]
    OBVIOUS
  <2>3. n \in QuoteRow /\ n.oldest = quote[q].oldest /\ quote[q].oldest < OddsTTL + Lag
    BY <2>1, <2>2 DEF QuoteRow, OddsTypes, QuotesAreRecent
  <2>4. quote' = [quote EXCEPT ![q] = n] /\ UNCHANGED <<cache, sync, age>>
    BY <1>8, <2>1, <2>2 DEF CalculateBetOdds
  <2> QED BY <1>6, <2>3, <2>4
<1> QED BY <1>1, <1>2, <1>3, <1>4, <1>5, <1>7, <1>8, SelectionKeeps DEF OddsNext, syncOdds

-----------------------------------------------------------------------------
(* The clients of providers (ProviderClients): their limiter's bucket against
   the requests let through.                                               *)

BucketRow == [tokens : Int, last : Int]
AskStages == {"idle", "try", "sleep", "request", "error", "refill", "take"}
AskRow == [at : AskStages, saw : BucketRow, timer : Nat]
Trying(c) == asker[c].at \in {"refill", "take"}
PaceTypes ==
  /\ bucket \in BucketRow /\ bucket.tokens \in 0 .. MaxTokens /\ bucket.last \in 0 .. tick
  /\ asker \in [Askers -> AskRow] /\ granted \in [0 .. Ticks -> Nat] /\ tick \in 0 .. Ticks

\* One caller tries at a time, and the bucket is what it saw.
OneTry ==
  /\ \A c, d \in Askers : Trying(c) /\ Trying(d) => c = d
  /\ \A c \in Askers : Trying(c) => asker[c].saw = bucket /\ ~Guarded
  /\ \A c \in Askers : asker[c].at = "take" => bucket.tokens > 0
  /\ \A c \in Askers : asker[c].at # "idle" => vendor # "none"

\* The requests let through in the interval that begins at a time.
PaceWindow(t) == {i \in 0 .. Ticks : t <= i /\ i <= t + Interval - 1}
LetThrough(t) == Sum(granted, PaceWindow(t))
OpenAt(t) == t <= tick /\ tick <= t + Interval - 1
NoneYet == \A i \in 0 .. Ticks : i > tick => granted[i] = 0

\* While an interval is open, what it let through and the tokens left are a full bucket, and one
\* more once it was refilled within; the refill before is not long ago, unless
\* the interval let at most one request through, which had looked before it began.
SharedOut(t) == LetThrough(t) + bucket.tokens <= MaxTokens + (IF bucket.last >= t THEN 1 ELSE 0)
Fresh(t) == bucket.last > t - Interval
PaceHolds(t) ==
  /\ OpenAt(t) => SharedOut(t)
  /\ LetThrough(t) > 1 => Fresh(t)
  /\ LetThrough(t) >= 1 /\ (\E c \in Askers : asker[c].at = "take") => Fresh(t)
  /\ LetThrough(t) <= MaxTokens + 1
Paced == \A t \in 0 .. tick : PaceHolds(t)
PaceInvariant == ~raced => PaceTypes /\ OneTry /\ NoneYet /\ Paced


\* The smaller of two numbers.
LEMMA MinOfTwo ==
  ASSUME NEW a \in Int, NEW b \in Int
  PROVE  Min({a, b}) \in {a, b} /\ Min({a, b}) <= a /\ Min({a, b}) <= b
<1>1. \E x \in {a, b} : \A y \in {a, b} : x =< y
  OBVIOUS
<1> QED BY <1>1 DEF Min

\* The sum PaceKept speaks of is the sum over the window of ticks the proofs speak of.
LEMMA WindowIs ==
  ASSUME NEW t \in 0 .. Ticks  PROVE GrantedIn(t, Min({t + Interval - 1, Ticks})) = LetThrough(t)
<1>0. t + Interval - 1 \in Int /\ Ticks \in Int
  BY ProviderAssumption
<1>1. PICK a, m : a = t + Interval - 1 /\ m = Min({a, Ticks})
  OBVIOUS
<1>2. m \in Int /\ m \in {a, Ticks} /\ m <= a /\ m <= Ticks
  BY <1>0, <1>1, MinOfTwo
<1>3. t .. m = PaceWindow(t)
  BY <1>1, <1>2, ProviderAssumption DEF PaceWindow
<1> QED BY <1>1, <1>3 DEF GrantedIn, LetThrough, Sum

\* The requests let through in a window are finitely many.
LEMMA LetThroughNat ==
  ASSUME granted \in [0 .. Ticks -> Nat], NEW t  PROVE LetThrough(t) \in Nat /\ IsFiniteSet(PaceWindow(t))
<1>1. IsFiniteSet(0 .. Ticks)
  BY FS_Interval, ProviderAssumption
<1>2. PaceWindow(t) \subseteq 0 .. Ticks
  BY DEF PaceWindow
<1>3. IsFiniteSet(PaceWindow(t)) /\ \A i \in PaceWindow(t) : granted[i] \in Nat
  BY <1>1, <1>2, FS_Subset
<1> QED BY <1>3, SumNat DEF LetThrough

\* A request is let through now, in every interval that is open.
LEMMA GrantCounts ==
  ASSUME granted \in [0 .. Ticks -> Nat], tick \in 0 .. Ticks, granted' = [granted EXCEPT ![tick] = @ + 1],
         NEW t \in 0 .. Ticks
  PROVE  LetThrough(t)' = IF OpenAt(t) THEN LetThrough(t) + 1 ELSE LetThrough(t)
<1> DEFINE S == PaceWindow(t)
<1>1. IsFiniteSet(S) /\ LetThrough(t) \in Nat /\ S \subseteq 0 .. Ticks
  BY LetThroughNat DEF PaceWindow
<1>2. IsIntOn(granted, S) /\ granted'[tick] = granted[tick] + 1 /\ \A i \in S \ {tick} : granted'[i] = granted[i]
  BY <1>1 DEF IsIntOn
<1>3. OpenAt(t) <=> tick \in S
  BY DEF OpenAt, PaceWindow
<1>4. LetThrough(t) = Sum(granted, S) /\ LetThrough(t)' = Sum(granted', S)
  BY DEF LetThrough, PaceWindow
<1> HIDE DEF S
<1>5. CASE tick \in S
  <2>2. granted[tick] \in Nat /\ granted'[tick] \in Int
    BY <1>2
  <2>3. PICK f, g, x : f = granted /\ g = granted' /\ x = tick
    OBVIOUS
  <2>4. IsFiniteSet(S) /\ x \in S /\ IsIntOn(f, S)
    BY <1>1, <1>2, <1>5, <2>3
  <2>5. g[x] \in Int /\ \A i \in S \ {x} : g[i] = f[i]
    BY <1>2, <2>2, <2>3
  <2>6. Sum(g, S) = Sum(f, S) + (g[x] - f[x])
    BY <2>4, <2>5, SumUpdate
  <2>1. Sum(granted', S) = Sum(granted, S) + (granted'[tick] - granted[tick])
    BY <2>3, <2>6
  <2> QED BY <1>1, <1>2, <1>3, <1>4, <1>5, <2>1, <2>2
<1>6. CASE tick \notin S
  <2>1. Sum(granted', S) = Sum(granted, S)
    BY <1>1, <1>2, <1>6, SumCongruence
  <2> QED BY <1>3, <1>4, <1>6, <2>1
<1> QED BY <1>5, <1>6

\* One token for each whole interval since the last refill, up to a full bucket: afterwards
\* the last refill is less than an interval ago.
LEMMA WholeIntervals ==
  ASSUME NEW n \in Nat
  PROVE  /\ n \div Interval \in Nat /\ (n \div Interval) * Interval \in Nat
         /\ (n \div Interval) * Interval <= n /\ n < (n \div Interval) * Interval + Interval
<1> DEFINE q == n \div Interval
<1>0. Interval \in Nat \ {0}
  BY ProviderAssumption
<1>1. q \in Nat /\ n = q * Interval + (n % Interval) /\ (n % Interval) \in 0 .. (Interval - 1)
  BY <1>0
<1>2. q * Interval \in Nat
  BY <1>0, <1>1
<1> QED BY <1>0, <1>1, <1>2

\* What Allow() refills leaves a bucket of the limiter: never more than it holds, dated
\* within the last interval.
LEMMA RefillFacts ==
  ASSUME PaceTypes
  PROVE  /\ Refilled(bucket) \in BucketRow /\ Refilled(bucket).tokens \in 0 .. MaxTokens
         /\ Refilled(bucket).last \in 0 .. tick /\ Refilled(bucket).last > tick - Interval
         /\ Refilled(bucket).last = bucket.last => Refilled(bucket) = bucket
         /\ Refilled(bucket).last # bucket.last =>
              /\ Refilled(bucket).last = tick /\ bucket.last <= tick - Interval
              /\ bucket.last > tick - 2 * Interval => Refilled(bucket).tokens <= bucket.tokens + 1
<1> DEFINE add == (tick - bucket.last) \div Interval
<1>0. Interval \in Nat /\ Interval > 0 /\ MaxTokens \in Nat /\ tick \in Nat /\ bucket.last \in Nat /\ bucket.last <= tick
      /\ bucket.tokens \in Nat /\ bucket.tokens <= MaxTokens
  BY ProviderAssumption DEF PaceTypes
<1>1. /\ add \in Nat /\ add * Interval <= tick - bucket.last
      /\ tick - bucket.last < add * Interval + Interval /\ add * Interval \in Nat
  <2>1. tick - bucket.last \in Nat
    BY <1>0
  <2> QED BY <2>1, WholeIntervals
<1>2. Refilled(bucket) = IF add > 0 THEN [tokens |-> Min({MaxTokens, bucket.tokens + add}), last |-> tick] ELSE bucket
  BY DEF Refilled
<1> HIDE DEF add
<1>3. CASE add = 0
  BY <1>0, <1>1, <1>2, <1>3 DEF PaceTypes
<1>4. CASE add > 0
  <2>0. bucket.tokens + add \in Int /\ MaxTokens \in Int
    BY <1>0, <1>1
  <2>1. PICK a, m : a = bucket.tokens + add /\ m = Min({MaxTokens, a})
    OBVIOUS
  <2>2. m \in {MaxTokens, a} /\ m <= MaxTokens /\ m <= a
    BY <2>0, <2>1, MinOfTwo
  <2>3. Refilled(bucket) = [tokens |-> m, last |-> tick]
    BY <1>2, <1>4, <2>1
  <2>4. add * Interval >= Interval
    BY <1>0, <1>1, <1>4
  <2>5. add >= 2 => add * Interval >= 2 * Interval
    BY <1>0, <1>1
  <2>6. bucket.last <= tick - Interval
    BY <1>0, <1>1, <2>4
  <2>7. bucket.last > tick - 2 * Interval => add <= 1
    BY <1>0, <1>1, <2>5
  <2> QED BY <1>0, <1>1, <1>4, <2>1, <2>2, <2>3, <2>6, <2>7 DEF BucketRow
<1> QED BY <1>1, <1>3, <1>4

\* What a refill by a caller that sees the bucket leaves of the pace.
LEMMA RefillKeepsPace ==
  ASSUME PaceTypes, NEW b \in BucketRow, b = Refilled(bucket), NEW t \in 0 .. tick, NEW n \in Nat,
         OpenAt(t) => n + bucket.tokens <= MaxTokens + (IF bucket.last >= t THEN 1 ELSE 0),
         n > 1 => Fresh(t)
  PROVE  /\ OpenAt(t) => n + b.tokens <= MaxTokens + (IF b.last >= t THEN 1 ELSE 0)
         /\ b.last > t - Interval
<1>1. /\ Interval \in Nat /\ Interval > 0 /\ MaxTokens \in Nat /\ tick \in Nat /\ bucket.last \in Nat /\ bucket.last <= tick
      /\ bucket.tokens \in Nat /\ bucket.tokens <= MaxTokens
  BY ProviderAssumption DEF PaceTypes
<1>2. /\ b.tokens \in 0 .. MaxTokens /\ b.last \in 0 .. tick /\ b.last > tick - Interval
      /\ b.last = bucket.last => b = bucket
      /\ b.last # bucket.last => /\ b.last = tick /\ bucket.last <= tick - Interval
                                 /\ bucket.last > tick - 2 * Interval => b.tokens <= bucket.tokens + 1
  BY RefillFacts
<1>3. b.last > t - Interval
  BY <1>1, <1>2
<1>4. ASSUME OpenAt(t)  PROVE n + b.tokens <= MaxTokens + (IF b.last >= t THEN 1 ELSE 0)
  <2>1. t <= tick /\ tick <= t + Interval - 1
    BY <1>4 DEF OpenAt
  <2>2. CASE b.last = bucket.last
    BY <1>2, <1>4, <2>2
  <2>3. CASE b.last # bucket.last
    <3>1. b.last = tick /\ b.last >= t /\ bucket.last < t
      BY <1>1, <1>2, <2>1, <2>3
    <3>2. n + bucket.tokens <= MaxTokens
      BY <1>4, <3>1, <1>1
    <3>3. CASE n <= 1
      BY <1>1, <1>2, <3>1, <3>3
    <3>4. CASE n > 1
      <4>1. bucket.last > t - Interval
        BY <3>4 DEF Fresh
      <4>2. bucket.last > tick - 2 * Interval
        BY <1>1, <2>1, <4>1
      <4> QED BY <1>1, <1>2, <2>3, <3>1, <3>2, <4>2
    <3> QED BY <3>3, <3>4
  <2> QED BY <2>2, <2>3
<1> QED BY <1>3, <1>4

\* Nothing was let through at times to come.
LEMMA LaterNothing ==
  ASSUME PaceTypes, NoneYet, NEW t \in 0 .. Ticks, t > tick  PROVE LetThrough(t) = 0
<1>1. IsFiniteSet(PaceWindow(t))
  BY LetThroughNat DEF PaceTypes
<1>2. \A i \in PaceWindow(t) : granted[i] = 0
  BY DEF PaceWindow, NoneYet, PaceTypes
<1> QED BY <1>1, <1>2, SumZero DEF LetThrough

\* A full bucket and no request yet.
LEMMA ProvidersAtFirst == ProviderInit => PaceInvariant
<1> SUFFICES ASSUME ProviderInit  PROVE PaceInvariant
  OBVIOUS
<1>0. Interval \in Nat \ {0} /\ MaxTokens \in Nat \ {0} /\ Ticks \in Nat
  BY ProviderAssumption
<1>1. /\ bucket = [tokens |-> MaxTokens, last |-> 0] /\ tick = 0 /\ asker = [c \in Askers |-> NoAsk]
      /\ granted = [t \in 0 .. Ticks |-> 0]
      /\ NoAsk = [at |-> "idle", saw |-> [tokens |-> MaxTokens, last |-> 0], timer |-> 0]
  BY DEF ProviderInit, NewRateLimiter, NoAsk
<1>2. PaceTypes
  <2>1. NoAsk \in AskRow
    BY <1>0, <1>1 DEF AskRow, AskStages, BucketRow
  <2> QED BY <1>0, <1>1, <2>1 DEF PaceTypes, BucketRow
<1>3. NoneYet
  BY <1>1 DEF NoneYet
<1>4. \A c \in Askers : asker[c].at = "idle"
  BY <1>1
<1>5. OneTry
  BY <1>4 DEF OneTry, Trying
<1>6. LetThrough(0) = 0
  <2>1. IsFiniteSet(PaceWindow(0))
    BY <1>2, LetThroughNat DEF PaceTypes
  <2>2. \A i \in PaceWindow(0) : granted[i] = 0
    BY <1>1 DEF PaceWindow
  <2> QED BY <2>1, <2>2, SumZero DEF LetThrough
<1>7. Paced
  <2>1. bucket.tokens = MaxTokens /\ bucket.last = 0
    BY <1>1
  <2>2. PaceHolds(0)
    BY <1>0, <1>4, <1>6, <2>1 DEF PaceHolds, SharedOut
  <2> QED BY <1>1, <2>2 DEF Paced
<1> QED BY <1>2, <1>3, <1>5, <1>7 DEF PaceInvariant

\* The windows that begin at a tick of the past hold at most a burst and one more.
LEMMA ProvidersAlways == PaceInvariant => PaceKept
<1> SUFFICES ASSUME PaceInvariant, ~raced, NEW t \in 0 .. tick
             PROVE  GrantedIn(t, Min({t + Interval - 1, Ticks})) <= MaxTokens + 1
  BY DEF PaceKept
<1>1. PaceTypes /\ PaceHolds(t)
  BY DEF PaceInvariant, Paced
<1>2. t \in 0 .. Ticks
  BY <1>1, ProviderAssumption DEF PaceTypes
<1> QED BY <1>1, <1>2, WindowIs DEF PaceHolds

\* A step of a caller that lets nothing through: the pace stays, if the bucket does or
\* was refilled as it was seen.
LEMMA PaceStays ==
  ASSUME PaceInvariant, ~raced, UNCHANGED <<granted, tick>>, PaceTypes',
         bucket' = bucket \/ bucket' = Refilled(bucket),
         \A c \in Askers : asker'[c].at = "take" /\ asker[c].at # "take" => bucket' = Refilled(bucket)
  PROVE  Paced' /\ NoneYet'
<1>1. PaceTypes /\ NoneYet /\ Paced
  BY DEF PaceInvariant
<1>2. NoneYet'
  BY <1>1 DEF NoneYet
<1>3. ASSUME NEW t \in 0 .. tick  PROVE PaceHolds(t)'
  <2>1. PICK n : n = LetThrough(t)
    OBVIOUS
  <2>2. n \in Nat /\ LetThrough(t)' = n /\ OpenAt(t)' = OpenAt(t)
    BY <1>1, <2>1, LetThroughNat DEF PaceTypes, LetThrough, PaceWindow, OpenAt
  <2>3. /\ OpenAt(t) => n + bucket.tokens <= MaxTokens + (IF bucket.last >= t THEN 1 ELSE 0)
        /\ n > 1 => Fresh(t)
        /\ n >= 1 /\ (\E c \in Askers : asker[c].at = "take") => Fresh(t)
        /\ n <= MaxTokens + 1
    BY <1>1, <2>1 DEF Paced, PaceHolds, SharedOut
  <2>4. CASE bucket' = Refilled(bucket)
    <3>1. PICK b : b = Refilled(bucket)
      OBVIOUS
    <3>2. b \in BucketRow
      BY <1>1, <3>1, RefillFacts
    <3>3. /\ OpenAt(t) => n + b.tokens <= MaxTokens + (IF b.last >= t THEN 1 ELSE 0)
          /\ b.last > t - Interval
      BY <1>1, <2>2, <2>3, <3>1, <3>2, RefillKeepsPace
    <3>4. bucket' = b
      BY <2>4, <3>1
    <3>5. Fresh(t)' /\ (OpenAt(t)' => SharedOut(t)')
      BY <2>2, <3>3, <3>4 DEF Fresh, SharedOut
    <3> QED BY <2>2, <2>3, <3>5 DEF PaceHolds
  <2>5. CASE bucket' = bucket /\ bucket' # Refilled(bucket)
    <3>1. (\E c \in Askers : asker'[c].at = "take") => \E c \in Askers : asker[c].at = "take"
      BY <2>5
    <3>2. Fresh(t)' = Fresh(t) /\ (OpenAt(t)' => SharedOut(t)')
      BY <2>2, <2>3, <2>5 DEF Fresh, SharedOut
    <3> QED BY <2>2, <2>3, <3>1, <3>2 DEF PaceHolds
  <2> QED BY <2>4, <2>5
<1> QED BY <1>2, <1>3 DEF Paced

\* A step that lets a request through takes a token of a bucket that was refilled as it was
\* seen: now, or by the caller when it looked.
LEMMA PaceGrants ==
  ASSUME PaceInvariant, ~raced, tick' = tick, granted' = [granted EXCEPT ![tick] = @ + 1], PaceTypes',
         NEW b \in BucketRow, bucket' = [b EXCEPT !.tokens = @ - 1],
         b = Refilled(bucket) \/ (b = bucket /\ \E c \in Askers : asker[c].at = "take"),
         \A c \in Askers : asker'[c].at # "take"
  PROVE  Paced' /\ NoneYet'
<1>0. Interval \in Nat /\ Interval > 0 /\ MaxTokens \in Nat /\ Ticks \in Nat
  BY ProviderAssumption
<1>1. PaceTypes /\ NoneYet /\ Paced /\ tick \in 0 .. Ticks /\ granted \in [0 .. Ticks -> Nat]
  BY DEF PaceInvariant, PaceTypes
<1>2. NoneYet'
  BY <1>1 DEF NoneYet
<1>3. bucket'.tokens = b.tokens - 1 /\ bucket'.last = b.last /\ b.tokens \in Int /\ b.last \in Int /\ bucket'.tokens >= 0
  BY DEF BucketRow, PaceTypes
<1>4. ASSUME NEW t \in 0 .. tick  PROVE PaceHolds(t)'
  <2>0. t \in 0 .. Ticks /\ t \in Nat
    BY <1>0, <1>1
  <2>1. PICK n : n = LetThrough(t)
    OBVIOUS
  <2>2. n \in Nat /\ LetThrough(t)' = IF OpenAt(t) THEN n + 1 ELSE n
    BY <1>1, <2>0, <2>1, LetThroughNat, GrantCounts
  <2>3. OpenAt(t)' = OpenAt(t)
    BY DEF OpenAt
  <2>4. /\ OpenAt(t) => n + bucket.tokens <= MaxTokens + (IF bucket.last >= t THEN 1 ELSE 0)
        /\ n > 1 => bucket.last > t - Interval
        /\ n >= 1 /\ (\E c \in Askers : asker[c].at = "take") => bucket.last > t - Interval
        /\ n <= MaxTokens + 1
    BY <1>1, <2>1 DEF Paced, PaceHolds, SharedOut, Fresh
  <2>5. /\ OpenAt(t) => n + b.tokens <= MaxTokens + (IF b.last >= t THEN 1 ELSE 0)
        /\ n >= 1 => b.last > t - Interval
    <3>1. CASE b = Refilled(bucket)
      BY <1>1, <2>2, <2>4, <3>1, RefillKeepsPace DEF Fresh
    <3>2. CASE b = bucket /\ \E c \in Askers : asker[c].at = "take"
      BY <2>4, <3>2
    <3> QED BY <3>1, <3>2
  <2>6. PICK m : m = LetThrough(t)'
    OBVIOUS
  <2>7. CASE OpenAt(t)
    <3>1. m = n + 1
      BY <2>2, <2>6, <2>7
    <3>2. m + bucket'.tokens <= MaxTokens + (IF bucket'.last >= t THEN 1 ELSE 0)
      BY <1>0, <1>3, <2>2, <2>5, <2>7, <3>1
    <3>3. m > 1 => bucket'.last > t - Interval
      BY <1>3, <2>2, <2>5, <3>1
    <3>4. m <= MaxTokens + 1
      BY <1>0, <1>3, <2>2, <3>1, <3>2
    <3>5. SharedOut(t)' /\ (LetThrough(t)' > 1 => Fresh(t)') /\ LetThrough(t)' <= MaxTokens + 1
      BY <2>6, <3>2, <3>3, <3>4 DEF SharedOut, Fresh
    <3> QED BY <3>5 DEF PaceHolds
  <2>8. CASE ~OpenAt(t)
    <3>1. m = n
      BY <2>2, <2>6, <2>8
    <3>2. m > 1 => bucket'.last > t - Interval
      BY <1>3, <2>2, <2>5, <3>1
    <3>3. LetThrough(t)' > 1 => Fresh(t)'
      BY <2>6, <3>2 DEF Fresh
    <3> QED BY <2>3, <2>4, <2>6, <2>8, <3>1, <3>3 DEF PaceHolds
  <2> QED BY <2>7, <2>8
<1> QED BY <1>2, <1>4 DEF Paced

\* As time goes on an interval begins with what is left in the bucket.
LEMMA PaceAges ==
  ASSUME PaceInvariant, ~raced, Tick  PROVE PaceInvariant'
<1>0. Interval \in Nat /\ Interval > 0 /\ MaxTokens \in Nat /\ Ticks \in Nat
  BY ProviderAssumption
<1>1. PaceTypes /\ NoneYet /\ Paced /\ OneTry
  BY DEF PaceInvariant
<1>2. tick < Ticks /\ tick' = tick + 1 /\ UNCHANGED <<vendor, bucket, asker, granted, raced>> /\ tick \in Nat
  BY <1>1, <1>0 DEF Tick, PaceTypes
<1>3. PaceTypes'
  BY <1>0, <1>1, <1>2 DEF PaceTypes
<1>4. NoneYet' /\ OneTry'
  BY <1>1, <1>2 DEF NoneYet, OneTry, Trying, Guarded
<1>5. \A t : LetThrough(t)' = LetThrough(t)
  BY <1>2 DEF LetThrough, PaceWindow
<1>6. ASSUME NEW t \in 0 .. tick  PROVE PaceHolds(t)'
  <2>1. PaceHolds(t) /\ LetThrough(t)' = LetThrough(t)
    BY <1>1, <1>5 DEF Paced
  <2>2. OpenAt(t)' => OpenAt(t)
    BY <1>0, <1>2 DEF OpenAt
  <2> QED BY <1>2, <2>1, <2>2 DEF PaceHolds, SharedOut, Fresh
<1>7. ASSUME NEW t, t = tick + 1  PROVE PaceHolds(t)'
  <2>2. t \in 0 .. Ticks /\ t > tick
    BY <1>0, <1>2, <1>7
  <2>3. LetThrough(t)' = 0
    BY <1>1, <1>5, <2>2, LaterNothing
  <2>4. bucket'.tokens <= MaxTokens /\ bucket'.tokens \in Nat
    BY <1>0, <1>3 DEF PaceTypes
  <2>5. SharedOut(t)'
    BY <1>0, <2>3, <2>4 DEF SharedOut
  <2> QED BY <1>0, <2>3, <2>5 DEF PaceHolds
<1>8. Paced'
  <2> SUFFICES ASSUME NEW t \in 0 .. tick'  PROVE PaceHolds(t)'
    BY DEF Paced
  <2>1. t \in 0 .. tick \/ t = tick + 1
    BY <1>2
  <2> QED BY <1>6, <1>7, <2>1
<1> QED BY <1>3, <1>4, <1>8 DEF PaceInvariant

\* A step of one caller that begins no try in the middle of another's.
LEMMA CallerKeeps ==
  ASSUME PaceInvariant, ~raced, NEW c \in Askers, NEW n \in AskRow, asker' = [asker EXCEPT ![c] = n],
         PaceTypes', Paced' /\ NoneYet', vendor # "none" => vendor' = vendor,
         n.at # "idle" => vendor' # "none",
         n.at \in {"refill", "take"} => /\ n.saw = bucket' /\ ~Guarded' /\ (n.at = "take" => bucket'.tokens > 0)
                                        /\ \A d \in Askers \ {c} : ~Trying(d),
         bucket' = bucket \/ \A d \in Askers \ {c} : ~Trying(d)
  PROVE  PaceInvariant'
<1>1. PaceTypes /\ OneTry
  BY DEF PaceInvariant
<1>2. asker'[c] = n /\ \A d \in Askers \ {c} : asker'[d] = asker[d]
  BY <1>1 DEF PaceTypes
<1>3. \A d \in Askers \ {c} : Trying(d)' = Trying(d)
  BY <1>2 DEF Trying
<1>4. Trying(c)' <=> n.at \in {"refill", "take"}
  BY <1>2 DEF Trying
<1>5. \A d \in Askers : Trying(d) => vendor # "none" /\ Guarded' = Guarded
  BY <1>1 DEF OneTry, Trying, Guarded
<1>6. \A a, d \in Askers : Trying(a)' /\ Trying(d)' => a = d
  BY <1>1, <1>3, <1>4 DEF OneTry
<1>7. ASSUME NEW d \in Askers
      PROVE  /\ Trying(d)' => asker'[d].saw = bucket' /\ ~Guarded'
             /\ asker'[d].at = "take" => bucket'.tokens > 0
             /\ asker'[d].at # "idle" => vendor' # "none"
  <2>1. CASE d = c
    BY <1>2, <1>4, <2>1
  <2>2. CASE d # c
    <3>1. asker'[d] = asker[d] /\ Trying(d)' = Trying(d) /\ (Trying(d) => bucket' = bucket)
      BY <1>2, <1>3, <2>2
    <3>2. asker[d].at = "take" => Trying(d)
      BY DEF Trying
    <3> QED BY <1>1, <1>5, <3>1, <3>2 DEF OneTry
  <2> QED BY <2>1, <2>2
<1>8. OneTry'
  BY <1>6, <1>7 DEF OneTry
<1> QED BY <1>8 DEF PaceInvariant

\* A caller is idle, sleeps, asks or has its answer: no bucket is looked at.
LEMMA CallerAside ==
  ASSUME PaceInvariant, ~raced, NEW c \in Askers, NEW n \in AskRow, asker' = [asker EXCEPT ![c] = n],
         UNCHANGED <<bucket, granted, tick>>, n.at \notin {"refill", "take"},
         vendor # "none" => vendor' = vendor, n.at # "idle" => vendor' # "none"
  PROVE  PaceInvariant'
<1>1. PaceTypes
  BY DEF PaceInvariant
<1>2. PaceTypes'
  BY <1>1 DEF PaceTypes
<1>3. \A d \in Askers : asker'[d].at = "take" => asker[d].at = "take"
  BY <1>1 DEF PaceTypes
<1>4. Paced' /\ NoneYet'
  BY <1>2, <1>3, PaceStays
<1> QED BY <1>2, <1>4, CallerKeeps

\* The marker for "no provider" is the name of none.
LEMMA NoProvider == "none" \notin Providers
BY DEF Providers, Endpoints, Endpoint, Radar, Below400, GetSports, GetTournaments, GetMatchOdds, GetMatches,
       RadarLiveMatches, GetUpcomingMatches, GeniusSports, GeniusLeagues, GeniusMatches, GeniusOdds, SendSMS, SendOTP,
       VerifyOTP, SendUSSD

\* A request begins, and a caller whose sleep or request ends goes on.
LEMMA CallsKeep ==
  ASSUME PaceInvariant, ~raced, NEW c \in Askers, Call(c) \/ TryAgain(c) \/ AskEnds(c)  PROVE PaceInvariant'
<1>1. PaceTypes /\ OneTry /\ asker[c] \in AskRow
  BY DEF PaceInvariant, PaceTypes
<1>2. NoAsk \in AskRow
  BY ProviderAssumption DEF NoAsk, AskRow, AskStages, BucketRow, NewRateLimiter
<1>3. UNCHANGED <<bucket, granted, tick>>
  BY DEF Call, TryAgain, AskEnds
<1>4. CASE Call(c)
  <2>1. PICK n : n = [NoAsk EXCEPT !.at = "try"]
    OBVIOUS
  <2>2. n \in AskRow /\ n.at = "try"
    BY <1>2, <2>1 DEF AskRow, AskStages
  <2>3. asker' = [asker EXCEPT ![c] = n]
    BY <1>4, <2>1 DEF Call
  <2>4. (vendor # "none" => vendor' = vendor) /\ vendor' # "none"
    BY <1>4, NoProvider DEF Call
  <2> QED BY <1>3, <2>2, <2>3, <2>4, CallerAside
<1>5. ASSUME NEW at \in {"error", "idle"}, asker' = [asker EXCEPT ![c].at = at], asker[c].at # "idle", vendor' = vendor
      PROVE  PaceInvariant'
  <2>1. PICK n : n = [asker[c] EXCEPT !.at = at]
    OBVIOUS
  <2>2. n \in AskRow /\ n.at = at
    BY <1>1, <2>1 DEF AskRow, AskStages
  <2>3. asker' = [asker EXCEPT ![c] = n]
    BY <1>5, <2>1
  <2>4. vendor # "none"
    BY <1>1, <1>5 DEF OneTry
  <2> QED BY <1>3, <1>5, <2>2, <2>3, <2>4, CallerAside
<1>6. CASE TryAgain(c)
  <2>1. PICK m : m = [asker[c] EXCEPT !.at = "try"]
    OBVIOUS
  <2>2. m \in AskRow /\ m.at = "try"
    BY <1>1, <2>1 DEF AskRow, AskStages
  <2>3. PICK n : n = [m EXCEPT !.timer = 0]
    OBVIOUS
  <2>4. n \in AskRow /\ n.at = "try"
    BY <2>2, <2>3 DEF AskRow, AskStages
  <2>5. asker' = [asker EXCEPT ![c] = n]
    BY <1>1, <1>6, <2>1, <2>3 DEF TryAgain, PaceTypes
  <2>6. vendor # "none" /\ vendor' = vendor
    BY <1>1, <1>6 DEF TryAgain, OneTry
  <2> QED BY <1>3, <2>4, <2>5, <2>6, CallerAside
<1>7. CASE AskEnds(c)
  <2>0. vendor' = vendor
    BY <1>7 DEF AskEnds
  <2>1. CASE asker[c].at = "sleep" /\ asker' = [asker EXCEPT ![c] = [NoAsk EXCEPT !.at = "error"]]
    <3>1. PICK n : n = [NoAsk EXCEPT !.at = "error"]
      OBVIOUS
    <3>2. n \in AskRow /\ n.at = "error"
      BY <1>2, <3>1 DEF AskRow, AskStages
    <3>3. asker' = [asker EXCEPT ![c] = n]
      BY <2>1, <3>1
    <3>4. vendor # "none"
      BY <1>1, <2>1 DEF OneTry
    <3> QED BY <1>3, <2>0, <3>2, <3>3, <3>4, CallerAside
  <2>2. CASE /\ asker[c].at = "request"
             /\ \E e \in Endpoints, s \in Statuses, broken, success \in BOOLEAN :
                  /\ e.provider = vendor
                  /\ asker' = [asker EXCEPT ![c].at = IF broken \/ Fails(e, s, success) THEN "error" ELSE "idle"]
    BY <1>5, <2>0, <2>2
  <2> QED BY <1>7, <2>1, <2>2 DEF AskEnds
<1> QED BY <1>4, <1>6, <1>7

\* What a caller sleeps or asks with.
LEMMA AskRows ==
  ASSUME tick \in Nat
  PROVE  /\ [NoAsk EXCEPT !.at = "request"] \in AskRow /\ [NoAsk EXCEPT !.at = "request"].at = "request"
         /\ [NoAsk EXCEPT !.at = "sleep", !.timer = tick + Pause] \in AskRow
         /\ [NoAsk EXCEPT !.at = "sleep", !.timer = tick + Pause].at = "sleep"
<1>1. NoAsk \in AskRow
  BY ProviderAssumption DEF NoAsk, AskRow, AskStages, BucketRow, NewRateLimiter
<1>2. Pause \in Nat
  <2>1. Interval \in Nat /\ MaxTokens \in Nat \ {0}
    BY ProviderAssumption
  <2> QED BY <2>1 DEF Pause
<1>3. PICK m : m = [NoAsk EXCEPT !.at = "sleep"]
  OBVIOUS
<1>4. m \in AskRow /\ m.at = "sleep"
  BY <1>1, <1>3 DEF AskRow, AskStages
<1>5. PICK k : k = tick + Pause
  OBVIOUS
<1>6. PICK n : n = [m EXCEPT !.timer = k]
  OBVIOUS
<1>7. n \in AskRow /\ n.at = "sleep"
  BY <1>2, <1>4, <1>5, <1>6 DEF AskRow, AskStages
<1>8. PICK r : r = [NoAsk EXCEPT !.at = "request"]
  OBVIOUS
<1>9. r \in AskRow /\ r.at = "request"
  BY <1>1, <1>8 DEF AskRow, AskStages
<1> QED BY <1>3, <1>5, <1>6, <1>7, <1>8, <1>9

\* With the mutex the bucket is refilled and taken from in one step.
LEMMA ConsumeKeeps ==
  ASSUME PaceInvariant, ~raced, NEW c \in Askers, tryConsume(c)  PROVE PaceInvariant'
<1>1. PaceTypes /\ OneTry /\ tick \in Nat
  BY ProviderAssumption DEF PaceInvariant, PaceTypes
<1>2. PICK b : b = Refilled(bucket)
  OBVIOUS
<1>3. b \in BucketRow /\ b.tokens \in 0 .. MaxTokens /\ b.last \in 0 .. tick
  BY <1>1, <1>2, RefillFacts
<1>4. /\ asker[c].at = "try" /\ Guarded /\ UNCHANGED <<vendor, raced, tick>>
      /\ IF b.tokens > 0 THEN bucket' = [b EXCEPT !.tokens = @ - 1] /\ Grants(c)
         ELSE bucket' = b /\ Sleeps(c) /\ UNCHANGED granted
  BY <1>2 DEF tryConsume
<1>5. vendor # "none" /\ vendor' = vendor /\ Guarded' = Guarded
  BY <1>4 DEF Guarded
<1>6. \A d \in Askers : ~Trying(d)
  BY <1>1, <1>4 DEF OneTry
<1>7. CASE b.tokens > 0
  <2>1. PICK n, e : n = [NoAsk EXCEPT !.at = "request"] /\ e = [b EXCEPT !.tokens = @ - 1]
    OBVIOUS
  <2>2. n \in AskRow /\ n.at = "request"
    BY <1>1, <2>1, AskRows
  <2>3. asker' = [asker EXCEPT ![c] = n] /\ granted' = [granted EXCEPT ![tick] = @ + 1] /\ bucket' = e
    BY <1>4, <1>7, <2>1 DEF Grants
  <2>4. e \in BucketRow /\ e.tokens = b.tokens - 1 /\ e.last = b.last
    BY <1>3, <2>1 DEF BucketRow
  <2>5. e.tokens \in 0 .. MaxTokens
    BY <1>3, <1>7, <2>4, ProviderAssumption
  <2>6. PaceTypes'
    <3>1. asker' \in [Askers -> AskRow] /\ granted' \in [0 .. Ticks -> Nat]
      BY <1>1, <2>2, <2>3 DEF PaceTypes
    <3> QED BY <1>1, <1>3, <1>4, <2>3, <2>4, <2>5, <3>1 DEF PaceTypes
  <2>7. \A d \in Askers : asker'[d].at # "take"
    BY <1>1, <1>6, <2>2, <2>3 DEF Trying, PaceTypes
  <2>8. tick' = tick /\ bucket' = [b EXCEPT !.tokens = @ - 1]
    BY <1>4, <2>1, <2>3
  <2>9. Paced' /\ NoneYet'
    BY <1>2, <1>3, <2>3, <2>6, <2>7, <2>8, PaceGrants
  <2> QED BY <1>5, <1>6, <2>2, <2>3, <2>6, <2>9, CallerKeeps
<1>8. CASE ~(b.tokens > 0)
  <2>1. PICK n : n = [NoAsk EXCEPT !.at = "sleep", !.timer = tick + Pause]
    OBVIOUS
  <2>2. n \in AskRow /\ n.at = "sleep"
    BY <1>1, <2>1, AskRows
  <2>3. asker' = [asker EXCEPT ![c] = n] /\ granted' = granted /\ bucket' = b
    BY <1>4, <1>8, <2>1 DEF Sleeps
  <2>4. PaceTypes'
    <3>1. asker' \in [Askers -> AskRow]
      BY <1>1, <2>2, <2>3 DEF PaceTypes
    <3> QED BY <1>1, <1>3, <1>4, <2>3, <3>1 DEF PaceTypes
  <2>5. \A d \in Askers : asker'[d].at # "take"
    BY <1>1, <1>6, <2>2, <2>3 DEF Trying, PaceTypes
  <2>6. Paced' /\ NoneYet'
    BY <1>2, <1>4, <2>3, <2>4, <2>5, PaceStays
  <2> QED BY <1>5, <1>6, <2>2, <2>3, <2>4, <2>6, CallerKeeps
<1> QED BY <1>7, <1>8

\* Without it a try begins with a look at the bucket; one in the middle of another is noted.
LEMMA StartKeeps ==
  ASSUME PaceInvariant, ~raced, ~raced', NEW c \in Askers, StartTry(c)  PROVE PaceInvariant'
<1>1. PaceTypes /\ OneTry /\ asker[c] \in AskRow
  BY DEF PaceInvariant, PaceTypes
<1>2. /\ asker[c].at = "try" /\ ~Guarded /\ UNCHANGED <<vendor, bucket, granted, tick>>
      /\ \A d \in Askers \ {c} : ~Trying(d)
  BY DEF StartTry, Trying
<1>3. PICK m : m = [asker[c] EXCEPT !.at = "refill"]
  OBVIOUS
<1>4. m \in AskRow /\ m.at = "refill"
  BY <1>1, <1>3 DEF AskRow, AskStages
<1>5. PICK n : n = [m EXCEPT !.saw = bucket]
  OBVIOUS
<1>6. n \in AskRow /\ n.at = "refill" /\ n.saw = bucket
  BY <1>1, <1>4, <1>5 DEF AskRow, AskStages, PaceTypes
<1>7. asker' = [asker EXCEPT ![c] = n]
  BY <1>1, <1>3, <1>5 DEF StartTry, PaceTypes
<1>8. PaceTypes' /\ \A d \in Askers : asker'[d].at = "take" => asker[d].at = "take"
  <2>1. asker' \in [Askers -> AskRow] /\ \A d \in Askers : asker'[d].at = "take" => asker[d].at = "take"
    BY <1>1, <1>6, <1>7 DEF PaceTypes
  <2> QED BY <1>1, <1>2, <2>1 DEF PaceTypes
<1>9. Paced' /\ NoneYet'
  BY <1>2, <1>8, PaceStays
<1>10. vendor' = vendor /\ vendor' # "none" /\ Guarded' = Guarded /\ bucket' = bucket
  BY <1>1, <1>2 DEF OneTry, Guarded
<1> QED BY <1>2, <1>6, <1>7, <1>8, <1>9, <1>10, CallerKeeps

\* The only caller in a try refills what it saw, which is what there is.
LEMMA SeeKeeps ==
  ASSUME PaceInvariant, ~raced, NEW c \in Askers, SeeTokens(c)  PROVE PaceInvariant'
<1>1. PaceTypes /\ OneTry /\ tick \in Nat /\ asker[c] \in AskRow
  BY ProviderAssumption DEF PaceInvariant, PaceTypes
<1>2. /\ asker[c].at = "refill" /\ UNCHANGED <<vendor, granted, raced, tick>>
      /\ IF bucket'.tokens > 0 THEN asker' = [asker EXCEPT ![c].at = "take", ![c].saw = bucket'] ELSE Sleeps(c)
  BY DEF SeeTokens
<1>3. /\ asker[c].saw = bucket /\ ~Guarded /\ vendor # "none" /\ vendor' = vendor /\ Guarded' = Guarded
      /\ \A d \in Askers \ {c} : ~Trying(d)
  BY <1>1, <1>2 DEF OneTry, Trying, Guarded
<1>4. PICK b : b = Refilled(bucket)
  OBVIOUS
<1>5. /\ b \in BucketRow /\ b.tokens \in 0 .. MaxTokens /\ b.last \in 0 .. tick
      /\ b.last = bucket.last => b = bucket
  BY <1>1, <1>4, RefillFacts
<1>6. bucket' = b
  <2>1. PICK n \in {bucket.tokens, asker[c].saw.tokens} :
          LET e == Refilled([asker[c].saw EXCEPT !.tokens = n])
          IN  bucket' = IF e.last = asker[c].saw.last THEN bucket ELSE e
    BY DEF SeeTokens
  <2>2. [asker[c].saw EXCEPT !.tokens = n] = bucket
    BY <1>1, <1>3, <2>1 DEF PaceTypes, BucketRow
  <2> QED BY <1>3, <1>4, <1>5, <2>1, <2>2
<1>7. ASSUME NEW n \in AskRow, asker' = [asker EXCEPT ![c] = n], n.at \in {"take", "sleep"},
             n.at = "take" => n.saw = bucket' /\ bucket'.tokens > 0
      PROVE  PaceInvariant'
  <2>1. PaceTypes'
    <3>1. asker' \in [Askers -> AskRow]
      BY <1>1, <1>7 DEF PaceTypes
    <3> QED BY <1>1, <1>2, <1>5, <1>6, <3>1 DEF PaceTypes
  <2>2. Paced' /\ NoneYet'
    BY <1>2, <1>4, <1>6, <2>1, PaceStays
  <2>3. n.at # "refill" /\ (n.at = "take" => n.saw = bucket' /\ ~Guarded' /\ bucket'.tokens > 0)
    BY <1>3, <1>7
  <2> QED BY <1>3, <1>7, <2>1, <2>2, <2>3, CallerKeeps
<1>8. CASE bucket'.tokens > 0
  <2>1. PICK m : m = [asker[c] EXCEPT !.at = "take"]
    OBVIOUS
  <2>2. m \in AskRow /\ m.at = "take"
    BY <1>1, <2>1 DEF AskRow, AskStages
  <2>3. PICK n : n = [m EXCEPT !.saw = b]
    OBVIOUS
  <2>4. n \in AskRow /\ n.at = "take" /\ n.saw = b
    BY <1>5, <2>2, <2>3 DEF AskRow, AskStages
  <2>5. asker' = [asker EXCEPT ![c] = n]
    BY <1>1, <1>2, <1>6, <1>8, <2>1, <2>3 DEF PaceTypes
  <2> QED BY <1>6, <1>7, <1>8, <2>4, <2>5
<1>9. CASE ~(bucket'.tokens > 0)
  <2>1. PICK n : n = [NoAsk EXCEPT !.at = "sleep", !.timer = tick + Pause]
    OBVIOUS
  <2>2. n \in AskRow /\ n.at = "sleep"
    BY <1>1, <2>1, AskRows
  <2>3. asker' = [asker EXCEPT ![c] = n]
    BY <1>2, <1>9, <2>1 DEF Sleeps
  <2> QED BY <1>7, <2>2, <2>3
<1> QED BY <1>8, <1>9

\* It takes one of the tokens it saw.
LEMMA TakeKeeps ==
  ASSUME PaceInvariant, ~raced, NEW c \in Askers, TakeToken(c)  PROVE PaceInvariant'
<1>1. PaceTypes /\ OneTry /\ tick \in Nat /\ asker[c] \in AskRow
  BY ProviderAssumption DEF PaceInvariant, PaceTypes
<1>2. asker[c].at = "take" /\ Grants(c) /\ UNCHANGED <<vendor, raced, tick>>
  BY DEF TakeToken
<1>3. /\ asker[c].saw = bucket /\ vendor # "none" /\ vendor' = vendor /\ bucket.tokens > 0
      /\ \A d \in Askers \ {c} : ~Trying(d)
  BY <1>1, <1>2 DEF OneTry, Trying
<1>4. PICK n, e : n = [NoAsk EXCEPT !.at = "request"] /\ e = [bucket EXCEPT !.tokens = @ - 1]
  OBVIOUS
<1>5. n \in AskRow /\ n.at = "request"
  BY <1>1, <1>4, AskRows
<1>6. asker' = [asker EXCEPT ![c] = n] /\ granted' = [granted EXCEPT ![tick] = @ + 1] /\ bucket' = e
  BY <1>2, <1>3, <1>4 DEF Grants, TakeToken
<1>7. e \in BucketRow /\ e.tokens = bucket.tokens - 1 /\ e.last = bucket.last
  BY <1>1, <1>4 DEF BucketRow, PaceTypes
<1>8. e.tokens \in 0 .. MaxTokens
  BY <1>1, <1>3, <1>7, ProviderAssumption DEF PaceTypes
<1>9. PaceTypes'
  <2>1. asker' \in [Askers -> AskRow] /\ granted' \in [0 .. Ticks -> Nat]
    BY <1>1, <1>5, <1>6 DEF PaceTypes
  <2> QED BY <1>1, <1>2, <1>6, <1>7, <1>8, <2>1 DEF PaceTypes
<1>10. \A d \in Askers : asker'[d].at # "take"
  BY <1>1, <1>3, <1>5, <1>6 DEF Trying, PaceTypes
<1>11. bucket \in BucketRow /\ tick' = tick /\ bucket' = [bucket EXCEPT !.tokens = @ - 1]
  BY <1>1, <1>2, <1>4, <1>6 DEF PaceTypes
<1>12. \E d \in Askers : asker[d].at = "take"
  BY <1>2
<1>13. Paced' /\ NoneYet'
  BY <1>6, <1>9, <1>10, <1>11, <1>12, PaceGrants
<1> QED BY <1>3, <1>5, <1>6, <1>9, <1>13, CallerKeeps

\* Every step of the clients, of their limiter and of the clock keeps the invariant.
LEMMA ProvidersKept ==
  ASSUME PaceInvariant, [ProviderNext]_providerVars  PROVE PaceInvariant'
<1>1. CASE UNCHANGED providerVars
  BY <1>1 DEF providerVars, PaceInvariant, PaceTypes, OneTry, Trying, Guarded, NoneYet, Paced, PaceHolds, OpenAt,
              SharedOut, Fresh, LetThrough, PaceWindow
<1>2. CASE raced'
  BY <1>2 DEF PaceInvariant
<1>3. CASE ~raced' /\ ProviderNext
  <2>1. CASE raced
    <3>1. raced'
      BY <1>3, <2>1 DEF ProviderNext, Call, tryConsume, StartTry, SeeTokens, TakeToken, TryAgain, AskEnds, Tick
    <3> QED BY <1>3, <3>1
  <2>2. CASE ~raced
    BY <1>3, <2>2, PaceAges, CallsKeep, ConsumeKeeps, StartKeeps, SeeKeeps, TakeKeeps DEF ProviderNext
  <2> QED BY <2>1, <2>2
<1> QED BY <1>1, <1>2, <1>3

-----------------------------------------------------------------------------
(* Betting compliance: the stakes of a period against its limit.           *)

CheckStages == {"new", "day", "week", "month", "kyc", "age", "exclusion", "expire", "cooling", "passed", "refused", "placed"}
CheckRow == [at : CheckStages, amount : Nat, refused : BOOLEAN, blind : BOOLEAN, alone : BOOLEAN,
             kind : {"bet", "status", "report"}]
ComplianceTypes ==
  /\ check \in [Checks -> CheckRow] /\ staked \in [0 .. Halves -> Nat] /\ half \in 0 .. Halves

\* A check that has not begun has met nothing, one that passed is a bet's, and one that
\* is alone is the only one under way.
UnderWay(c) == InFlight(c) \/ check[c].at = "passed"
ChecksOrdered == \A c \in Checks :
  /\ check[c].at = "new" => check[c].alone /\ ~check[c].blind
  /\ check[c].at = "passed" => OfBet(c) /\ ~check[c].refused
  /\ check[c].alone /\ UnderWay(c) => \A d \in Checks \ {c} : ~UnderWay(d)

\* A bet that is not refused fits the limits read so far.
Room(c, period) == StakedSince(Begins(period)) + check[c].amount <= Limits[period]
PastDay == {"week", "month", "kyc", "age", "exclusion", "expire", "cooling", "passed"}
PastMonth == {"kyc", "age", "exclusion", "expire", "cooling", "passed"}
BetFits(c) == OfBet(c) /\ ~check[c].refused =>
  /\ check[c].at \in PastDay => Room(c, "day")
  /\ check[c].at \in PastMonth => Room(c, "month")
AllApart == \A c \in Checks : OfBet(c) => check[c].alone /\ ~check[c].blind
WithinLimits ==
  /\ StakedSince(Begins("day")) <= Limits["day"]
  /\ StakedSince(Begins("month")) <= Limits["month"]
LimitsHeld == AllApart => WithinLimits /\ \A c \in Checks : BetFits(c)
ComplianceInvariant == ComplianceTypes /\ ChecksOrdered /\ LimitsHeld

\* Whole periods of n days up to a day: what day - day % n counts, which grows with the day.
LEMMA WholePeriods ==
  ASSUME NEW n \in Nat \ {0}, NEW d \in Nat, NEW e \in Nat, d <= e
  PROVE  /\ d - (d % n) \in Nat /\ d - (d % n) <= d
         /\ d - (d % n) <= e - (e % n)
<1> DEFINE q == d \div n
           r == e \div n
<1>1. /\ q \in Nat /\ d = q * n + (d % n) /\ (d % n) \in 0 .. (n - 1)
      /\ r \in Nat /\ e = r * n + (e % n) /\ (e % n) \in 0 .. (n - 1)
  OBVIOUS
<1>2. q * n \in Nat /\ r * n \in Nat
  BY <1>1
<1>3. d - (d % n) = q * n /\ e - (e % n) = r * n
  BY <1>1, <1>2
<1> HIDE DEF q, r
<1>4. q * n <= r * n
  <2>1. CASE q <= r
    BY <1>1, <2>1
  <2>2. CASE r + 1 <= q
    <3>1. (r + 1) * n <= q * n
      BY <1>1, <2>2
    <3>2. (r + 1) * n = r * n + n
      BY <1>1
    <3> QED BY <1>1, <1>2, <3>1, <3>2
  <2> QED BY <1>1, <2>1, <2>2
<1> QED BY <1>1, <1>2, <1>3, <1>4

\* The last midnight of a clock that is z half days behind, if there was one yet.
LastMidnight(z, n) == IF n < z THEN 0 ELSE z + 2 * ((n - z) \div 2)
LEMMA LastMidnights ==
  ASSUME NEW z \in {0, 1}, NEW g \in Nat, NEW h \in Nat, g <= h
  PROVE  LastMidnight(z, g) \in 0 .. g /\ LastMidnight(z, g) <= LastMidnight(z, h) /\ LastMidnight(z, h) \in Nat
<1>1. ASSUME NEW n \in Nat, z <= n
      PROVE  /\ LastMidnight(z, n) \in Nat /\ LastMidnight(z, n) <= n
             /\ \E c \in Nat : LastMidnight(z, n) = z + 2 * c /\ n <= z + 2 * c + 1
  <2>1. n - z \in Nat
    BY <1>1
  <2>2. PICK a \in Nat : a = n - z
    BY <2>1
  <2>3. PICK c \in Nat : c = a \div 2 /\ 2 * c <= a /\ a <= 2 * c + 1
    OBVIOUS
  <2>4. LastMidnight(z, n) = z + 2 * c
    BY <1>1, <2>2, <2>3 DEF LastMidnight
  <2>5. z \in Nat
    OBVIOUS
  <2> QED BY <1>1, <2>2, <2>3, <2>4, <2>5
<1>2. ASSUME NEW n \in Nat, n < z  PROVE LastMidnight(z, n) = 0
  BY <1>2 DEF LastMidnight
<1>3. CASE z <= g
  <2>1. PICK c \in Nat : LastMidnight(z, g) = z + 2 * c /\ z + 2 * c <= g
    BY <1>1, <1>3
  <2>2. z <= h
    BY <1>3
  <2>3. PICK f \in Nat : LastMidnight(z, h) = z + 2 * f /\ h <= z + 2 * f + 1
    BY <1>1, <2>2
  <2>4. z \in Nat /\ c <= f
    BY <2>1, <2>3
  <2> QED BY <2>1, <2>3, <2>4
<1>4. CASE g < z
  <2>1. LastMidnight(z, g) = 0 /\ LastMidnight(z, h) \in Nat
    <3>1. z <= h \/ h < z
      OBVIOUS
    <3>2. LastMidnight(z, h) \in Nat
      BY <1>1, <1>2, <3>1
    <3> QED BY <1>2, <1>4, <3>2
  <2> QED BY <2>1
<1> QED BY <1>3, <1>4

\* A day and a month began before now, and begin no earlier as time goes on.
LEMMA Beginnings ==
  ASSUME ComplianceTypes, half' \in {half, half + 1}, NEW p \in {"day", "month"}
  PROVE  Begins(p) \in 0 .. half /\ Begins(p) <= Begins(p)' /\ Begins(p)' \in Nat
<1>0. /\ WeekDays \in Nat \ {0} /\ MonthDays \in Nat \ {0} /\ Halves \in Nat /\ half \in Nat
  BY ComplianceAssumption DEF ComplianceTypes
<1>1. PICK d, e : d = half \div 2 /\ e = half' \div 2
  OBVIOUS
<1>2. d \in Nat /\ e \in Nat /\ d <= e /\ 2 * d <= half
  <2>1. half' \in Nat /\ half <= half'
    BY <1>0
  <2>2. \A n \in Nat : n \div 2 \in Nat /\ 2 * (n \div 2) <= n /\ n <= 2 * (n \div 2) + 1
    OBVIOUS
  <2>3. d \in Nat /\ 2 * d <= half /\ half <= 2 * d + 1 /\ e \in Nat /\ 2 * e <= half' /\ half' <= 2 * e + 1
    BY <1>0, <1>1, <2>1, <2>2
  <2> QED BY <1>0, <2>1, <2>3
<1>3. ASSUME NEW n \in Nat \ {0}
      PROVE  /\ 2 * (d - (d % n)) \in 0 .. half /\ 2 * (d - (d % n)) <= 2 * (e - (e % n))
             /\ 2 * (e - (e % n)) \in Nat
  <2>1. /\ d - (d % n) \in Nat /\ d - (d % n) <= d /\ d - (d % n) <= e - (e % n) /\ e - (e % n) \in Nat
    BY <1>2, WholePeriods
  <2> QED BY <1>0, <1>2, <2>1
<1>4. CASE p = "day"
  <2>1. Zone \in {0, 1}
    BY ComplianceAssumption
  <2>2. Begins(p) = LastMidnight(Zone, half) /\ Begins(p)' = LastMidnight(Zone, half')
    BY <1>4 DEF Begins, UTCMidnight, LastMidnight
  <2>3. half \in Nat /\ half' \in Nat /\ half <= half'
    BY <1>0
  <2> QED BY <2>1, <2>2, <2>3, LastMidnights
<1>5. CASE p = "month"
  <2>1. Begins(p) = 2 * (d - (d % MonthDays)) /\ Begins(p)' = 2 * (e - (e % MonthDays))
    BY <1>1, <1>5 DEF Begins, Midnight
  <2> QED BY <1>0, <1>3, <2>1
<1> QED BY <1>4, <1>5


\* The half days since one.
Since(h) == {i \in 0 .. Halves : i >= h}
\* The stakes since a half day are a finite sum of natural numbers.
LEMMA SinceFinite ==
  ASSUME staked \in [0 .. Halves -> Nat], NEW h
  PROVE  /\ IsFiniteSet(Since(h)) /\ Since(h) \subseteq 0 .. Halves /\ IsIntOn(staked, Since(h))
         /\ StakedSince(h) = Sum(staked, Since(h)) /\ StakedSince(h) \in Nat
<1>1. IsFiniteSet(0 .. Halves)
  BY FS_Interval, ComplianceAssumption
<1>2. Since(h) \subseteq 0 .. Halves
  BY DEF Since
<1>3. IsFiniteSet(Since(h)) /\ \A i \in Since(h) : staked[i] \in Nat
  BY <1>1, <1>2, FS_Subset
<1>4. StakedSince(h) = Sum(staked, Since(h))
  BY DEF StakedSince, Since, Sum
<1>5. Sum(staked, Since(h)) \in Nat
  BY <1>3, SumNat
<1> QED BY <1>2, <1>3, <1>4, <1>5 DEF IsIntOn

\* Less was staked since a later time.
LEMMA LaterLess ==
  ASSUME staked \in [0 .. Halves -> Nat], NEW g \in Nat, NEW h \in Nat, g <= h
  PROVE  StakedSince(h) <= StakedSince(g)
<1>1. Since(h) \subseteq Since(g)
  BY ComplianceAssumption DEF Since
<1>2. Sum(staked, Since(g)) = Sum(staked, Since(h)) + Sum(staked, Since(g) \ Since(h))
  BY <1>1, SinceFinite, SumSplit
<1>3. IsFiniteSet(Since(g) \ Since(h)) /\ \A i \in Since(g) \ Since(h) : staked[i] \in Nat
  BY SinceFinite, FS_Subset
<1>4. Sum(staked, Since(g) \ Since(h)) \in Nat
  BY <1>3, SumNat
<1> QED BY <1>2, <1>4, SinceFinite

\* A stake of now counts in every period that has begun.
LEMMA StakeCounts ==
  ASSUME staked \in [0 .. Halves -> Nat], half \in 0 .. Halves, NEW a \in Nat, staked' = [staked EXCEPT ![half] = @ + a],
         NEW h \in 0 .. half
  PROVE  StakedSince(h)' = StakedSince(h) + a
<1>1. PICK f, g, x : f = staked /\ g = staked' /\ x = half
  OBVIOUS
<1>2. PICK S : S = Since(h)
  OBVIOUS
<1>3. IsFiniteSet(S) /\ IsIntOn(f, S) /\ StakedSince(h) = Sum(f, S) /\ S \subseteq 0 .. Halves /\ Sum(f, S) \in Nat
  BY <1>1, <1>2, SinceFinite
<1>4. x \in S
  BY <1>1, <1>2, ComplianceAssumption DEF Since
<1>5. g[x] = f[x] + a /\ g[x] \in Int /\ f[x] \in Nat /\ \A i \in S \ {x} : g[i] = f[i]
  BY <1>1, <1>3
<1>6. Sum(g, S) = Sum(f, S) + (g[x] - f[x])
  BY <1>3, <1>4, <1>5, SumUpdate
<1>7. StakedSince(h)' = Sum(g, S)
  BY <1>1, <1>2 DEF StakedSince, Since, Sum
<1> QED BY <1>3, <1>5, <1>6, <1>7

\* Nothing staked and no check begun.
LEMMA ComplianceAtFirst == ComplianceInit => ComplianceInvariant
<1> SUFFICES ASSUME ComplianceInit  PROVE ComplianceInvariant
  OBVIOUS
<1>1. /\ staked = [h \in 0 .. Halves |-> 0] /\ check = [c \in Checks |-> NoCheck] /\ half = 0
      /\ NoCheck = [at |-> "new", amount |-> 0, refused |-> FALSE, blind |-> FALSE, alone |-> TRUE, kind |-> "bet"]
  BY DEF ComplianceInit, NoCheck
<1>2. ComplianceTypes
  <2>1. NoCheck \in CheckRow
    BY <1>1 DEF CheckRow, CheckStages
  <2> QED BY <1>1, <2>1, ComplianceAssumption DEF ComplianceTypes
<1>3. ChecksOrdered
  BY <1>1 DEF ChecksOrdered, UnderWay, InFlight
<1>4. \A h : StakedSince(h) = 0
  <2> SUFFICES ASSUME NEW h  PROVE StakedSince(h) = 0
    OBVIOUS
  <2>1. IsFiniteSet(Since(h)) /\ Since(h) \subseteq 0 .. Halves /\ StakedSince(h) = Sum(staked, Since(h))
    BY <1>2, SinceFinite DEF ComplianceTypes
  <2>2. \A i \in Since(h) : staked[i] = 0
    BY <1>1, <2>1
  <2> QED BY <2>1, <2>2, SumZero
<1>5. WithinLimits
  <2>1. Limits["day"] \in Nat /\ Limits["month"] \in Nat
    BY ComplianceAssumption
  <2> QED BY <1>4, <2>1 DEF WithinLimits
<1>6. \A c \in Checks : BetFits(c)
  BY <1>1 DEF BetFits, PastDay, PastMonth
<1> QED BY <1>2, <1>3, <1>5, <1>6 DEF ComplianceInvariant, LimitsHeld

\* What no stake and no time changes.
LEMMA RoomStays ==
  ASSUME UNCHANGED <<staked, half>>
  PROVE  /\ \A p : StakedSince(Begins(p))' = StakedSince(Begins(p))
         /\ WithinLimits' = WithinLimits
<1>1. \A p : StakedSince(Begins(p))' = StakedSince(Begins(p))
  BY DEF StakedSince, Begins, Midnight, UTCMidnight
<1> QED BY <1>1 DEF WithinLimits

\* The next step of a check under way that stakes nothing.
LEMMA CheckMoves ==
  ASSUME ComplianceInvariant, NEW c \in Checks, UnderWay(c), UNCHANGED <<staked, half>>,
         NEW n \in CheckRow, check' = [check EXCEPT ![c] = n], n.at # "new",
         n.kind = check[c].kind, n.alone = check[c].alone, check[c].blind => n.blind,
         n.at = "passed" => n.kind = "bet" /\ ~n.refused,
         BetFits(c) /\ (OfBet(c) => ~n.blind) => BetFits(c)'
  PROVE  ComplianceInvariant'
<1>1. ComplianceTypes /\ ChecksOrdered /\ LimitsHeld
  BY DEF ComplianceInvariant
<1>2. check'[c] = n /\ \A d \in Checks \ {c} : check'[d] = check[d]
  BY <1>1 DEF ComplianceTypes
<1>3. ComplianceTypes'
  BY <1>1 DEF ComplianceTypes
<1>4. \A d \in Checks \ {c} : UnderWay(d)' = UnderWay(d) /\ OfBet(d)' = OfBet(d)
  BY <1>2 DEF UnderWay, InFlight, OfBet
<1>5. OfBet(c)' = OfBet(c)
  BY <1>2 DEF OfBet
<1>6. ChecksOrdered'
  <2> SUFFICES ASSUME NEW d \in Checks
               PROVE  /\ check'[d].at = "new" => check'[d].alone /\ ~check'[d].blind
                      /\ check'[d].at = "passed" => OfBet(d)' /\ ~check'[d].refused
                      /\ check'[d].alone /\ UnderWay(d)' => \A e \in Checks \ {d} : ~UnderWay(e)'
    BY DEF ChecksOrdered
  <2>1. CASE d = c
    BY <1>1, <1>2, <1>4, <1>5, <2>1 DEF ChecksOrdered, OfBet
  <2>2. CASE d # c
    BY <1>1, <1>2, <1>4, <2>2 DEF ChecksOrdered
  <2> QED BY <2>1, <2>2
<1>7. LimitsHeld'
  <2> SUFFICES ASSUME AllApart'  PROVE WithinLimits' /\ \A d \in Checks : BetFits(d)'
    BY DEF LimitsHeld
  <2>1. AllApart
    BY <1>2, <1>4, <1>5 DEF AllApart
  <2>2. WithinLimits' /\ \A d \in Checks : BetFits(d)
    BY <1>1, <2>1, RoomStays DEF LimitsHeld
  <2>3. ASSUME NEW d \in Checks \ {c}  PROVE BetFits(d)'
    <3>1. Room(d, "day")' = Room(d, "day") /\ Room(d, "month")' = Room(d, "month")
      BY <1>2, RoomStays DEF Room
    <3> QED BY <1>2, <1>4, <2>2, <3>1 DEF BetFits
  <2>4. OfBet(c) => ~n.blind
    BY <1>2, <1>5 DEF AllApart
  <2> QED BY <2>2, <2>3, <2>4
<1> QED BY <1>3, <1>6, <1>7 DEF ComplianceInvariant

\* A read that ends well adds what it found; one that fails closed refuses, one that
\* fails open leaves the check blind.
LEMMA ReadMoves ==
  ASSUME ComplianceInvariant, NEW c \in Checks, NEW at, NEW next \in CheckStages \ {"new", "passed"}, NEW bad, NEW open,
         at \notin {"new", "refused", "placed"}, Reads(c, at, next, bad, open),
         next \in PastDay => check[c].at \in PastDay \/ (open /\ (~bad => Room(c, "day"))),
         next \in PastMonth => check[c].at \in PastMonth \/ (open /\ (~bad => Room(c, "month")))
  PROVE  ComplianceInvariant'
<1>1. ComplianceTypes /\ check[c] \in CheckRow /\ check[c].at = at /\ UNCHANGED <<staked, half>>
  BY DEF ComplianceInvariant, ComplianceTypes, Reads
<1>2. PICK failed \in BOOLEAN :
       check' = [check EXCEPT ![c].at = next, ![c].blind = @ \/ (failed /\ open),
                              ![c].refused = @ \/ (IF failed THEN ~open ELSE bad)]
  BY DEF Reads
<1>3. PICK blind, refused \in BOOLEAN :
        /\ blind = (check[c].blind \/ (failed /\ open))
        /\ refused = (check[c].refused \/ (IF failed THEN ~open ELSE bad))
  OBVIOUS
<1>4. PICK k : k = [check[c] EXCEPT !.at = next]
  OBVIOUS
<1>5. PICK m : m = [k EXCEPT !.blind = blind]
  OBVIOUS
<1>6. PICK n : n = [m EXCEPT !.refused = refused]
  OBVIOUS
<1>7. /\ k \in CheckRow /\ k.at = next /\ k.amount = check[c].amount /\ k.kind = check[c].kind
      /\ k.alone = check[c].alone /\ k.blind = check[c].blind /\ k.refused = check[c].refused
  BY <1>1, <1>4 DEF CheckRow
<1>8. /\ m \in CheckRow /\ m.at = next /\ m.amount = check[c].amount /\ m.kind = check[c].kind
      /\ m.alone = check[c].alone /\ m.blind = blind /\ m.refused = check[c].refused
  BY <1>5, <1>7 DEF CheckRow
<1>9. /\ n \in CheckRow /\ n.at = next /\ n.amount = check[c].amount /\ n.kind = check[c].kind
      /\ n.alone = check[c].alone /\ n.blind = blind /\ n.refused = refused
  BY <1>6, <1>8 DEF CheckRow
<1>10. check' = [check EXCEPT ![c] = n]
  BY <1>1, <1>2, <1>3, <1>4, <1>5, <1>6, <1>7, <1>8 DEF ComplianceTypes
<1>11. check'[c] = n
  BY <1>1, <1>10 DEF ComplianceTypes
<1>12. UnderWay(c)
  BY <1>1 DEF UnderWay, InFlight
<1>13. ASSUME BetFits(c), OfBet(c) => ~n.blind  PROVE BetFits(c)'
  <2> SUFFICES ASSUME OfBet(c), ~refused
               PROVE  (next \in PastDay => Room(c, "day")') /\ (next \in PastMonth => Room(c, "month")')
    BY <1>9, <1>11 DEF BetFits, OfBet
  <2>1. \A p : Room(c, p)' = Room(c, p)
    BY <1>1, <1>9, <1>11, RoomStays DEF Room
  <2>2. ~check[c].refused /\ (open => ~bad)
    BY <1>3, <1>9, <1>13
  <2> QED BY <1>13, <2>1, <2>2 DEF BetFits
<1> QED BY <1>1, <1>3, <1>9, <1>10, <1>12, <1>13, CheckMoves

\* The checks of the limits, of the KYC level, of the age and of the exclusion each read
\* one thing and move on, whatever they found.
LEMMA ReadsKeep ==
  ASSUME ComplianceInvariant, NEW c \in Checks, ReadStakes(c) \/ ReadKYC(c) \/ isAgeVerified(c) \/ isSelfExcluded(c)
  PROVE  ComplianceInvariant'
<1>1. ASSUME NEW p \in {"day", "month"}  PROVE ~WouldExceed(p, check[c].amount) => Room(c, p)
  <2>1. StakedSince(Begins(p)) \in Nat /\ check[c].amount \in Nat /\ Limits[p] \in Nat
    BY SinceFinite, ComplianceAssumption DEF ComplianceInvariant, ComplianceTypes, CheckRow
  <2> QED BY <2>1 DEF WouldExceed, Room
<1>2. ASSUME NEW at, NEW next, NEW bad, NEW open, Reads(c, at, next, bad, open)  PROVE check[c].at = at
  BY <1>2 DEF Reads
<1> USE DEF PastDay, PastMonth, CheckStages
<1>3. CASE Reads(c, "day", "week", WouldExceed("day", check[c].amount), TRUE)
  BY <1>1, <1>3, ReadMoves
<1>4. CASE Reads(c, "week", "month", WouldExceed("week", check[c].amount), TRUE)
  BY <1>2, <1>4, ReadMoves
<1>5. CASE Reads(c, "month", "kyc", WouldExceed("month", check[c].amount), TRUE)
  BY <1>1, <1>2, <1>5, ReadMoves
<1>6. CASE ReadKYC(c)
  <2> DEFINE next == IF OfBet(c) THEN "age" ELSE "exclusion"
             bad == ~isKYCCompliant
  <2>1. Reads(c, "kyc", next, bad, FALSE) /\ next \in {"age", "exclusion"}
    BY <1>6 DEF ReadKYC
  <2> HIDE DEF next, bad
  <2> QED BY <1>2, <2>1, ReadMoves
<1>7. CASE isAgeVerified(c)
  <2> DEFINE next == IF OfBet(c) THEN "exclusion" ELSE "kyc"
             bad == ~person.adult
  <2>1. Reads(c, "age", next, bad, FALSE) /\ next \in {"exclusion", "kyc"}
    BY <1>7 DEF isAgeVerified
  <2> HIDE DEF next, bad
  <2> QED BY <1>2, <2>1, ReadMoves
<1>8. CASE isSelfExcluded(c)
  <2> DEFINE bad == person.excluded = "running"
  <2>1. Reads(c, "exclusion", "expire", FALSE, TRUE) \/ Reads(c, "exclusion", "cooling", bad, TRUE)
    BY <1>8 DEF isSelfExcluded
  <2> HIDE DEF bad
  <2>2. CASE Reads(c, "exclusion", "expire", FALSE, TRUE)
    BY <1>2, <2>2, ReadMoves
  <2>3. CASE Reads(c, "exclusion", "cooling", bad, TRUE)
    BY <1>2, <2>3, ReadMoves
  <2> QED BY <2>1, <2>2, <2>3
<1> QED BY <1>3, <1>4, <1>5, <1>6, <1>7, <1>8 DEF ReadStakes

\* The check ends, or the exclusion it found over is overwritten.
LEMMA EndsKeep ==
  ASSUME ComplianceInvariant, NEW c \in Checks, ExpireExclusion(c) \/ EndCheck(c)  PROVE ComplianceInvariant'
<1>1. /\ ComplianceTypes /\ check[c] \in CheckRow /\ UNCHANGED <<staked, half>> /\ UnderWay(c)
      /\ check[c].at \in {"expire", "cooling"}
  BY DEF ComplianceInvariant, ComplianceTypes, ExpireExclusion, EndCheck, UnderWay, InFlight
<1>2. CASE ExpireExclusion(c)
  <2>1. PICK n : n = [check[c] EXCEPT !.at = "cooling"]
    OBVIOUS
  <2>2. /\ n \in CheckRow /\ n.at = "cooling" /\ n.amount = check[c].amount /\ n.kind = check[c].kind
        /\ n.alone = check[c].alone /\ n.blind = check[c].blind /\ n.refused = check[c].refused
    BY <1>1, <2>1 DEF CheckRow, CheckStages
  <2>3. check' = [check EXCEPT ![c] = n] /\ check'[c] = n
    BY <1>1, <1>2, <2>1 DEF ExpireExclusion, ComplianceTypes
  <2>4. BetFits(c) => BetFits(c)'
    <3>1. \A p : Room(c, p)' = Room(c, p)
      BY <1>1, <2>2, <2>3, RoomStays DEF Room
    <3> QED BY <1>1, <2>2, <2>3, <3>1 DEF BetFits, OfBet, PastDay, PastMonth
  <2> QED BY <1>1, <2>2, <2>3, <2>4, CheckMoves
<1>3. CASE EndCheck(c)
  <2>1. PICK cooling \in isInCoolingOffPeriod :
          LET no == check[c].refused \/ (cooling = "yes" /\ OfBet(c))
          IN  check' = [check EXCEPT ![c].refused = no, ![c].at =
                IF no THEN "refused" ELSE IF OfBet(c) THEN "passed" ELSE "placed"]
    BY <1>3 DEF EndCheck
  <2>2. PICK no \in BOOLEAN : no = (check[c].refused \/ (cooling = "yes" /\ OfBet(c)))
    OBVIOUS
  <2>3. PICK at : at = IF no THEN "refused" ELSE IF OfBet(c) THEN "passed" ELSE "placed"
    OBVIOUS
  <2>4. PICK m : m = [check[c] EXCEPT !.refused = no]
    OBVIOUS
  <2>5. PICK n : n = [m EXCEPT !.at = at]
    OBVIOUS
  <2>6. /\ m \in CheckRow /\ m.refused = no /\ m.amount = check[c].amount /\ m.kind = check[c].kind
        /\ m.alone = check[c].alone /\ m.blind = check[c].blind
    BY <1>1, <2>4 DEF CheckRow
  <2>7. /\ n \in CheckRow /\ n.at = at /\ n.refused = no /\ n.amount = check[c].amount /\ n.kind = check[c].kind
        /\ n.alone = check[c].alone /\ n.blind = check[c].blind
    BY <2>3, <2>5, <2>6 DEF CheckRow, CheckStages
  <2>8. check' = [check EXCEPT ![c] = n]
    BY <1>1, <2>1, <2>2, <2>3, <2>4, <2>5 DEF ComplianceTypes
  <2>9. check'[c] = n
    BY <1>1, <2>8 DEF ComplianceTypes
  <2>10. at \in {"refused", "passed", "placed"} /\ (at = "passed" => n.kind = "bet" /\ ~n.refused)
    BY <2>3, <2>7 DEF OfBet
  <2>11. BetFits(c) => BetFits(c)'
    <3>1. \A p : Room(c, p)' = Room(c, p)
      BY <1>1, <2>7, <2>9, RoomStays DEF Room
    <3> QED BY <1>1, <2>2, <2>7, <2>9, <2>10, <3>1 DEF BetFits, OfBet, PastDay, PastMonth
  <2> QED BY <1>1, <2>7, <2>8, <2>10, <2>11, CheckMoves
<1> QED BY <1>2, <1>3

\* A check that begins while another is under way leaves neither alone.
LEMMA StartChecks ==
  ASSUME ComplianceInvariant, NEW c \in Checks, StartCheck(c)  PROVE ComplianceInvariant'
<1>1. ComplianceTypes /\ ChecksOrdered /\ LimitsHeld /\ check[c].at = "new" /\ UNCHANGED <<staked, half>>
  BY DEF ComplianceInvariant, StartCheck
<1>2. PICK a \in Wagers, refused \in BOOLEAN, k \in {"bet", "status"} :
       LET others == {d \in Checks : InFlight(d) \/ check[d].at = "passed"}
       IN  /\ k = "status" => ~refused
           /\ k = "bet" => a > 0
           /\ check' = [d \in Checks |->
                IF d = c THEN [at |-> IF k = "bet" THEN "day" ELSE "age", amount |-> a, kind |-> k,
                               refused |-> refused \/ a > MaxBetPerEvent, blind |-> FALSE,
                               alone |-> others = {}]
                ELSE [check[d] EXCEPT !.alone = @ /\ d \notin others]]
  BY DEF StartCheck
<1>3. PICK none \in BOOLEAN, no \in BOOLEAN :
        none = (\A d \in Checks : ~UnderWay(d)) /\ no = (refused \/ a > MaxBetPerEvent)
  OBVIOUS
<1>4. PICK n : n = [at |-> IF k = "bet" THEN "day" ELSE "age", amount |-> a, kind |-> k, refused |-> no,
                    blind |-> FALSE, alone |-> none]
  OBVIOUS
<1>5. n \in CheckRow /\ n.at \in {"day", "age"} /\ n.kind = k /\ n.alone = none /\ ~n.blind /\ (k = "bet" => n.at = "day")
  BY <1>4, ComplianceAssumption DEF CheckRow, CheckStages
<1>6. check'[c] = n
  <2>1. ({d \in Checks : InFlight(d) \/ check[d].at = "passed"} = {}) = none
    BY <1>3 DEF UnderWay
  <2> QED BY <1>2, <1>3, <1>4, <2>1
<1>7. ASSUME NEW d \in Checks, d # c
      PROVE  /\ check'[d] \in CheckRow /\ check'[d].at = check[d].at /\ check'[d].kind = check[d].kind
             /\ check'[d].amount = check[d].amount /\ check'[d].refused = check[d].refused
             /\ check'[d].blind = check[d].blind
             /\ check'[d].alone = (check[d].alone /\ ~UnderWay(d))
  <2>1. PICK alone \in BOOLEAN : alone = (check[d].alone /\ ~UnderWay(d))
    OBVIOUS
  <2>2. check'[d] = [check[d] EXCEPT !.alone = alone]
    BY <1>2, <1>7, <2>1 DEF UnderWay
  <2>3. check[d] \in CheckRow
    BY <1>1 DEF ComplianceTypes
  <2> QED BY <2>1, <2>2, <2>3 DEF CheckRow
<1>8. ComplianceTypes'
  <2>1. check' \in [Checks -> CheckRow]
    <3>1. check' = [d \in Checks |-> check'[d]]
      BY <1>2
    <3> QED BY <1>5, <1>6, <1>7, <3>1
  <2> QED BY <1>1, <2>1 DEF ComplianceTypes
<1>9. \A d \in Checks \ {c} : UnderWay(d)' = UnderWay(d)
  BY <1>7 DEF UnderWay, InFlight
<1>10. ~UnderWay(c) /\ UnderWay(c)'
  BY <1>1, <1>5, <1>6 DEF UnderWay, InFlight
<1>11. ChecksOrdered'
  <2> SUFFICES ASSUME NEW d \in Checks
               PROVE  /\ check'[d].at = "new" => check'[d].alone /\ ~check'[d].blind
                      /\ check'[d].at = "passed" => OfBet(d)' /\ ~check'[d].refused
                      /\ check'[d].alone /\ UnderWay(d)' => \A e \in Checks \ {d} : ~UnderWay(e)'
    BY DEF ChecksOrdered
  <2>1. CASE d = c
    BY <1>3, <1>5, <1>6, <1>9, <2>1
  <2>2. CASE d # c
    <3>1. check'[d].at = "new" => ~UnderWay(d)
      BY <1>7, <2>2 DEF UnderWay, InFlight
    <3>2. check'[d].at = "new" => check[d].alone /\ ~check[d].blind
      BY <1>1, <1>7, <2>2 DEF ChecksOrdered
    <3>3. check'[d].at = "passed" => OfBet(d)' /\ ~check'[d].refused
      BY <1>1, <1>7, <2>2 DEF ChecksOrdered, OfBet
    <3> QED BY <1>7, <1>9, <2>2, <3>1, <3>2, <3>3
  <2> QED BY <2>1, <2>2
<1>12. LimitsHeld'
  <2> SUFFICES ASSUME AllApart'  PROVE WithinLimits' /\ \A d \in Checks : BetFits(d)'
    BY DEF LimitsHeld
  <2>1. AllApart
    <3> SUFFICES ASSUME NEW d \in Checks, OfBet(d)  PROVE check[d].alone /\ ~check[d].blind
      BY DEF AllApart
    <3>1. CASE d = c
      BY <1>1, <3>1 DEF ChecksOrdered
    <3>2. CASE d # c
      BY <1>7, <3>2 DEF AllApart, OfBet
    <3> QED BY <3>1, <3>2
  <2>2. WithinLimits' /\ \A d \in Checks : BetFits(d)
    BY <1>1, <2>1, RoomStays DEF LimitsHeld
  <2>3. ASSUME NEW d \in Checks \ {c}  PROVE BetFits(d)'
    <3>1. \A p : Room(d, p)' = Room(d, p)
      BY <1>1, <1>7, RoomStays DEF Room
    <3> QED BY <1>7, <2>2, <3>1 DEF BetFits, OfBet
  <2>4. BetFits(c)'
    BY <1>5, <1>6 DEF BetFits, OfBet, PastDay, PastMonth
  <2> QED BY <2>2, <2>3, <2>4
<1> QED BY <1>8, <1>11, <1>12 DEF ComplianceInvariant

\* A report takes no part in the limits.
LEMMA ReportsKeep ==
  ASSUME ComplianceInvariant, NEW c \in Checks, Report(c)  PROVE ComplianceInvariant'
<1>1. ComplianceTypes /\ ChecksOrdered /\ LimitsHeld /\ check[c].at = "new" /\ UNCHANGED <<staked, half>>
      /\ check[c] \in CheckRow
  BY DEF ComplianceInvariant, Report, ComplianceTypes
<1>2. PICK at \in {"refused", "placed"} : check' = [check EXCEPT ![c].at = at, ![c].kind = "report"]
  BY DEF Report
<1>3. PICK m : m = [check[c] EXCEPT !.at = at]
  OBVIOUS
<1>4. PICK n : n = [m EXCEPT !.kind = "report"]
  OBVIOUS
<1>5. m \in CheckRow /\ m.at = at
  BY <1>1, <1>3 DEF CheckRow, CheckStages
<1>6. n \in CheckRow /\ n.at = at /\ n.kind = "report"
  BY <1>4, <1>5 DEF CheckRow
<1>7. check' = [check EXCEPT ![c] = n]
  BY <1>1, <1>2, <1>3, <1>4 DEF ComplianceTypes
<1>8. check'[c] = n /\ \A d \in Checks \ {c} : check'[d] = check[d]
  BY <1>1, <1>7 DEF ComplianceTypes
<1>9. ComplianceTypes'
  BY <1>1, <1>6, <1>7 DEF ComplianceTypes
<1>10. /\ \A d \in Checks \ {c} : UnderWay(d)' = UnderWay(d) /\ OfBet(d)' = OfBet(d)
       /\ ~UnderWay(c)' /\ ~OfBet(c)'
  BY <1>6, <1>8 DEF UnderWay, InFlight, OfBet
<1>11. ChecksOrdered'
  BY <1>1, <1>6, <1>8, <1>10 DEF ChecksOrdered
<1>12. LimitsHeld'
  <2> SUFFICES ASSUME AllApart'  PROVE WithinLimits' /\ \A d \in Checks : BetFits(d)'
    BY DEF LimitsHeld
  <2>1. AllApart
    BY <1>1, <1>8, <1>10 DEF AllApart, ChecksOrdered
  <2>2. WithinLimits' /\ \A d \in Checks : BetFits(d)
    BY <1>1, <2>1, RoomStays DEF LimitsHeld
  <2>3. ASSUME NEW d \in Checks \ {c}  PROVE BetFits(d)'
    <3>1. \A p : Room(d, p)' = Room(d, p)
      BY <1>1, <1>8, RoomStays DEF Room
    <3> QED BY <1>8, <1>10, <2>2, <3>1 DEF BetFits
  <2> QED BY <1>10, <2>2, <2>3 DEF BetFits
<1> QED BY <1>9, <1>11, <1>12 DEF ComplianceInvariant

\* The stake of the bet that passed still fits: nothing was staked since its check.
LEMMA PlacingKeeps ==
  ASSUME ComplianceInvariant, NEW c \in Checks, PlaceChecked(c)  PROVE ComplianceInvariant'
<1>1. /\ ComplianceTypes /\ ChecksOrdered /\ LimitsHeld /\ check[c] \in CheckRow /\ check[c].at = "passed"
      /\ half' = half /\ staked' = [staked EXCEPT ![half] = @ + check[c].amount]
      /\ check' = [check EXCEPT ![c].at = "placed"]
  BY DEF ComplianceInvariant, ComplianceTypes, PlaceChecked
<1>2. PICK n, a : n = [check[c] EXCEPT !.at = "placed"] /\ a = check[c].amount
  OBVIOUS
<1>3. n \in CheckRow /\ n.at = "placed" /\ n.kind = check[c].kind /\ n.alone = check[c].alone /\ n.blind = check[c].blind
      /\ a \in Nat
  BY <1>1, <1>2 DEF CheckRow, CheckStages
<1>4. check' = [check EXCEPT ![c] = n]
  BY <1>1, <1>2
<1>5. check'[c] = n /\ \A d \in Checks \ {c} : check'[d] = check[d]
  BY <1>1, <1>4 DEF ComplianceTypes
<1>6. ComplianceTypes'
  <2>1. check' \in [Checks -> CheckRow] /\ staked' \in [0 .. Halves -> Nat]
    BY <1>1, <1>2, <1>3, <1>4 DEF ComplianceTypes
  <2> QED BY <1>1, <2>1 DEF ComplianceTypes
<1>7. /\ \A d \in Checks \ {c} : UnderWay(d)' = UnderWay(d) /\ OfBet(d)' = OfBet(d)
      /\ ~UnderWay(c)' /\ OfBet(c)' = OfBet(c) /\ UnderWay(c) /\ OfBet(c) /\ ~check[c].refused
  BY <1>1, <1>3, <1>5 DEF UnderWay, InFlight, OfBet, ChecksOrdered
<1>8. ChecksOrdered'
  BY <1>1, <1>3, <1>5, <1>7 DEF ChecksOrdered
<1>9. LimitsHeld'
  <2> SUFFICES ASSUME AllApart'  PROVE WithinLimits' /\ \A d \in Checks : BetFits(d)'
    BY DEF LimitsHeld
  <2>1. AllApart
    BY <1>3, <1>5, <1>7 DEF AllApart
  <2>2. WithinLimits /\ BetFits(c) /\ check[c].alone
    BY <1>1, <1>7, <2>1 DEF LimitsHeld, AllApart
  <2>3. ASSUME NEW p \in {"day", "month"}  PROVE StakedSince(Begins(p))' <= Limits[p]
    <3>1. PICK h : h = Begins(p)
      OBVIOUS
    <3>2. h \in 0 .. half /\ Begins(p)' = h
      BY <1>1, <3>1, Beginnings DEF Begins, Midnight, UTCMidnight
    <3>3. StakedSince(h)' = StakedSince(h) + a
      BY <1>1, <1>2, <1>3, <3>2, StakeCounts DEF ComplianceTypes
    <3>4. Room(c, p)
      BY <1>1, <1>7, <2>2 DEF BetFits, PastDay, PastMonth
    <3>5. StakedSince(h) + a <= Limits[p]
      BY <1>2, <3>1, <3>4 DEF Room
    <3>6. StakedSince(Begins(p))' = StakedSince(h)'
      BY <3>2 DEF StakedSince
    <3> QED BY <3>3, <3>5, <3>6
  <2>4. \A d \in Checks : ~UnderWay(d)'
    BY <1>1, <1>7, <2>2 DEF ChecksOrdered
  <2>5. \A d \in Checks : BetFits(d)'
    <3>1. \A d \in Checks : check'[d].at \notin PastDay \cup PastMonth
      BY <2>4 DEF UnderWay, InFlight, PastDay, PastMonth
    <3> QED BY <3>1 DEF BetFits
  <2>6. WithinLimits'
    BY <2>3 DEF WithinLimits
  <2> QED BY <2>5, <2>6
<1> QED BY <1>6, <1>8, <1>9 DEF ComplianceInvariant

\* As time goes by a period may begin anew: less was staked in it.
LEMMA TimeKeeps ==
  ASSUME ComplianceInvariant, TimeGoesBy  PROVE ComplianceInvariant'
<1>1. /\ ComplianceTypes /\ ChecksOrdered /\ LimitsHeld /\ half' = half + 1 /\ half < Halves /\ staked' = staked
      /\ check' = [c \in Checks |-> [check[c] EXCEPT !.alone = @ /\ ~InFlight(c) /\ check[c].at # "passed"]]
  BY DEF ComplianceInvariant, TimeGoesBy
<1>2. ASSUME NEW d \in Checks
      PROVE  /\ check'[d] \in CheckRow /\ check'[d].at = check[d].at /\ check'[d].kind = check[d].kind
             /\ check'[d].refused = check[d].refused /\ check'[d].blind = check[d].blind
             /\ check'[d].alone = (check[d].alone /\ ~UnderWay(d))
  <2>1. PICK alone \in BOOLEAN : alone = (check[d].alone /\ ~UnderWay(d))
    OBVIOUS
  <2>2. check'[d] = [check[d] EXCEPT !.alone = alone]
    BY <1>1, <2>1 DEF UnderWay
  <2>3. check[d] \in CheckRow
    BY <1>1 DEF ComplianceTypes
  <2> QED BY <2>1, <2>2, <2>3 DEF CheckRow
<1>3. ComplianceTypes'
  <2>1. check' \in [Checks -> CheckRow]
    BY <1>1, <1>2
  <2>2. half' \in 0 .. Halves
    BY <1>1, ComplianceAssumption DEF ComplianceTypes
  <2> QED BY <1>1, <2>1, <2>2 DEF ComplianceTypes
<1>4. \A d \in Checks : UnderWay(d)' = UnderWay(d) /\ OfBet(d)' = OfBet(d)
  BY <1>2 DEF UnderWay, InFlight, OfBet
<1>5. ChecksOrdered'
  <2>1. \A d \in Checks : check[d].at = "new" => ~UnderWay(d)
    BY DEF UnderWay, InFlight
  <2> SUFFICES ASSUME NEW d \in Checks
               PROVE  /\ check'[d].at = "new" => check'[d].alone /\ ~check'[d].blind
                      /\ check'[d].at = "passed" => OfBet(d)' /\ ~check'[d].refused
                      /\ check'[d].alone => ~UnderWay(d)'
    BY DEF ChecksOrdered
  <2>2. /\ check[d].at = "new" => check[d].alone /\ ~check[d].blind
        /\ check[d].at = "passed" => OfBet(d) /\ ~check[d].refused
    BY <1>1 DEF ChecksOrdered
  <2> QED BY <1>2, <1>4, <2>1, <2>2
<1>6. LimitsHeld'
  <2> SUFFICES ASSUME AllApart'  PROVE WithinLimits' /\ \A d \in Checks : BetFits(d)'
    BY DEF LimitsHeld
  <2>1. AllApart /\ \A d \in Checks : OfBet(d) => ~UnderWay(d)
    BY <1>2, <1>4 DEF AllApart
  <2>2. WithinLimits
    BY <1>1, <2>1 DEF LimitsHeld
  <2>3. ASSUME NEW p \in {"day", "month"}, StakedSince(Begins(p)) <= Limits[p]
        PROVE  StakedSince(Begins(p))' <= Limits[p]
    <3>1. PICK g, h : g = Begins(p) /\ h = Begins(p)'
      OBVIOUS
    <3>2. g \in Nat /\ h \in Nat /\ g <= h
      BY <1>1, <3>1, Beginnings
    <3>3. StakedSince(h) <= StakedSince(g) /\ StakedSince(h) \in Nat /\ StakedSince(g) \in Nat /\ Limits[p] \in Nat
      BY <1>1, <3>2, LaterLess, SinceFinite, ComplianceAssumption DEF ComplianceTypes
    <3>4. StakedSince(Begins(p))' = StakedSince(h)
      BY <1>1, <3>1 DEF StakedSince
    <3> QED BY <2>3, <3>1, <3>3, <3>4
  <2>4. \A d \in Checks : OfBet(d)' => check'[d].at \notin PastDay \cup PastMonth
    BY <1>2, <1>4, <2>1 DEF UnderWay, InFlight, PastDay, PastMonth
  <2>5. \A d \in Checks : BetFits(d)'
    BY <2>4 DEF BetFits
  <2> QED BY <2>2, <2>3, <2>5 DEF WithinLimits
<1> QED BY <1>3, <1>5, <1>6 DEF ComplianceInvariant

\* Every step of a check, of a bet, of a person's data and of the clock keeps the
\* invariant.
LEMMA ComplianceKept ==
  ASSUME ComplianceInvariant, [ComplianceNext]_complianceVars  PROVE ComplianceInvariant'
<1>1. CASE UNCHANGED <<staked, check, half>>
  BY <1>1 DEF ComplianceInvariant, ComplianceTypes, ChecksOrdered, UnderWay, InFlight, OfBet, LimitsHeld, AllApart,
              WithinLimits, BetFits, Room, StakedSince, Begins, Midnight, UTCMidnight
<1>2. CASE ComplianceNext
  <2>1. CASE UpdateUserLimits \/ SetSelfExclusion \/ RemoveSelfExclusion \/ RowsChange
    BY <1>1, <2>1 DEF UpdateUserLimits, SetSelfExclusion, RemoveSelfExclusion, RowsChange, complianceVars
  <2> QED BY <1>2, <2>1, StartChecks, ReadsKeep, EndsKeep, ReportsKeep, PlacingKeeps, TimeKeeps DEF ComplianceNext
<1> QED BY <1>1, <1>2 DEF complianceVars

\* While checks run apart the invariant bounds the stakes of the day and of the month.
LEMMA ComplianceAlways == ComplianceInvariant => LimitHeldApart
BY DEF ComplianceInvariant, LimitsHeld, WithinLimits, AllApart, LimitHeldApart

-----------------------------------------------------------------------------
(* Accounts: rows, copies and tokens against the provider's verdict.       *)

\* A row the way verifications and edits leave it: the provider, or a caller, verified
\* whoever it calls verified, and it calls so everyone marked since.
RowOf(u, r) ==
  /\ r.verified => u \in said.marked \cup said.given
  /\ u \in said.marked \ said.raced => r.verified

UserRow ==
  [verified : BOOLEAN, status : {"absent", "PENDING_VERIFICATION", "ACTIVE", "SUSPENDED"},
   excluded : {"no", "dated", "undated"}]
Verdicts ==
  [provider : SUBSET Users, marked : SUBSET Users, given : SUBSET Users, raced : SUBSET Users]
Aside == {"idle", "404", "400", "422", "502", "200", "expired", "valid", "provider", "updated"}
AccountTypes ==
  /\ users \in [Users -> UserRow]
  /\ desk \in [Desks -> [at : Aside \cup {"mark", "edit"}, user : Users, row : UserRow]]
  /\ said.marked \subseteq said.provider
  /\ said \in Verdicts
RowsAsMarked == \A u \in Users : RowOf(u, users[u])
CopiesAsMarked == \A d \in Desks :
  /\ desk[d].at = "mark" => desk[d].user \in said.provider
  /\ desk[d].at = "edit" => RowOf(desk[d].user, desk[d].row)
TokensAsMarked == \A t \in tokens : t.verified => t.user \in said.marked \cup said.given
AccountsInvariant == AccountTypes /\ RowsAsMarked /\ CopiesAsMarked /\ TokensAsMarked

\* What a caller writes as verified is noted as its word, and so is its opposite
\* (Create, Update): the rows and copies of others stay as they were.
LEMMA CallerSays ==
  ASSUME AccountsInvariant, NEW u \in Users, NEW was \in BOOLEAN, NEW v \in BOOLEAN,
         CallerWrites(u, was, v)
  PROVE  /\ said' \in Verdicts /\ said'.marked = said.marked /\ said'.provider = said.provider
         /\ said.given \subseteq said'.given /\ said.raced \subseteq said'.raced
         /\ v /\ ~was => u \in said'.given
         /\ was /\ ~v => u \in said'.raced
<1> USE DEF AccountsInvariant
<1>1. PICK g, q : /\ g = IF v /\ ~was THEN said.given \cup {u} ELSE said.given
                  /\ q = IF was /\ ~v THEN said.raced \cup {u} ELSE said.raced
  OBVIOUS
<1>2. said \in Verdicts
  BY DEF AccountTypes
<1>3. g \in SUBSET Users /\ q \in SUBSET Users
  BY <1>1, <1>2 DEF Verdicts
<1>4. said' = [said EXCEPT !.given = g, !.raced = q]
  BY <1>1 DEF CallerWrites
<1>5. /\ said' \in Verdicts /\ said'.marked = said.marked /\ said'.provider = said.provider
      /\ said'.given = g /\ said'.raced = q
  BY <1>2, <1>3, <1>4 DEF Verdicts
<1>6. said.given \subseteq g /\ said.raced \subseteq q
  BY <1>1
<1> QED BY <1>1, <1>5, <1>6

\* Without rows, copies or tokens nothing can disagree.
LEMMA AccountsAtFirst == AccountsInit /\ Users # {} => AccountsInvariant
BY DEF AccountsInit, AccountsInvariant, AccountTypes, RowsAsMarked, CopiesAsMarked, TokensAsMarked, RowOf,
       NoDesk, Absent, UserRow, Aside, Verdicts

\* A call that only goes somewhere other than the marking or an edit.
LEMMA DeskMoves ==
  ASSUME AccountsInvariant, NEW d \in Desks, NEW p \in Aside, At(d, p),
         UNCHANGED <<users, tokens, said>>
  PROVE  AccountsInvariant'
BY DEF AccountsInvariant, AccountTypes, RowsAsMarked, CopiesAsMarked, TokensAsMarked, RowOf, At, Aside

\* What the provider says is written down before the row is marked (verifyUser).
LEMMA ProviderSays ==
  ASSUME AccountsInvariant, NEW d \in Desks, VerifyUser(d)  PROVE AccountsInvariant'
<1>1. CASE Failing(d) \/ (At(d, "200") /\ UNCHANGED said)
  BY <1>1, DeskMoves DEF VerifyUser, Failing, Aside
<1>2. CASE Says(d)
  <2> USE DEF AccountsInvariant, VerifyUser, Says, At
  <2>1. /\ said' = [said EXCEPT !.provider = @ \cup {desk[d].user}]
        /\ desk' = [desk EXCEPT ![d].at = "mark"] /\ UNCHANGED <<users, tokens>>
    BY <1>2
  <2>2. AccountTypes'
    BY <2>1 DEF AccountTypes, Verdicts
  <2>3. said'.marked = said.marked /\ said'.raced = said.raced /\ said'.given = said.given
    BY <2>1 DEF AccountTypes, Verdicts
  <2>4. CopiesAsMarked'
    BY <2>1, <2>3 DEF AccountTypes, CopiesAsMarked, RowOf
  <2> QED BY <2>1, <2>2, <2>3, <2>4 DEF RowsAsMarked, TokensAsMarked, RowOf
<1> QED BY <1>1, <1>2 DEF VerifyUser

\* The row is marked once the provider has said so; an edit that read it before is the
\* one that can undo it (UpdateVerificationStatus).
LEMMA MarkKeeps ==
  ASSUME AccountsInvariant, NEW d \in Desks, UpdateVerificationStatus(d)  PROVE AccountsInvariant'
<1> DEFINE u == desk[d].user
<1> USE DEF AccountsInvariant
<1>1. CASE UNCHANGED <<users, said>>
  BY <1>1, DeskMoves DEF UpdateVerificationStatus, Aside
<1>2. CASE ~UNCHANGED <<users, said>>
  <2>1. /\ desk[d].at = "mark" /\ u \in said.provider /\ u \in Users
    BY DEF UpdateVerificationStatus, CopiesAsMarked, AccountTypes
  <2>2. /\ users' = [users EXCEPT ![u].verified = TRUE]
        /\ said' = [said EXCEPT !.marked = @ \cup {u},
                          !.raced = IF Editing(u) = {} THEN @ ELSE @ \cup {u}]
        /\ desk' = [desk EXCEPT ![d].at = "200"] /\ tokens' = tokens
    BY <1>2 DEF UpdateVerificationStatus, At
  <2>3. /\ said'.provider = said.provider /\ said'.marked = said.marked \cup {u}
        /\ said'.given = said.given
        /\ said'.raced = IF Editing(u) = {} THEN said.raced ELSE said.raced \cup {u}
    BY <2>2 DEF AccountTypes, Verdicts
  <2>4. AccountTypes'
    <3>1. /\ users \in [Users -> UserRow] /\ said.raced \subseteq Users /\ said.marked \subseteq said.provider
          /\ desk \in [Desks -> [at : Aside \cup {"mark", "edit"}, user : Users, row : UserRow]]
          /\ said \in Verdicts
      BY DEF AccountTypes, Verdicts
    <3>2. users' \in [Users -> UserRow]
      <4>1. users[u] \in UserRow
        BY <2>1, <3>1
      <4>2. PICK r : r = [users[u] EXCEPT !.verified = TRUE]
        OBVIOUS
      <4>3. r \in UserRow
        BY <4>1, <4>2 DEF UserRow
      <4>4. users' = [users EXCEPT ![u] = r]
        BY <2>2, <4>2
      <4> QED BY <3>1, <4>3, <4>4
    <3>3. desk' \in [Desks -> [at : Aside \cup {"mark", "edit"}, user : Users, row : UserRow]]
      BY <2>2, <3>1 DEF Aside
    <3>4. PICK m, r : m = said.marked \cup {u} /\ r = IF Editing(u) = {} THEN said.raced ELSE said.raced \cup {u}
      OBVIOUS
    <3>5. m \in SUBSET Users /\ r \in SUBSET Users
      BY <2>1, <3>1, <3>4 DEF Verdicts
    <3>6. said' = [said EXCEPT !.marked = m, !.raced = r]
      BY <2>2, <3>4
    <3>7. said' \in Verdicts
      BY <3>1, <3>5, <3>6 DEF Verdicts
    <3> QED BY <2>1, <2>3, <3>1, <3>2, <3>3, <3>7 DEF AccountTypes
  <2>5. RowsAsMarked'
    BY <2>1, <2>2, <2>3 DEF RowsAsMarked, RowOf, AccountTypes, UserRow
  <2>6. CopiesAsMarked'
    BY <2>1, <2>2, <2>3 DEF CopiesAsMarked, RowOf, AccountTypes, Editing
  <2> QED BY <2>2, <2>3, <2>4, <2>5, <2>6 DEF TokensAsMarked
<1> QED BY <1>1, <1>2

\* A row is read to be edited as it is (GetByID, GetByEmail), and written back whole.
LEMMA EditKeeps ==
  ASSUME AccountsInvariant, NEW d \in Desks, GetUser(d) \/ Update(d)  PROVE AccountsInvariant'
<1> USE DEF AccountsInvariant
<1>1. CASE GetUser(d)
  <2>1. PICK u \in Users : desk' = [desk EXCEPT ![d] = [at |-> "edit", user |-> u, row |-> users[u]]]
    BY <1>1 DEF GetUser
  <2>2. UNCHANGED <<users, tokens, said>>
    BY <1>1 DEF GetUser
  <2>3. AccountTypes'
    BY <2>1, <2>2 DEF AccountTypes
  <2>4. CopiesAsMarked'
    BY <2>1, <2>2 DEF AccountTypes, CopiesAsMarked, RowsAsMarked, RowOf
  <2> QED BY <2>2, <2>3, <2>4 DEF RowsAsMarked, TokensAsMarked, RowOf
<1>2. CASE Update(d)
  <2> DEFINE u == desk[d].user
             was == desk[d].row.verified
  <2>1. PICK v \in BOOLEAN, s \in {"ACTIVE", "SUSPENDED"}, x \in {"no", "dated", "undated"} :
          /\ users' = [users EXCEPT ![u] = [verified |-> v, status |-> s, excluded |-> x]]
          /\ CallerWrites(u, was, v)
    BY <1>2 DEF Update
  <2>2. /\ desk[d].at = "edit" /\ desk' = [desk EXCEPT ![d].at = "updated"] /\ UNCHANGED tokens
    BY <1>2 DEF Update, At
  <2>3. PICK r : r = [verified |-> v, status |-> s, excluded |-> x]
    OBVIOUS
  <2>4. r \in UserRow /\ r.verified = v /\ users' = [users EXCEPT ![u] = r]
    BY <2>1, <2>3 DEF UserRow
  <2>5. /\ u \in Users /\ was \in BOOLEAN
        /\ u \in said.marked \ said.raced => was
        /\ was => u \in said.marked \cup said.given
    BY <2>2 DEF AccountTypes, CopiesAsMarked, UserRow, RowOf
  <2> HIDE DEF u, was
  <2>6. /\ said' \in Verdicts /\ said'.marked = said.marked /\ said'.provider = said.provider
        /\ said.given \subseteq said'.given /\ said.raced \subseteq said'.raced
        /\ v /\ ~was => u \in said'.given
        /\ was /\ ~v => u \in said'.raced
    BY <2>1, <2>5, CallerSays
  <2>7. /\ r.verified => u \in said'.marked \cup said'.given
        /\ u \in said'.marked \ said'.raced => r.verified
    BY <2>4, <2>5, <2>6
  <2>8. AccountTypes'
    BY <2>2, <2>4, <2>6 DEF AccountTypes, Aside
  <2>9. RowsAsMarked'
    <3>1. ASSUME NEW y \in Users  PROVE RowOf(y, users[y])'
      <4>1. CASE y = u
        <5>1. users'[y] = r
          BY <2>4, <2>5, <4>1 DEF AccountTypes
        <5> QED BY <2>7, <4>1, <5>1 DEF RowOf
      <4>2. CASE y # u
        <5>1. users'[y] = users[y] /\ RowOf(y, users[y])
          BY <2>4, <4>2 DEF AccountTypes, RowsAsMarked
        <5> QED BY <2>6, <5>1 DEF RowOf
      <4> QED BY <4>1, <4>2
    <3> QED BY <3>1 DEF RowsAsMarked
  <2>10. CopiesAsMarked'
    BY <2>2, <2>6 DEF CopiesAsMarked, AccountTypes, RowOf
  <2> QED BY <2>2, <2>6, <2>8, <2>9, <2>10 DEF TokensAsMarked
<1> QED BY <1>1, <1>2

\* A new row says of its user what its caller says (Create).
LEMMA NewUserKeeps ==
  ASSUME AccountsInvariant, NEW u \in Users, CreateUser(u)  PROVE AccountsInvariant'
<1> USE DEF AccountsInvariant
<1>1. PICK v \in BOOLEAN :
        /\ users' = [users EXCEPT ![u] = [verified |-> v, status |-> "PENDING_VERIFICATION", excluded |-> "no"]]
        /\ CallerWrites(u, FALSE, v)
  BY DEF CreateUser
<1>2. users[u] = Absent /\ UNCHANGED <<desk, tokens>>
  BY DEF CreateUser
<1>3. PICK r : r = [verified |-> v, status |-> "PENDING_VERIFICATION", excluded |-> "no"]
  OBVIOUS
<1>4. r \in UserRow /\ r.verified = v /\ users' = [users EXCEPT ![u] = r]
  BY <1>1, <1>3 DEF UserRow
<1>5. u \notin said.marked \ said.raced
  BY <1>2 DEF RowsAsMarked, RowOf, Absent
<1>6. /\ said' \in Verdicts /\ said'.marked = said.marked /\ said'.provider = said.provider
      /\ said.given \subseteq said'.given /\ said.raced \subseteq said'.raced
      /\ v => u \in said'.given
  BY <1>1, CallerSays
<1>7. /\ r.verified => u \in said'.marked \cup said'.given
      /\ u \in said'.marked \ said'.raced => r.verified
  BY <1>4, <1>5, <1>6
<1>8. AccountTypes'
  BY <1>2, <1>4, <1>6 DEF AccountTypes
<1>9. RowsAsMarked'
  <2>1. ASSUME NEW y \in Users  PROVE RowOf(y, users[y])'
    <3>1. CASE y = u
      <4>1. users'[y] = r
        BY <1>4, <3>1 DEF AccountTypes
      <4> QED BY <1>7, <3>1, <4>1 DEF RowOf
    <3>2. CASE y # u
      <4>1. users'[y] = users[y] /\ RowOf(y, users[y])
        BY <1>4, <3>2 DEF AccountTypes, RowsAsMarked
      <4> QED BY <1>6, <4>1 DEF RowOf
    <3> QED BY <3>1, <3>2
  <2> QED BY <2>1 DEF RowsAsMarked
<1>10. CopiesAsMarked'
  BY <1>2, <1>6 DEF CopiesAsMarked, AccountTypes, RowOf
<1> QED BY <1>2, <1>6, <1>8, <1>9, <1>10 DEF TokensAsMarked

\* Every step of the user repository, of the verification callback and of the tokens
\* keeps the invariant.
LEMMA AccountsKept == AccountsInvariant /\ [AccountsNext]_accountVars => AccountsInvariant'
<1> SUFFICES ASSUME AccountsInvariant, [AccountsNext]_accountVars  PROVE AccountsInvariant'
  OBVIOUS
<1>1. ASSUME NEW u \in Users, CreateUser(u)  PROVE AccountsInvariant'
  BY <1>1, NewUserKeeps
<1>2. ASSUME NEW u \in Users, SignIn(u)  PROVE AccountsInvariant'
  BY <1>2 DEF SignIn, GenerateAccessToken, GenerateRefreshToken, Token,
              AccountsInvariant, AccountTypes, RowsAsMarked, CopiesAsMarked, TokensAsMarked, RowOf
<1>3. ASSUME NEW d \in Desks, ReadUser(d)  PROVE AccountsInvariant'
  <2>1. PICK u \in Users : \/ At(d, "404")
                           \/ desk' = [desk EXCEPT ![d] = [at |-> "provider", user |-> u, row |-> Absent]]
    BY <1>3 DEF ReadUser
  <2>2. UNCHANGED <<users, tokens, said>>
    BY <1>3 DEF ReadUser
  <2>3. CASE At(d, "404")
    BY <2>2, <2>3, DeskMoves DEF Aside
  <2>4. CASE desk' = [desk EXCEPT ![d] = [at |-> "provider", user |-> u, row |-> Absent]]
    BY <2>2, <2>4 DEF AccountsInvariant, AccountTypes, RowsAsMarked, CopiesAsMarked, TokensAsMarked, RowOf,
              Absent, UserRow, Aside
  <2> QED BY <2>1, <2>3, <2>4
<1>4. ASSUME NEW d \in Desks, Refuse(d) \/ verifyID(d) \/ \E t \in tokens : AskToken(d, t)
      PROVE  AccountsInvariant'
  <2>1. PICK p \in Aside : At(d, p) /\ UNCHANGED <<users, tokens, said>>
    BY <1>4 DEF Refuse, verifyID, AskToken, Answers400, VerifyID, Aside
  <2> QED BY <2>1, DeskMoves
<1>5. ASSUME NEW d \in Desks, VerifyUser(d)  PROVE AccountsInvariant'
  BY <1>5, ProviderSays
<1>6. ASSUME NEW d \in Desks, UpdateVerificationStatus(d)  PROVE AccountsInvariant'
  BY <1>6, MarkKeeps
<1>7. ASSUME NEW d \in Desks, GetUser(d) \/ GetByEmail(d) \/ Update(d)  PROVE AccountsInvariant'
  BY <1>7, EditKeeps DEF GetByEmail
<1>8. ASSUME NEW t \in tokens, RefreshAccessToken(t)  PROVE AccountsInvariant'
  BY <1>8 DEF RefreshAccessToken, Token, AccountsInvariant, AccountTypes, RowsAsMarked, CopiesAsMarked,
              TokensAsMarked, RowOf
<1>9. CASE HourPasses \/ UNCHANGED accountVars
  BY <1>9 DEF HourPasses, accountVars, AccountsInvariant, AccountTypes, RowsAsMarked, CopiesAsMarked,
              TokensAsMarked, RowOf
<1> QED BY <1>1, <1>2, <1>3, <1>4, <1>5, <1>6, <1>7, <1>8, <1>9 DEF AccountsNext

\* A row, a token and a bet call someone verified only if the provider or a caller did
\* (CanPlaceBet).
LEMMA AccountsAlways == AccountsInvariant => VerifiedByProvider
BY DEF AccountsInvariant, AccountTypes, RowsAsMarked, TokensAsMarked, RowOf, VerifiedByProvider, CanPlaceBet, UserRow

-----------------------------------------------------------------------------
(* The catalogue's repositories against what was written to them.          *)

EventRow == [status : {"none", "SCHEDULED", "LIVE"}, score : Int, teams : BOOLEAN]
EditorRow ==
  [answer : {"none", "ok", "match", "error", "empty", "panic"}, match : Games,
   copy : EventRow, fresh : BOOLEAN]
CatalogTypes ==
  /\ event \in [Games -> EventRow]
  /\ editor \in [Editors -> EditorRow]
  /\ written \in [Games -> [score : Int, spoilt : BOOLEAN]]
  /\ market \in [Games -> {"none", "OPEN", "SUSPENDED"}]
  /\ outcome \in [Games -> [status : {"none", "PENDING", "WON"}, dated : BOOLEAN]]

\* A row that is there has a status, and holds what was last asked for unless it was spoilt.
EventsKept == \A x \in Games :
  /\ There(x) => event[x].status # "none"
  /\ There(x) /\ ~written[x].spoilt => event[x].teams /\ event[x].score = written[x].score
\* A copy with the teams that no write has made stale is the row.
CopiesKept == \A e \in Editors :
  editor[e].copy.teams /\ editor[e].fresh => editor[e].copy = event[editor[e].match]
ChildrenKept == \A x \in Games : (HasOutcome(x) => HasMarket(x)) /\ (HasMarket(x) => There(x))
CatalogInvariant == CatalogTypes /\ EventsKept /\ CopiesKept /\ ChildrenKept

\* Empty tables agree with the nothing that was written.
LEMMA CatalogAtFirst == CatalogInit /\ Games # {} => CatalogInvariant
<1> SUFFICES ASSUME CatalogInit, Games # {}  PROVE CatalogInvariant
  OBVIOUS
<1> USE DEF CatalogInit, EditorRow, NoEvent, NoOutcome, NoCopy, Null
<1>1. CatalogTypes
  BY DEF CatalogTypes, EventRow
<1>2. EventsKept /\ CopiesKept /\ ChildrenKept
  BY DEF EventsKept, CopiesKept, ChildrenKept, There, HasOutcome, HasMarket
<1> QED BY <1>1, <1>2 DEF CatalogInvariant

Told == {"ok", "error", "empty", "panic"}

\* A call that answers and changes no row.
LEMMA AnswerKeeps ==
  ASSUME CatalogInvariant, NEW e \in Editors, NEW a \in Told, Answer(e, a),
         UNCHANGED <<event, market, outcome, written>>
  PROVE  CatalogInvariant'
<1> USE DEF CatalogInvariant
<1>1. editor' = [editor EXCEPT ![e].answer = a]
  BY DEF Answer
<1>e. PICK d : d = [editor[e] EXCEPT !.answer = a]
  OBVIOUS
<1>d. editor' = [editor EXCEPT ![e] = d]
  BY <1>1, <1>e
<1>t. editor[e] \in EditorRow
  BY DEF CatalogTypes
<1>r. d \in EditorRow /\ d.copy = editor[e].copy /\ d.fresh = editor[e].fresh /\ d.match = editor[e].match
  BY <1>e, <1>t DEF EditorRow, Told
<1>2. CatalogTypes'
  BY <1>d, <1>r DEF CatalogTypes
<1>3. CopiesKept'
  BY <1>d, <1>r DEF CatalogTypes, CopiesKept
<1> QED BY <1>2, <1>3 DEF EventsKept, ChildrenKept, There, HasOutcome, HasMarket

\* A copy taken of a row is the row, or has lost its teams (GetByID, GetByEventID).
LEMMA CopyKeeps ==
  ASSUME CatalogInvariant, NEW e \in Editors, NEW x \in Games, GetByID(e, x) \/ GetByEventID(e, x)
  PROVE  CatalogInvariant'
<1> USE DEF CatalogInvariant
<1>1. /\ UNCHANGED <<event, market, outcome, written>>
      /\ \/ Answer(e, "error")
         \/ \E m \in EventRow : Holds(e, x, m) /\ (m.teams => m = event[x])
  <2>1. event[x] \in EventRow
    BY DEF CatalogTypes
  <2>2. CASE GetByEventID(e, x)
    BY <2>1, <2>2 DEF GetByEventID
  <2>3. CASE GetByID(e, x)
    <3>1. PICK r : r = [event[x] EXCEPT !.teams = FALSE]
      OBVIOUS
    <3>2. PICK m : m = [r EXCEPT !.score = IF @ = 0 THEN Null ELSE @]
      OBVIOUS
    <3>3. r \in EventRow /\ r.teams = FALSE
      BY <2>1, <3>1 DEF EventRow
    <3>4. m \in EventRow /\ m.teams = FALSE
      BY <3>2, <3>3 DEF EventRow, Null
    <3>5. m = [event[x] EXCEPT !.teams = FALSE, !.score = IF @ = 0 THEN Null ELSE @]
      BY <2>1, <3>1, <3>2 DEF EventRow
    <3> QED BY <2>3, <3>4, <3>5 DEF GetByID
  <2> QED BY <2>2, <2>3
<1>2. CASE Answer(e, "error")
  BY <1>1, <1>2, AnswerKeeps DEF Told
<1>3. ASSUME NEW m \in EventRow, Holds(e, x, m), m.teams => m = event[x]  PROVE CatalogInvariant'
  <2>1. editor' = [editor EXCEPT ![e] = [answer |-> "match", match |-> x, copy |-> m, fresh |-> TRUE]]
    BY <1>3 DEF Holds
  <2>2. CatalogTypes'
    BY <1>1, <1>3, <2>1 DEF CatalogTypes, EditorRow
  <2>3. CopiesKept'
    BY <1>1, <1>3, <2>1 DEF CatalogTypes, EditorRow, CopiesKept
  <2> QED BY <1>1, <2>2, <2>3 DEF EventsKept, ChildrenKept, There, HasOutcome, HasMarket
<1> QED BY <1>1, <1>2, <1>3

\* What a write to the row of x leaves of the copies.
LEMMA StaleCopies ==
  ASSUME CatalogInvariant, NEW e \in Editors, NEW x \in Games, Changed(e, x),
         \A y \in Games \ {x} : event'[y] = event[y]
  PROVE  /\ CopiesKept'
         /\ editor' \in [Editors -> EditorRow]
<1> USE DEF CatalogInvariant, CatalogTypes, EditorRow
<1> SUFFICES ASSUME NEW f \in Editors
             PROVE  /\ editor'[f].copy.teams /\ editor'[f].fresh => editor'[f].copy = event'[editor'[f].match]
                    /\ editor'[f] \in EditorRow
  BY DEF CopiesKept, Changed
<1>1. PICK c : c = editor[f]
  OBVIOUS
<1>2. PICK a, s : a = (IF f = e THEN "ok" ELSE c.answer) /\ s = (c.fresh /\ c.match # x)
  OBVIOUS
<1>3. c \in EditorRow
  BY <1>1
<1>4. editor'[f] = [c EXCEPT !.answer = a, !.fresh = s]
  BY <1>1, <1>2 DEF Changed
<1>5. a \in {"none", "ok", "match", "error", "empty", "panic"} /\ s \in BOOLEAN
  BY <1>2, <1>3
<1>6. /\ editor'[f].copy = c.copy /\ editor'[f].fresh = s /\ editor'[f].match = c.match
      /\ editor'[f] \in EditorRow
  BY <1>3, <1>4, <1>5
<1>7. c.copy.teams /\ c.fresh => c.copy = event[c.match]
  BY <1>1 DEF CopiesKept
<1> QED BY <1>2, <1>3, <1>6, <1>7

\* A write to the row of x that keeps what is known of it: the row it leaves has a
\* status, unless it is deleted with its market.
LEMMA WriteKeeps ==
  ASSUME CatalogInvariant, NEW e \in Editors, NEW x \in Games, Changed(e, x),
         NEW r \in EventRow, event' = [event EXCEPT ![x] = r],
         NEW w \in [score : Int, spoilt : BOOLEAN], written' = [written EXCEPT ![x] = w],
         r # NoEvent => r.status # "none",
         r # NoEvent /\ ~w.spoilt => r.teams /\ r.score = w.score,
         (r # NoEvent \/ ~There(x)) /\ UNCHANGED <<market, outcome>>
  PROVE  CatalogInvariant'
<1> USE DEF CatalogInvariant
<1>1. CopiesKept' /\ editor' \in [Editors -> EditorRow]
  BY StaleCopies DEF CatalogTypes
<1>2. CatalogTypes'
  BY <1>1 DEF CatalogTypes
<1>3. EventsKept'
  BY DEF EventsKept, CatalogTypes, There
<1>4. ChildrenKept'
  BY DEF ChildrenKept, CatalogTypes, There, HasOutcome, HasMarket
<1> QED BY <1>1, <1>2, <1>3, <1>4
\* The writes of match_repository.go to one row.
LEMMA MatchKeeps ==
  ASSUME CatalogInvariant, NEW e \in Editors, NEW x \in Games, NEW s \in Scores, NEW t \in {"SCHEDULED", "LIVE"},
         CreateMatch(e, x, s) \/ UpdateScore(e, x, s) \/ UpdateStatus(e, x, t)
  PROVE  CatalogInvariant'
<1>1. /\ event[x] \in EventRow /\ written[x] \in [score : Int, spoilt : BOOLEAN] /\ s \in Int
      /\ event = [event EXCEPT ![x] = event[x]] /\ written = [written EXCEPT ![x] = written[x]]
      /\ There(x) => event[x].status # "none"
      /\ There(x) /\ ~written[x].spoilt => event[x].teams /\ event[x].score = written[x].score
  BY CatalogAssumption DEF CatalogInvariant, CatalogTypes, EventsKept, Scores, Null
<1>2. CASE CreateMatch(e, x, s)
  <2>1. CASE s = Null \/ There(x)
    BY <1>2, <2>1, AnswerKeeps DEF CreateMatch, Told
  <2>2. CASE s # Null /\ ~There(x)
    <3>1. PICK r, w : /\ r = [status |-> "SCHEDULED", score |-> s, teams |-> TRUE]
                      /\ w = [score |-> s, spoilt |-> FALSE]
      OBVIOUS
    <3>2. r \in EventRow /\ w \in [score : Int, spoilt : BOOLEAN]
      BY <1>1, <3>1 DEF EventRow
    <3>3. r.status = "SCHEDULED" /\ r.teams /\ r.score = w.score
      BY <3>1
    <3>4. Changed(e, x) /\ event' = [event EXCEPT ![x] = r] /\ written' = [written EXCEPT ![x] = w]
      BY <1>2, <2>2, <3>1 DEF CreateMatch
    <3>5. r # NoEvent /\ UNCHANGED <<market, outcome>>
      BY <1>2, <3>3 DEF CreateMatch, NoEvent
    <3> QED BY <3>2, <3>3, <3>4, <3>5, WriteKeeps
  <2> QED BY <2>1, <2>2
<1>3. CASE (UpdateScore(e, x, s) \/ UpdateStatus(e, x, t)) /\ ~There(x)
  BY <1>1, <1>3, WriteKeeps DEF UpdateScore, UpdateStatus, There
<1>4. CASE UpdateScore(e, x, s) /\ There(x)
  <2>1. PICK r, w : r = [event[x] EXCEPT !.score = s] /\ w = [written[x] EXCEPT !.score = s]
    OBVIOUS
  <2>2. /\ r \in EventRow /\ w \in [score : Int, spoilt : BOOLEAN]
        /\ r.status = event[x].status /\ r.teams = event[x].teams /\ r.score = s
        /\ w.score = s /\ w.spoilt = written[x].spoilt
    BY <1>1, <2>1 DEF EventRow
  <2>3. r # NoEvent
    BY <1>1, <1>4, <2>2 DEF NoEvent
  <2>4. Changed(e, x) /\ event' = [event EXCEPT ![x] = r] /\ written' = [written EXCEPT ![x] = w]
    BY <1>4, <2>1 DEF UpdateScore, Score
  <2> QED BY <1>1, <1>4, <2>2, <2>3, <2>4, WriteKeeps DEF UpdateScore
<1>5. CASE UpdateStatus(e, x, t) /\ There(x)
  <2>1. PICK r : r = [event[x] EXCEPT !.status = t]
    OBVIOUS
  <2>2. r \in EventRow /\ r.status = t /\ r.teams = event[x].teams /\ r.score = event[x].score
    BY <1>1, <2>1 DEF EventRow
  <2>3. r # NoEvent
    BY <2>2 DEF NoEvent
  <2>4. Changed(e, x) /\ event' = [event EXCEPT ![x] = r] /\ written' = [written EXCEPT ![x] = written[x]]
    BY <1>1, <1>5, <2>1 DEF UpdateStatus
  <2>5. UNCHANGED <<market, outcome>>
    BY <1>5 DEF UpdateStatus
  <2>6. t # "none" /\ There(x)
    BY <1>5
  <2>7. /\ r # NoEvent => r.status # "none"
        /\ r # NoEvent /\ ~written[x].spoilt => r.teams /\ r.score = written[x].score
    BY <1>1, <2>2, <2>6
  <2>8. PICK w : w = written[x]
    OBVIOUS
  <2>9. w \in [score : Int, spoilt : BOOLEAN]
    BY <1>1, <2>8
  <2> QED BY <2>2, <2>3, <2>4, <2>5, <2>7, <2>8, <2>9, WriteKeeps
<1> QED BY <1>2, <1>3, <1>4, <1>5

\* A whole row written back is the row with another status, or spoils it.
LEMMA UpdateMatchKeeps ==
  ASSUME CatalogInvariant, NEW e \in Editors, NEW t \in {"SCHEDULED", "LIVE"}, UpdateMatch(e, t)
  PROVE  CatalogInvariant'
<1> DEFINE x == editor[e].match
           c == editor[e].copy
<1>1. /\ event[x] \in EventRow /\ written[x] \in [score : Int, spoilt : BOOLEAN] /\ x \in Games
      /\ c \in EventRow /\ editor[e].fresh \in BOOLEAN
      /\ event = [event EXCEPT ![x] = event[x]] /\ written = [written EXCEPT ![x] = written[x]]
      /\ There(x) => event[x].status # "none"
      /\ There(x) /\ ~written[x].spoilt => event[x].teams /\ event[x].score = written[x].score
      /\ c.teams /\ editor[e].fresh => c = event[x]
  BY DEF CatalogInvariant, CatalogTypes, EditorRow, EventsKept, CopiesKept
<1>2. Changed(e, x) /\ UNCHANGED <<market, outcome>>
  BY DEF UpdateMatch
<1>3. CASE ~There(x)
  BY <1>1, <1>2, <1>3, WriteKeeps DEF UpdateMatch, There
<1>4. CASE There(x)
  <2>1. PICK r, b : r = [c EXCEPT !.status = t] /\ b = (written[x].spoilt \/ ~c.teams \/ ~editor[e].fresh)
    OBVIOUS
  <2>2. PICK w : w = [written[x] EXCEPT !.spoilt = b]
    OBVIOUS
  <2>3. /\ r \in EventRow /\ r.status = t /\ r.teams = c.teams /\ r.score = c.score
    BY <1>1, <2>1 DEF EventRow
  <2>4. w \in [score : Int, spoilt : BOOLEAN] /\ w.score = written[x].score /\ w.spoilt = b
    BY <1>1, <2>1, <2>2
  <2>5. r # NoEvent
    BY <2>3 DEF NoEvent
  <2>6. event' = [event EXCEPT ![x] = r]
    BY <1>4, <2>1 DEF UpdateMatch
  <2>7. written' = [written EXCEPT ![x] = w]
    BY <1>4, <2>1, <2>2 DEF UpdateMatch
  <2>8. ~w.spoilt => r.teams /\ r.score = w.score
    BY <1>1, <1>4, <2>1, <2>3, <2>4
  <2> HIDE DEF x, c
  <2> QED BY <1>1, <1>2, <2>3, <2>4, <2>5, <2>6, <2>7, <2>8, WriteKeeps
<1> QED BY <1>3, <1>4

\* A match is deleted with its market and outcome.
LEMMA DeleteKeeps ==
  ASSUME CatalogInvariant, NEW e \in Editors, NEW x \in Games, DeleteMatch(e, x)
  PROVE  CatalogInvariant'
<1> USE DEF CatalogInvariant, DeleteMatch
<1>1. NoEvent \in EventRow
  BY DEF NoEvent, EventRow, Null
<1>2. CopiesKept' /\ editor' \in [Editors -> EditorRow]
  BY StaleCopies DEF CatalogTypes
<1>3. CatalogTypes'
  BY <1>1, <1>2 DEF CatalogTypes, NoOutcome
<1>4. EventsKept' /\ ChildrenKept'
  BY DEF EventsKept, ChildrenKept, CatalogTypes, There, HasOutcome, HasMarket
<1> QED BY <1>2, <1>3, <1>4

\* The market and the outcome of x become what the match and the market allow.
LEMMA ChildKeeps ==
  ASSUME CatalogInvariant, NEW e \in Editors, NEW x \in Games, Answer(e, "ok"), UNCHANGED <<event, written>>,
         NEW m \in {"none", "OPEN", "SUSPENDED"}, market' = [market EXCEPT ![x] = m], m # "none" => There(x),
         NEW o \in [status : {"none", "PENDING", "WON"}, dated : BOOLEAN],
         outcome' = [outcome EXCEPT ![x] = o], o # NoOutcome => m # "none"
  PROVE  CatalogInvariant'
<1> USE DEF CatalogInvariant
<1>1. editor' = [editor EXCEPT ![e].answer = "ok"]
  BY DEF Answer
<1>e. PICK d : d = [editor[e] EXCEPT !.answer = "ok"]
  OBVIOUS
<1>d. editor' = [editor EXCEPT ![e] = d]
  BY <1>1, <1>e
<1>t. editor[e] \in EditorRow
  BY DEF CatalogTypes
<1>r. d \in EditorRow /\ d.copy = editor[e].copy /\ d.fresh = editor[e].fresh /\ d.match = editor[e].match
  BY <1>e, <1>t DEF EditorRow
<1>2. CatalogTypes'
  BY <1>d, <1>r DEF CatalogTypes
<1>3. CopiesKept'
  BY <1>d, <1>r DEF CatalogTypes, CopiesKept
<1>4. ChildrenKept'
  BY DEF ChildrenKept, CatalogTypes, There, HasOutcome, HasMarket
<1> QED BY <1>2, <1>3, <1>4 DEF EventsKept, There

\* The market repository writes the market of a match and nothing of its event.
LEMMA MarketKeeps ==
  ASSUME CatalogInvariant, NEW e \in Editors, NEW x \in Games, OnMarket(e, x)  PROVE CatalogInvariant'
<1>1. /\ market[x] \in {"none", "OPEN", "SUSPENDED"} /\ outcome = [outcome EXCEPT ![x] = outcome[x]]
      /\ outcome[x] \in [status : {"none", "PENDING", "WON"}, dated : BOOLEAN]
      /\ NoOutcome \in [status : {"none", "PENDING", "WON"}, dated : BOOLEAN]
      /\ (outcome[x] # NoOutcome => HasMarket(x)) /\ (HasMarket(x) => There(x))
  BY DEF CatalogInvariant, CatalogTypes, ChildrenKept, HasOutcome, NoOutcome
<1>2. CASE DeleteMarket(e, x)
  BY <1>1, <1>2, ChildKeeps DEF DeleteMarket
<1>3. CASE GetMarketByID(e, x) \/ GetMarkets(e, x)
  BY <1>3, AnswerKeeps DEF GetMarketByID, GetMarkets, Listed10, Told
<1>4. CASE CreateMarket(e, x)
  <2>1. CASE Answer(e, "error") /\ UNCHANGED <<event, market, outcome, written>>
    BY <2>1, AnswerKeeps DEF Told
  <2>2. CASE There(x) /\ ~HasMarket(x) /\ Market(e, x, "OPEN")
    BY <1>1, <2>2, ChildKeeps DEF Market
  <2> QED BY <1>4, <2>1, <2>2 DEF CreateMarket
<1>5. ASSUME NEW s \in {"SUSPENDED", "OPEN"}, UpdateMarketStatus(e, x, s)  PROVE CatalogInvariant'
  <2>1. PICK m \in {"none", "OPEN", "SUSPENDED"} :
             m = (IF HasMarket(x) THEN s ELSE "none") /\ (m # "none" => HasMarket(x)) /\ (HasMarket(x) => m # "none")
    OBVIOUS
  <2>2. /\ market' = [market EXCEPT ![x] = m] /\ Answer(e, "ok")
        /\ outcome' = [outcome EXCEPT ![x] = outcome[x]] /\ UNCHANGED <<event, written>>
    BY <1>1, <1>5, <2>1 DEF UpdateMarketStatus, Market
  <2>3. (m # "none" => There(x)) /\ (outcome[x] # NoOutcome => m # "none")
    BY <1>1, <2>1
  <2> QED BY <1>1, <2>2, <2>3, ChildKeeps
<1> QED BY <1>2, <1>3, <1>4, <1>5 DEF OnMarket, UpdateMarket

\* The outcome repository writes the outcome of a match and nothing of its event.
LEMMA OutcomeKeeps ==
  ASSUME CatalogInvariant, NEW e \in Editors, NEW x \in Games, OnOutcome(e, x)  PROVE CatalogInvariant'
<1> DEFINE OutcomeRow == [status : {"none", "PENDING", "WON"}, dated : BOOLEAN]
<1>1. /\ market[x] \in {"none", "OPEN", "SUSPENDED"} /\ market = [market EXCEPT ![x] = market[x]]
      /\ outcome[x] \in OutcomeRow /\ NoOutcome \in OutcomeRow
      /\ (HasOutcome(x) => HasMarket(x)) /\ (HasMarket(x) => There(x))
  BY DEF CatalogInvariant, CatalogTypes, ChildrenKept, NoOutcome
<1>2. ASSUME NEW o \in OutcomeRow, Outcome(e, x, o), o # NoOutcome => HasMarket(x)  PROVE CatalogInvariant'
  BY <1>1, <1>2, ChildKeeps DEF Outcome, HasMarket
<1>3. CASE DeleteOutcome(e, x) \/ UpdateOdds(e, x)
  BY <1>1, <1>2, <1>3 DEF DeleteOutcome, UpdateOdds, HasOutcome
<1>4. CASE GetOutcomeByID(e, x) \/ GetOutcomes(e, x)
  BY <1>4, AnswerKeeps DEF GetOutcomeByID, GetOutcomes, Listed11, Listed10, Told
<1>5. ASSUME NEW s \in {"PENDING", "WON"}, CreateOutcome(e, x, s)  PROVE CatalogInvariant'
  <2>1. CASE Answer(e, "error") /\ UNCHANGED <<event, market, outcome, written>>
    BY <2>1, AnswerKeeps DEF Told
  <2>2. CASE HasMarket(x) /\ Outcome(e, x, Dated(s))
    <3>1. Dated(s) \in OutcomeRow
      BY DEF Dated
    <3> QED BY <1>2, <2>2, <3>1
  <2> QED BY <1>5, <2>1, <2>2 DEF CreateOutcome
<1>6. ASSUME NEW s \in {"PENDING", "WON"}, UpdateOutcome(e, x, s)  PROVE CatalogInvariant'
  <2>1. Dated(s) \in OutcomeRow
    BY DEF Dated
  <2> QED BY <1>1, <1>2, <1>6, <2>1 DEF UpdateOutcome
<1>7. ASSUME NEW s \in {"PENDING", "WON"}, UpdateOutcomeStatus(e, x, s)  PROVE CatalogInvariant'
  BY <1>1, <1>2, <1>7 DEF UpdateOutcomeStatus
<1> QED BY <1>3, <1>4, <1>5, <1>6, <1>7 DEF OnOutcome

\* Every call of the three repositories keeps the invariant.
LEMMA CatalogStays == CatalogInvariant /\ [CatalogNext]_catalogVars => CatalogInvariant'
<1> SUFFICES ASSUME CatalogInvariant, [CatalogNext]_catalogVars  PROVE CatalogInvariant'
  OBVIOUS
<1>1. CASE UNCHANGED catalogVars
  BY <1>1 DEF catalogVars, CatalogInvariant, CatalogTypes, EventsKept, CopiesKept, ChildrenKept, There,
              HasOutcome, HasMarket
<1>2. ASSUME NEW e \in Editors, NEW s \in {"SCHEDULED", "LIVE"}, UpdateMatch(e, s)  PROVE CatalogInvariant'
  BY <1>2, UpdateMatchKeeps
<1>3. ASSUME NEW e \in Editors, GetActiveMarkets(e) \/ GetActiveOutcomes(e)  PROVE CatalogInvariant'
  BY <1>3, AnswerKeeps DEF GetActiveMarkets, GetActiveOutcomes, Listed11, Listed10, Told
<1>4. ASSUME NEW e \in Editors, NEW x \in Games, OnMatch(e, x)  PROVE CatalogInvariant'
  <2>1. CASE GetByID(e, x) \/ GetByEventID(e, x) \/ GetLiveMatches(e, x) \/ GetBySport(e, x)
    BY <2>1, CopyKeeps DEF GetLiveMatches, GetBySport, scanMatches
  <2>2. CASE DeleteMatch(e, x)
    BY <2>2, DeleteKeeps
  <2>3. ASSUME NEW s \in Scores, CreateMatch(e, x, s) \/ UpdateScore(e, x, s)  PROVE CatalogInvariant'
    BY <2>3, MatchKeeps
  <2>4. ASSUME NEW t \in {"SCHEDULED", "LIVE"}, UpdateStatus(e, x, t)  PROVE CatalogInvariant'
    BY <2>4, MatchKeeps DEF Scores
  <2> QED BY <1>4, <2>1, <2>2, <2>3, <2>4 DEF OnMatch
<1>5. ASSUME NEW e \in Editors, NEW x \in Games, OnMarket(e, x) \/ OnOutcome(e, x)  PROVE CatalogInvariant'
  BY <1>5, MarketKeeps, OutcomeKeeps
<1> QED BY <1>1, <1>2, <1>3, <1>4, <1>5 DEF CatalogNext

\* A match keeps its teams and the score last asked for unless a stale copy was written
\* over it; outcomes go with their market, markets with their match.
LEMMA CatalogAlways == CatalogInvariant => CatalogKept
BY DEF CatalogInvariant, EventsKept, ChildrenKept, CatalogKept

-----------------------------------------------------------------------------
(* M-Pesa callbacks (Payments): credits against the callbacks that caused them.*)

PushPlaces == {"new", "failed", "store", "prompted"}
CallbackRow ==
  [at : {"new", "done", "find", "fail", "credit", "mark"}, push : Pushes \cup {"none"}, ok : BOOLEAN,
   answer : {"none", "404", "400", "noted", "ignored", "uncredited", "accepted"}]
PaymentTypes ==
  /\ push \in [Pushes -> [at : PushPlaces, sum : Nat, paid : Nat]]
  /\ deposit \in [Pushes -> {"none", "PENDING", "COMPLETED", "FAILED"}]
  /\ callback \in [Calls -> CallbackRow]
  /\ credited \in [Pushes -> Nat]

\* The phone has paid what it was asked for, in whole units.
PaidAsAsked == \A d \in Pushes :
  /\ push[d].at = "new" => push[d].paid = 0
  /\ push[d].paid > 0 => push[d].paid = StringFixed0(push[d].sum)

\* A callback on its way to the wallet is of a deposit that was paid, and the row of
\* one that reached it was stored.
Under(c) == callback[c].at \in {"find", "fail", "credit", "mark"}
Reached(c) == callback[c].at = "mark" \/ callback[c].answer \in {"accepted", "uncredited"}
CallbackFollows(c) ==
  /\ Under(c) \/ Reached(c) => callback[c].push \in Pushes
  /\ Under(c) \/ callback[c].at = "new" => callback[c].answer = "none"
  /\ callback[c].at \in {"find", "credit"} \/ Reached(c) => push[callback[c].push].paid > 0
  /\ callback[c].at = "credit" \/ Reached(c) => deposit[callback[c].push] # "none"
CallbacksFollow == \A c \in Calls : CallbackFollows(c)
CreditCounted(d) ==
  /\ Cardinality(Crediting(d)) <= credited[d]
  /\ credited[d] <= Cardinality(MayHaveCredited(d))
CreditsCounted == \A d \in Pushes : CreditCounted(d)
CompletedWasCredited == \A d \in Pushes : deposit[d] = "COMPLETED" => credited[d] > 0
PaymentInvariant == PaymentTypes /\ PaidAsAsked /\ CallbacksFollow /\ CreditsCounted /\ CompletedWasCredited

\* Half a unit more or less.
LEMMA RoundsToUnits ==
  ASSUME NEW n \in Nat
  PROVE  StringFixed0(n) \in Nat /\ n <= StringFixed0(n) + 50 /\ StringFixed0(n) <= n + 50
BY DEF StringFixed0

\* The callbacks that credit, and those that may have, are finitely many.
LEMMA CreditsFinite ==
  ASSUME IsFiniteSet(Calls), NEW d \in Pushes
  PROVE  /\ IsFiniteSet(Crediting(d)) /\ Cardinality(Crediting(d)) \in Nat
         /\ IsFiniteSet(MayHaveCredited(d)) /\ Cardinality(MayHaveCredited(d)) \in Nat
<1>1. Crediting(d) \subseteq Calls /\ MayHaveCredited(d) \subseteq Calls
  BY DEF Crediting, MayHaveCredited
<1> QED BY <1>1, FS_Subset, FS_CardinalityType

\* A deposit is credited once for each callback that knows of it and once at most for each
\* that was answered with an error; each is of a stored deposit the phone paid, within half
\* a unit of what it paid (handleSTKCallback).
LEMMA PaymentsAlways == PaymentInvariant /\ IsFiniteSet(Calls) => CreditedAsReported
<1> SUFFICES ASSUME PaymentInvariant, IsFiniteSet(Calls), NEW d \in Pushes
             PROVE  /\ Cardinality(Crediting(d)) <= credited[d]
                    /\ credited[d] <= Cardinality(MayHaveCredited(d))
                    /\ deposit[d] = "COMPLETED" => credited[d] > 0
                    /\ credited[d] > 0 =>
                         /\ push[d].paid > 0 /\ deposit[d] # "none"
                         /\ push[d].sum <= push[d].paid + 50 /\ push[d].paid <= push[d].sum + 50
  BY DEF CreditedAsReported
<1> USE DEF PaymentInvariant
<1>1. /\ Cardinality(Crediting(d)) <= credited[d]
      /\ credited[d] <= Cardinality(MayHaveCredited(d))
      /\ deposit[d] = "COMPLETED" => credited[d] > 0
  BY DEF CreditsCounted, CreditCounted, CompletedWasCredited
<1>2. ASSUME credited[d] > 0  PROVE push[d].paid > 0 /\ deposit[d] # "none"
  <2>1. MayHaveCredited(d) # {}
    <3>1. PICK n \in Nat : n = credited[d]
      BY DEF PaymentTypes
    <3>2. SUFFICES ASSUME MayHaveCredited(d) = {}  PROVE FALSE
      OBVIOUS
    <3>3. Cardinality(MayHaveCredited(d)) = 0
      BY <3>2, FS_EmptySet
    <3> QED BY <1>1, <1>2, <3>1, <3>3
  <2>2. PICK c \in Calls : callback[c].push = d /\ Reached(c)
    BY <2>1 DEF MayHaveCredited, Crediting, Reached
  <2>3. CallbackFollows(c)
    BY DEF CallbacksFollow
  <2> QED BY <2>2, <2>3 DEF CallbackFollows
<1>3. push[d].sum \in Nat
  BY DEF PaymentTypes
<1> QED BY <1>1, <1>2, <1>3, RoundsToUnits DEF PaidAsAsked

\* No deposit is credited before its callback.
LEMMA PaymentsAtFirst == PaymentInit => PaymentInvariant
<1> SUFFICES ASSUME PaymentInit  PROVE PaymentInvariant
  OBVIOUS
<1> USE DEF PaymentInit
<1>1. PaymentTypes
  BY DEF PaymentTypes, PushPlaces, CallbackRow
<1>2. PaidAsAsked /\ CallbacksFollow /\ CompletedWasCredited
  BY DEF PaidAsAsked, CallbacksFollow, CallbackFollows, Under, Reached, CompletedWasCredited
<1>3. \A d \in Pushes : Crediting(d) = {} /\ MayHaveCredited(d) = {} /\ credited[d] = 0
  BY DEF Crediting, MayHaveCredited
<1>4. CreditsCounted
  <2> SUFFICES ASSUME NEW d \in Pushes
               PROVE  Cardinality(Crediting(d)) <= credited[d] /\ credited[d] <= Cardinality(MayHaveCredited(d))
    BY DEF CreditsCounted, CreditCounted
  <2>1. Cardinality(Crediting(d)) = 0 /\ Cardinality(MayHaveCredited(d)) = 0
    BY <1>3, FS_EmptySet
  <2> QED BY <1>3, <2>1
<1> QED BY <1>1, <1>2, <1>4 DEF PaymentInvariant

\* The deposits and callbacks left alone.
LEMMA PushMoves ==
  ASSUME PaymentInvariant, NEW d \in Pushes, InitiateDeposit(d) \/ CreateDeposit(d) \/ Pays(d)
  PROVE  PaymentInvariant'
<1> USE DEF PaymentInvariant
<1>1. UNCHANGED <<callback, credited>> /\ push[d] \in [at : PushPlaces, sum : Nat, paid : Nat]
  BY DEF InitiateDeposit, CreateDeposit, Pays, PaymentTypes
<1>2. PICK r \in [at : PushPlaces, sum : Nat, paid : Nat] :
        /\ push' = [push EXCEPT ![d] = r] /\ r.at # "new"
        /\ push[d].paid > 0 => r.paid > 0
        /\ r.paid > 0 => r.paid = StringFixed0(r.sum)
  <2>1. CASE InitiateDeposit(d)
    <3>1. push[d].paid = 0
      BY <2>1 DEF InitiateDeposit, PaidAsAsked
    <3>2. PICK s \in Sums, p \in {"failed", "store", "prompted"} :
            push' = [push EXCEPT ![d] = [at |-> p, sum |-> s, paid |-> 0]]
      BY <2>1 DEF InitiateDeposit
    <3>3. s \in Nat
      BY PaymentsAssumption
    <3>4. PICK r : r = [at |-> p, sum |-> s, paid |-> 0]
      OBVIOUS
    <3>5. r \in [at : PushPlaces, sum : Nat, paid : Nat] /\ r.at # "new" /\ ~(r.paid > 0)
      BY <3>3, <3>4 DEF PushPlaces
    <3>6. push' = [push EXCEPT ![d] = r] /\ ~(push[d].paid > 0)
      BY <3>1, <3>2, <3>4
    <3> QED BY <3>5, <3>6, Zenon
  <2>2. CASE CreateDeposit(d)
    <3>1. PICK r : r = [push[d] EXCEPT !.at = "prompted"]
      OBVIOUS
    <3>2. r \in [at : PushPlaces, sum : Nat, paid : Nat] /\ r.at = "prompted" /\ r.paid = push[d].paid
          /\ r.sum = push[d].sum
      BY <1>1, <3>1 DEF PushPlaces
    <3>3. push' = [push EXCEPT ![d] = r]
      BY <2>2, <3>1 DEF CreateDeposit
    <3> QED BY <3>2, <3>3 DEF PaidAsAsked
  <2>3. CASE Pays(d)
    <3>1. PICK k : k = StringFixed0(push[d].sum)
      OBVIOUS
    <3>2. k \in Nat
      BY <1>1, <3>1, RoundsToUnits
    <3>3. PICK r : r = [push[d] EXCEPT !.paid = k]
      OBVIOUS
    <3>4. r \in [at : PushPlaces, sum : Nat, paid : Nat] /\ r.at = push[d].at /\ r.paid = k /\ r.sum = push[d].sum
      BY <1>1, <3>2, <3>3
    <3>5. push' = [push EXCEPT ![d] = r] /\ push[d].at # "new" /\ push[d].paid = 0
      BY <2>3, <3>1, <3>3 DEF Pays
    <3>6. ~(push[d].paid > 0) /\ r.paid = StringFixed0(r.sum) /\ r.at # "new"
      BY <3>1, <3>4, <3>5
    <3> QED BY <3>4, <3>5, <3>6, Zenon
  <2> QED BY <2>1, <2>2, <2>3
<1>3. deposit' = deposit \/ deposit' = [deposit EXCEPT ![d] = "PENDING"]
  BY DEF InitiateDeposit, CreateDeposit, Pays
<1>4. PaymentTypes'
  BY <1>1, <1>2, <1>3 DEF PaymentTypes
<1>5. PaidAsAsked'
  BY <1>2 DEF PaidAsAsked, PaymentTypes
<1>6. CallbacksFollow'
  <2>1. \A e \in Pushes : push[e].paid > 0 => push'[e].paid > 0
    BY <1>2 DEF PaymentTypes
  <2>2. \A e \in Pushes : deposit[e] # "none" => deposit'[e] # "none"
    BY <1>3 DEF PaymentTypes
  <2> QED BY <1>1, <2>1, <2>2 DEF CallbacksFollow, CallbackFollows, Under, Reached
<1>7. CompletedWasCredited'
  BY <1>1, <1>3 DEF CompletedWasCredited, PaymentTypes
<1>8. CreditsCounted'
  BY <1>1 DEF CreditsCounted, CreditCounted, Crediting, MayHaveCredited
<1> QED BY <1>4, <1>5, <1>6, <1>7, <1>8

\* A callback that credits nothing, and leaves every row there that was there.
LEMMA CallbackMoves ==
  ASSUME PaymentInvariant, NEW c \in Calls, UNCHANGED <<push, credited>>, NEW r \in CallbackRow,
         callback' = [callback EXCEPT ![c] = r], r.at \notin {"new", "mark"},
         deposit' \in [Pushes -> {"none", "PENDING", "COMPLETED", "FAILED"}],
         \A d \in Pushes : deposit[d] # "none" => deposit'[d] # "none",
         \A d \in Pushes : deposit'[d] = "COMPLETED" => deposit[d] = "COMPLETED" \/ credited[d] > 0,
         r.at \in {"find", "fail", "credit"} => r.push \in Pushes /\ r.answer = "none",
         r.at \in {"find", "credit"} => push[r.push].paid > 0,
         r.at = "credit" => deposit[r.push] # "none",
         r.answer = "accepted" <=> callback[c].at = "mark", r.answer # "uncredited",
         callback[c].at = "mark" => r.push = callback[c].push,
         callback[c].answer \notin {"accepted", "uncredited"}
  PROVE  PaymentInvariant'
<1> USE DEF PaymentInvariant
<1>1. callback'[c] = r /\ \A b \in Calls \ {c} : callback'[b] = callback[b]
  BY DEF PaymentTypes
<1>2. PaymentTypes'
  BY DEF PaymentTypes
<1>3. CallbacksFollow'
  <2>1. ASSUME NEW b \in Calls, b # c  PROVE CallbackFollows(b)'
    BY <1>1, <2>1 DEF CallbacksFollow, CallbackFollows, Under, Reached
  <2>2. CallbackFollows(c)'
    BY <1>1 DEF CallbacksFollow, CallbackFollows, Under, Reached
  <2> QED BY <2>1, <2>2 DEF CallbacksFollow
<1>4. \A d : Crediting(d)' = Crediting(d) /\ MayHaveCredited(d)' = MayHaveCredited(d)
  BY <1>1 DEF Crediting, MayHaveCredited
<1>5. CompletedWasCredited'
  BY DEF CompletedWasCredited
<1> QED BY <1>2, <1>3, <1>4, <1>5 DEF PaidAsAsked, CreditsCounted, CreditCounted

\* An answer ends a callback (handlers of mpesa_handlers.go).
LEMMA AnswerEnds ==
  ASSUME PaymentInvariant, NEW c \in Calls, callback[c].answer \notin {"accepted", "uncredited"},
         NEW what \in {"404", "400", "noted", "ignored", "accepted"}, Answers(c, what),
         what = "accepted" <=> callback[c].at = "mark", UNCHANGED <<push, credited>>,
         deposit' \in [Pushes -> {"none", "PENDING", "COMPLETED", "FAILED"}],
         \A d \in Pushes : deposit[d] # "none" => deposit'[d] # "none",
         \A d \in Pushes : deposit'[d] = "COMPLETED" => deposit[d] = "COMPLETED" \/ credited[d] > 0
  PROVE  PaymentInvariant'
<1>1. PICK q : q = [callback[c] EXCEPT !.at = "done"]
  OBVIOUS
<1>2. PICK r : r = [q EXCEPT !.answer = what]
  OBVIOUS
<1>3. callback[c] \in CallbackRow
  BY DEF PaymentInvariant, PaymentTypes, CallbackRow
<1>4. q \in CallbackRow /\ q.at = "done" /\ q.push = callback[c].push
  BY <1>1, <1>3 DEF CallbackRow
<1>5. r \in CallbackRow /\ r.at = "done" /\ r.push = callback[c].push /\ r.answer = what
  BY <1>2, <1>4 DEF CallbackRow
<1>6. callback' = [callback EXCEPT ![c] = r]
  BY <1>1, <1>2 DEF Answers
<1> QED BY <1>5, <1>6, CallbackMoves

\* UpdateDeposit changes no row that is not there.
LEMMA UpdatesStored ==
  ASSUME PaymentTypes, NEW d \in Pushes, NEW status \in {"COMPLETED", "FAILED"}, UpdateDeposit(d, status)
  PROVE  /\ deposit' \in [Pushes -> {"none", "PENDING", "COMPLETED", "FAILED"}]
         /\ \A e \in Pushes : deposit[e] # "none" => deposit'[e] # "none"
         /\ \A e \in Pushes : deposit'[e] = "COMPLETED" =>
              deposit[e] = "COMPLETED" \/ (e = d /\ status = "COMPLETED")
BY DEF PaymentTypes, UpdateDeposit

\* The callbacks before the wallet: delivered, refused, noted, found or ignored.
LEMMA CallbackKeeps ==
  ASSUME PaymentInvariant, NEW c \in Calls, Deliver(c) \/ Malformed(c) \/ MarkFailed(c) \/ FindByCheckoutID(c)
  PROVE  PaymentInvariant'
<1>1. /\ callback[c] \in CallbackRow /\ callback[c].answer = "none" /\ UNCHANGED <<push, credited>>
      /\ deposit \in [Pushes -> {"none", "PENDING", "COMPLETED", "FAILED"}] /\ PaymentTypes
      /\ Under(c) => callback[c].push \in Pushes
      /\ callback[c].at = "find" => push[callback[c].push].paid > 0
  BY DEF PaymentInvariant, PaymentTypes, CallbacksFollow, CallbackFollows, Under, Reached, Deliver, Malformed,
         MarkFailed, FindByCheckoutID
<1>2. CASE Malformed(c)
  BY <1>1, <1>2, AnswerEnds DEF Malformed
<1>3. CASE MarkFailed(c)
  <2>1. callback[c].push \in Pushes /\ callback[c].at = "fail"
    BY <1>1, <1>3 DEF MarkFailed, Under
  <2>2. /\ deposit' \in [Pushes -> {"none", "PENDING", "COMPLETED", "FAILED"}]
        /\ \A e \in Pushes : deposit[e] # "none" => deposit'[e] # "none"
        /\ \A e \in Pushes : deposit'[e] = "COMPLETED" => deposit[e] = "COMPLETED"
    BY <1>1, <1>3, <2>1, UpdatesStored DEF MarkFailed
  <2> QED BY <1>1, <1>3, <2>1, <2>2, AnswerEnds DEF MarkFailed
<1>4. CASE FindByCheckoutID(c)
  <2>1. CASE Answers(c, "ignored")
    BY <1>1, <1>4, <2>1, AnswerEnds DEF FindByCheckoutID
  <2>2. CASE deposit[callback[c].push] # "none" /\ callback' = [callback EXCEPT ![c].at = "credit"]
    <3>1. PICK r : r = [callback[c] EXCEPT !.at = "credit"]
      OBVIOUS
    <3>2. r \in CallbackRow /\ r.at = "credit" /\ r.push = callback[c].push /\ r.answer = "none"
      BY <1>1, <3>1 DEF CallbackRow
    <3>3. callback' = [callback EXCEPT ![c] = r] /\ deposit' = deposit /\ callback[c].at = "find"
      BY <1>4, <2>2, <3>1 DEF FindByCheckoutID
    <3>4. r.push \in Pushes
      BY <1>1, <3>2, <3>3 DEF Under
    <3>5. push[r.push].paid > 0 /\ deposit[r.push] # "none" /\ \A d \in Pushes : deposit[d] # "none" => deposit'[d] # "none"
      BY <1>1, <2>2, <3>2, <3>3
    <3>6. /\ r.at \notin {"new", "mark"} /\ r.answer \notin {"accepted", "uncredited"} /\ callback[c].at # "mark"
          /\ callback[c].answer \notin {"accepted", "uncredited"} /\ UNCHANGED <<push, credited>>
          /\ deposit' \in [Pushes -> {"none", "PENDING", "COMPLETED", "FAILED"}]
      BY <1>1, <3>2, <3>3
    <3> QED BY <3>2, <3>3, <3>4, <3>5, <3>6, CallbackMoves
  <2> QED BY <1>4, <2>1, <2>2 DEF FindByCheckoutID
<1>5. CASE Deliver(c)
  <2>1. PICK d \in Pushes, rewritten \in BOOLEAN :
          callback' = [callback EXCEPT ![c] =
            [at |-> IF ~rewritten THEN "done" ELSE IF push[d].paid > 0 THEN "find" ELSE "fail",
             push |-> d, ok |-> push[d].paid > 0, answer |-> IF rewritten THEN "none" ELSE "404"]]
    BY <1>5 DEF Deliver
  <2>2. PICK r : r = [at |-> IF ~rewritten THEN "done" ELSE IF push[d].paid > 0 THEN "find" ELSE "fail",
             push |-> d, ok |-> push[d].paid > 0, answer |-> IF rewritten THEN "none" ELSE "404"]
    OBVIOUS
  <2>3. /\ r \in CallbackRow /\ r.at \in {"done", "find", "fail"} /\ r.push = d
        /\ r.answer \in {"none", "404"} /\ (r.at \in {"find", "fail"} => r.answer = "none")
        /\ r.at = "find" => push[d].paid > 0
    <3>1. (push[d].paid > 0) \in BOOLEAN
      BY <1>1 DEF PaymentTypes
    <3> QED BY <2>2, <3>1 DEF CallbackRow
  <2>4. callback' = [callback EXCEPT ![c] = r] /\ deposit' = deposit /\ callback[c].at = "new"
    BY <1>5, <2>1, <2>2 DEF Deliver
  <2> QED BY <1>1, <2>3, <2>4, CallbackMoves
<1> QED BY <1>2, <1>3, <1>4, <1>5

\* The wallet credits the deposit of this callback, or answers an error and may have.
LEMMA CreditKeeps ==
  ASSUME PaymentInvariant, IsFiniteSet(Calls), NEW c \in Calls, CreditDeposit(c)
  PROVE  PaymentInvariant'
<1> USE DEF PaymentInvariant
<1>1. /\ callback[c] \in CallbackRow /\ callback[c].answer = "none" /\ callback[c].push \in Pushes
      /\ callback[c].at = "credit" /\ UNCHANGED <<push, deposit>>
      /\ push[callback[c].push].paid > 0 /\ deposit[callback[c].push] # "none"
  BY DEF PaymentTypes, CallbacksFollow, CallbackFollows, Under, CreditDeposit
<1>2. PICK d : d = callback[c].push
  OBVIOUS
<1>3. d \in Pushes /\ push[d].paid > 0 /\ deposit[d] # "none" /\ credited[d] \in Nat
  BY <1>1, <1>2 DEF PaymentTypes
<1>4. ASSUME NEW r \in CallbackRow, r.push = d, callback' = [callback EXCEPT ![c] = r],
             NEW k \in Nat, credited' = [credited EXCEPT ![d] = k],
             \/ r.at = "mark" /\ r.answer = "none" /\ k = credited[d] + 1
             \/ r.at = "done" /\ r.answer = "uncredited" /\ k \in {credited[d], credited[d] + 1}
      PROVE  PaymentInvariant'
  <2>1. callback'[c] = r /\ \A b \in Calls \ {c} : callback'[b] = callback[b]
    BY <1>4 DEF PaymentTypes
  <2>2. credited'[d] = k /\ \A e \in Pushes \ {d} : credited'[e] = credited[e]
    BY <1>3, <1>4 DEF PaymentTypes
  <2>3. PaymentTypes'
    BY <1>1, <1>4 DEF PaymentTypes
  <2>4. CallbacksFollow'
    <3>1. ASSUME NEW b \in Calls, b # c  PROVE CallbackFollows(b)'
      BY <1>1, <2>1, <3>1 DEF CallbacksFollow, CallbackFollows, Under, Reached
    <3>2. CallbackFollows(c)'
      BY <1>1, <1>3, <1>4, <2>1 DEF CallbackFollows, Under, Reached
    <3> QED BY <3>1, <3>2 DEF CallbacksFollow
  <2>5. /\ c \notin Crediting(d) /\ c \notin MayHaveCredited(d)
        /\ MayHaveCredited(d)' = MayHaveCredited(d) \cup {c}
        /\ Crediting(d)' = IF r.at = "mark" THEN Crediting(d) \cup {c} ELSE Crediting(d)
    BY <1>1, <1>4, <2>1 DEF Crediting, MayHaveCredited
  <2>6. /\ Cardinality(MayHaveCredited(d) \cup {c}) = Cardinality(MayHaveCredited(d)) + 1
        /\ Cardinality(Crediting(d) \cup {c}) = Cardinality(Crediting(d)) + 1
    BY <1>3, <2>5, CreditsFinite, FS_AddElement
  <2>7. CreditCounted(d)'
    <3>1. PICK m, n, l \in Nat : m = Cardinality(Crediting(d)) /\ n = Cardinality(MayHaveCredited(d)) /\ l = credited[d]
      BY <1>3, CreditsFinite
    <3>2. m <= l /\ l <= n
      BY <1>3, <3>1 DEF CreditsCounted, CreditCounted
    <3>3. Cardinality(MayHaveCredited(d)') = n + 1 /\ k \in {l, l + 1} /\ k <= n + 1
      BY <1>4, <2>5, <2>6, <3>1, <3>2
    <3>4. CASE r.at = "mark"
      <4>1. Cardinality(Crediting(d)') = m + 1 /\ k = l + 1
        BY <1>4, <2>5, <2>6, <3>1, <3>4
      <4> QED BY <2>2, <3>2, <3>3, <4>1 DEF CreditCounted
    <3>5. CASE r.at # "mark"
      <4>1. Cardinality(Crediting(d)') = m
        BY <2>5, <3>1, <3>5
      <4> QED BY <2>2, <3>2, <3>3, <4>1 DEF CreditCounted
    <3> QED BY <3>4, <3>5
  <2>8. ASSUME NEW e \in Pushes, e # d  PROVE CreditCounted(e)'
    <3>1. Crediting(e)' = Crediting(e) /\ MayHaveCredited(e)' = MayHaveCredited(e)
      BY <1>1, <1>2, <1>4, <2>1, <2>8 DEF Crediting, MayHaveCredited
    <3> QED BY <2>2, <2>8, <3>1 DEF CreditsCounted, CreditCounted
  <2>9. CompletedWasCredited'
    BY <1>1, <1>3, <1>4, <2>2 DEF CompletedWasCredited, PaymentTypes
  <2>10. PaidAsAsked' /\ CreditsCounted'
    BY <1>1, <2>7, <2>8 DEF PaidAsAsked, CreditsCounted
  <2> QED BY <2>3, <2>4, <2>9, <2>10
<1>5. CASE callback' = [callback EXCEPT ![c].at = "mark"] /\ credited' = [credited EXCEPT ![d] = @ + 1]
  <2>1. PICK r : r = [callback[c] EXCEPT !.at = "mark"]
    OBVIOUS
  <2>2. r \in CallbackRow /\ r.at = "mark" /\ r.push = d /\ r.answer = "none"
    BY <1>1, <1>2, <2>1 DEF CallbackRow
  <2>3. PICK k \in Nat : k = credited[d] + 1
    BY <1>3
  <2>4. callback' = [callback EXCEPT ![c] = r] /\ credited' = [credited EXCEPT ![d] = k]
    BY <1>5, <2>1, <2>3
  <2> QED BY <1>4, <2>2, <2>3, <2>4
<1>6. ASSUME Answers(c, "uncredited"), NEW k \in {credited[d], credited[d] + 1},
             credited' = [credited EXCEPT ![d] = k]
      PROVE  PaymentInvariant'
  <2>1. PICK q : q = [callback[c] EXCEPT !.at = "done"]
    OBVIOUS
  <2>2. PICK r : r = [q EXCEPT !.answer = "uncredited"]
    OBVIOUS
  <2>3. q \in CallbackRow /\ q.at = "done" /\ q.push = d
    BY <1>1, <1>2, <2>1 DEF CallbackRow
  <2>4. r \in CallbackRow /\ r.at = "done" /\ r.push = d /\ r.answer = "uncredited"
    BY <2>2, <2>3 DEF CallbackRow
  <2>5. callback' = [callback EXCEPT ![c] = r] /\ k \in Nat
    <3>1. k \in Nat
      BY <1>3, <1>6
    <3>2. callback' = [callback EXCEPT ![c] = r]
      BY <1>6, <2>1, <2>2 DEF Answers, PaymentTypes
    <3> QED BY <3>1, <3>2
  <2> QED BY <1>4, <1>6, <2>4, <2>5
<1>7. CASE Answers(c, "uncredited") /\ credited' = [credited EXCEPT ![d] = @ + 1]
  BY <1>6, <1>7
<1>8. CASE Answers(c, "uncredited") /\ UNCHANGED credited
  <2>1. credited' = [credited EXCEPT ![d] = credited[d]]
    BY <1>8 DEF PaymentTypes
  <2> QED BY <1>6, <1>8, <2>1
<1> QED BY <1>2, <1>5, <1>7, <1>8 DEF CreditDeposit

\* Every step of a push and of a callback keeps the invariant.
LEMMA PaymentsKept == IsFiniteSet(Calls) /\ PaymentInvariant /\ [PaymentNext]_paymentVars => PaymentInvariant'
<1> SUFFICES ASSUME IsFiniteSet(Calls), PaymentInvariant, [PaymentNext]_paymentVars  PROVE PaymentInvariant'
  OBVIOUS
<1>1. ASSUME NEW d \in Pushes, Push(d)  PROVE PaymentInvariant'
  BY <1>1, PushMoves DEF Push
<1>2. ASSUME NEW c \in Calls, Deliver(c) \/ Malformed(c) \/ MarkFailed(c) \/ FindByCheckoutID(c)
      PROVE  PaymentInvariant'
  BY <1>2, CallbackKeeps
<1>3. ASSUME NEW c \in Calls, CreditDeposit(c)  PROVE PaymentInvariant'
  BY <1>3, CreditKeeps
<1>4. ASSUME NEW c \in Calls, MarkCompleted(c)  PROVE PaymentInvariant'
  <2>1. /\ callback[c].at = "mark" /\ callback[c].push \in Pushes /\ callback[c].answer = "none" /\ PaymentTypes
        /\ UNCHANGED <<push, credited>>
    BY <1>4 DEF MarkCompleted, PaymentInvariant, CallbacksFollow, CallbackFollows, Under
  <2>2. PICK d \in Pushes : d = callback[c].push
    BY <2>1
  <2>3. credited[d] > 0
    <3>1. c \in Crediting(d) /\ IsFiniteSet(Crediting(d))
      BY <2>1, <2>2, CreditsFinite DEF Crediting
    <3>2. PICK n, l \in Nat : n = Cardinality(Crediting(d)) /\ l = credited[d]
      BY <2>1, CreditsFinite DEF PaymentTypes
    <3>3. n # 0
      BY <3>1, <3>2, FS_EmptySet
    <3>4. n <= l
      BY <3>2 DEF PaymentInvariant, CreditsCounted, CreditCounted
    <3> QED BY <3>2, <3>3, <3>4
  <2>4. UpdateDeposit(d, "COMPLETED") /\ Answers(c, "accepted")
    BY <1>4, <2>2 DEF MarkCompleted
  <2>5. /\ deposit' \in [Pushes -> {"none", "PENDING", "COMPLETED", "FAILED"}]
        /\ \A e \in Pushes : deposit[e] # "none" => deposit'[e] # "none"
        /\ \A e \in Pushes : deposit'[e] = "COMPLETED" => deposit[e] = "COMPLETED" \/ credited[e] > 0
    BY <2>1, <2>3, <2>4, UpdatesStored
  <2> QED BY <2>1, <2>4, <2>5, AnswerEnds
<1>5. CASE UNCHANGED <<push, deposit, callback, credited>>
  BY <1>5 DEF PaymentInvariant, PaymentTypes, PaidAsAsked, CallbacksFollow, CallbackFollows, CreditsCounted,
         CreditCounted, Crediting, MayHaveCredited, CompletedWasCredited, Under, Reached
<1>6. ProcessWithdrawal \/ AskMpesa \/ b2cResult \/ Charge \/ Store \/ UNCHANGED paymentVars
        => UNCHANGED <<push, deposit, callback, credited>>
  BY DEF ProcessWithdrawal, AskMpesa, b2cResult, Charge, Store, paymentVars
<1> QED BY <1>1, <1>2, <1>3, <1>4, <1>5, <1>6 DEF PaymentNext, stkCallback

-----------------------------------------------------------------------------
(* The components together.  They share no state, so a step of MCSportsbook   *)
(* is a step of one component and leaves the others alone.                    *)

SportsbookInvariant ==
  /\ SlipsInvariant /\ PriceInvariant /\ JackpotInvariant /\ ShutInvariant
  /\ OddsInvariant /\ PaceInvariant
  /\ ComplianceInvariant /\ AccountsInvariant /\ CatalogInvariant
  /\ PaymentInvariant

\* Every component starts as its own Init says.
LEMMA SportsbookAtFirst == SportsbookInit => SportsbookInvariant
<1> SUFFICES ASSUME SportsbookInit  PROVE SportsbookInvariant
  OBVIOUS
<1>1. /\ SportInit /\ PriceInit /\ JackpotInit /\ VirtualInit /\ OddsInit /\ ProviderInit
      /\ ComplianceInit /\ AccountsInit /\ CatalogInit /\ PaymentInit
  BY DEF SportsbookInit
<1>2. SlipsInvariant /\ ShutInvariant /\ OddsInvariant /\ PaceInvariant /\ ComplianceInvariant /\ PaymentInvariant
  BY <1>1, SlipsAtFirst, ShutAtFirst, OddsAtFirst, ProvidersAtFirst, ComplianceAtFirst, PaymentsAtFirst
<1>3. PriceInvariant
  BY <1>1, PricesAtFirst, LivePricesAssumption
<1>4. JackpotInvariant
  BY <1>1, JackpotsAtFirst, JackpotsAssumption
<1>5. AccountsInvariant /\ CatalogInvariant
  BY <1>1, AccountsAtFirst, AccountsAssumption, CatalogAtFirst, CatalogAssumption
<1> QED BY <1>2, <1>3, <1>4, <1>5 DEF SportsbookInvariant

\* A step is one of every component, or leaves it alone.
LEMMA StepsApart ==
  ASSUME [SportsbookNext]_sportsbookVars
  PROVE  /\ [SportNext]_sportVars /\ [PriceNext]_priceVars /\ [JackpotNext]_jackpotVars /\ [VirtualNext]_virtualVars
         /\ [OddsNext]_oddsVars /\ [ProviderNext]_providerVars
         /\ [ComplianceNext]_complianceVars /\ [AccountsNext]_accountVars /\ [CatalogNext]_catalogVars
         /\ [PaymentNext]_paymentVars
<1>1. UNCHANGED bettingVars => UNCHANGED sportVars /\ UNCHANGED priceVars /\ UNCHANGED jackpotVars /\ UNCHANGED virtualVars
  BY DEF bettingVars
<1>2. UNCHANGED feedVars => UNCHANGED oddsVars /\ UNCHANGED providerVars
  BY DEF feedVars
<1>3. UNCHANGED recordVars => UNCHANGED complianceVars /\ UNCHANGED accountVars /\ UNCHANGED catalogVars
  BY DEF recordVars
<1>4. UNCHANGED moneyVars => UNCHANGED paymentVars
  BY DEF moneyVars
<1>5. CASE UNCHANGED sportsbookVars
  BY <1>1, <1>2, <1>3, <1>4, <1>5 DEF sportsbookVars
<1>6. CASE Betting /\ UNCHANGED <<feedVars, recordVars, moneyVars>>
  BY <1>2, <1>3, <1>4, <1>6 DEF Betting
<1>7. CASE Feeds /\ UNCHANGED <<bettingVars, recordVars, moneyVars>>
  BY <1>1, <1>3, <1>4, <1>7 DEF Feeds
<1>8. CASE Records /\ UNCHANGED <<bettingVars, feedVars, moneyVars>>
  BY <1>1, <1>2, <1>4, <1>8 DEF Records
<1>9. CASE Money /\ UNCHANGED <<bettingVars, feedVars, recordVars>>
  BY <1>1, <1>2, <1>3, <1>9 DEF Money
<1> QED BY <1>5, <1>6, <1>7, <1>8, <1>9 DEF SportsbookNext

\* So every step keeps every component's invariant.
LEMMA SportsbookKept == SportsbookInvariant /\ [SportsbookNext]_sportsbookVars => SportsbookInvariant'
<1> SUFFICES ASSUME SportsbookInvariant, [SportsbookNext]_sportsbookVars  PROVE SportsbookInvariant'
  OBVIOUS
<1> USE StepsApart DEF SportsbookInvariant
<1>1. SlipsInvariant' /\ ShutInvariant'
  BY SlipsKept, ShutKept
<1>2. PriceInvariant'
  BY PricesKept, LivePricesAssumption
<1>3. JackpotInvariant'
  BY JackpotsKept, JackpotsAssumption
<1>4. OddsInvariant' /\ PaceInvariant'
  BY OddsKept, ProvidersKept
<1>5. ComplianceInvariant' /\ AccountsInvariant' /\ CatalogInvariant'
  BY ComplianceKept, AccountsKept, CatalogStays
<1>6. PaymentInvariant'
  BY PaymentsKept, PaymentsAssumption
<1> QED BY <1>1, <1>2, <1>3, <1>4, <1>5, <1>6

\* Every reachable state of every component satisfies its invariant.
THEOREM SportsbookInvariantHolds == SportsbookSpec => []SportsbookInvariant
BY SportsbookAtFirst, SportsbookKept, PTL DEF SportsbookSpec

\* Whatever edits overlap or fail, a stored bet stands for no more than was placed and
\* debited for it, and for exactly that less the refunds when its edits came one after the
\* other and none moved money without writing the row (bet_edit service).  Whatever
\* purchases and draws overlap or fail, no prize exceeds what its jackpot began with and was
\* contributed (jackpot service).  A deposit is credited once for each callback that knows
\* of its credit and at most once more for each told of an error, and only when stored and
\* paid (payment callbacks): that one payment is credited once is not claimed.
THEOREM MoneyHolds == SportsbookSpec => []MoneyAddsUp
<1>1. SportsbookInvariant => MoneyAddsUp
  BY SlipsAlways, JackpotsAlways, JackpotsAssumption, PaymentsAlways, PaymentsAssumption
     DEF SportsbookInvariant, MoneyAddsUp
<1> QED BY <1>1, SportsbookInvariantHolds, PTL

\* When the updates of a match came one after the other, its count is their number and,
\* unless the last Publish failed, the odds published last are those in force; of any
\* updates, none is counted twice (live sports).  However syncs and quotes interleave, a
\* quote uses no price older than the cache's time to live and a sync's together (odds
\* engine).  As long as no two tries overlapped, or the bucket is the locked one, no interval
\* of the limiter lets through more than a full bucket and one (provider clients).
THEOREM PricesHold == SportsbookSpec => []PricesAreCurrent
<1>1. SportsbookInvariant => PricesAreCurrent
  BY PricesAlways, LivePricesAssumption, ProvidersAlways DEF SportsbookInvariant, OddsInvariant, PricesAreCurrent
<1> QED BY <1>1, SportsbookInvariantHolds, PTL

\* Checks apart, the stakes stay within the limits of the day and of the month (BCLB
\* compliance); whom a row, a token or a bet calls verified the provider verified, or the
\* caller that wrote the row (identity);
\* the catalogue's rows are what was written to them; no virtual game takes a bet.
THEOREM RecordsHold == SportsbookSpec => []RecordsAgree
<1>1. SportsbookInvariant => RecordsAgree
  BY ComplianceAlways, AccountsAlways, CatalogAlways, ShutAlways DEF SportsbookInvariant, RecordsAgree
<1> QED BY <1>1, SportsbookInvariantHolds, PTL
=============================================================================
