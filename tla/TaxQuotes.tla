----------------------------- MODULE TaxQuotes -----------------------------
(***************************************************************************)
(* Quotes of the tax engine on one bet whose payout grows cent by cent:    *)
(* what the rounding and the threshold of Tax do to consecutive payouts.   *)
(***************************************************************************)
EXTENDS Tax

CONSTANTS
  MaxBet,     \* bounds the stake, in cents
  MaxPayout   \* bounds the gross payout, in cents

ASSUME QuotesAssumption == MaxBet \in Nat /\ MaxPayout \in Nat

VARIABLES
  country,  \* where the bet is taxed
  bet,      \* gross stake
  payout    \* gross payout quoted

quotesVars == <<country, bet, payout>>

QuotesInit ==
  /\ country \in DOMAIN Regimes
  /\ bet \in {b \in 0 .. MaxBet : ~StakeTaxRefused(country, b)}
  /\ payout = 0

\* ApplyPayoutTax is asked for the next payout.
Ask ==
  /\ payout < MaxPayout
  /\ ~PayoutTaxRefused(country, payout + 1, bet)
  /\ payout' = payout + 1
  /\ UNCHANGED <<country, bet>>

QuotesNext == Ask

QuotesSpec == QuotesInit /\ [][QuotesNext]_quotesVars

Quote == PayoutBreakdown(country, payout, bet)

\* decimal.Round(2) rounds to the nearest cent and half a cent away from
\* zero, on the stake tax as on the winnings tax.
Nearest(tax, amount, rate) ==
  LET error == Basis * tax - amount * rate
  IN  -Basis < 2 * error /\ 2 * error <= Basis

TaxIsNearestCent ==
  /\ Nearest(StakeBreakdown(country, bet).tax, bet, Regimes[country].stakeRate)
  /\ Nearest(Quote.tax, Quote.taxable, Regimes[country].winningsRate)

\* A winning bet never nets less than its stake: only winnings are taxed
\* (the doc comment of ApplyPayoutTax).
StakeNeverTaxedAsWinnings ==
  Quote.net >= IF payout < bet THEN payout ELSE bet

\* A better result never nets less: neither the rounding nor the threshold
\* makes a cliff.
NetGrowsWithPayout == [][Quote'.net >= Quote.net]_quotesVars
=============================================================================
