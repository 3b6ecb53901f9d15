-------------------------------- MODULE Tax --------------------------------
(***************************************************************************)
(* The tax engine (internal/core/usecase/tax/tax.go).  Money is an integer *)
(* number of cents and a rate an integer number of basis points, so that   *)
(* decimal.Round(2) -- half away from zero -- is integer division.         *)
(***************************************************************************)
EXTENDS Integers

CONSTANTS
  Countries,   \* country codes a caller may ask for
  Regimes      \* Engine.regimes: a function from the configured countries

Basis == 10000

Regime ==
  [stakeRate : Nat, winningsRate : Nat, threshold : Nat]

\* New() refuses a regime that validateRegime refuses, so every regime an
\* engine holds satisfies this.
ValidRegime(r) ==
  /\ r \in Regime
  /\ r.stakeRate < Basis
  /\ r.winningsRate < Basis

ASSUME RegimesAssumption ==
  /\ DOMAIN Regimes \subseteq Countries
  /\ \A c \in DOMAIN Regimes : ValidRegime(Regimes[c])

\* Variant with a bug: the fraction of a cent is dropped.
Truncated(amount, rate) == (amount * rate) \div Basis

\* amount.Mul(rate).Round(2) for a non-negative amount.
TaxOn(amount, rate) == (amount * rate + Basis \div 2) \div Basis

Configured(country) == country \in DOMAIN Regimes

\* ApplyStakeTax: the breakdown, and when it returns an error instead (the
\* check of a negative net stake included).
StakeBreakdown(country, gross) ==
  LET tax == TaxOn(gross, Regimes[country].stakeRate)
  IN  [gross |-> gross, tax |-> tax, net |-> gross - tax]

StakeTaxRefused(country, gross) ==
  \/ gross < 0
  \/ ~Configured(country)
  \/ StakeBreakdown(country, gross).net < 0

Excess(a, b) == IF a > b THEN a - b ELSE 0

Payout(country, gross, stake, taxable) ==
  LET tax == TaxOn(taxable, Regimes[country].winningsRate)
  IN  [gross |-> gross, winnings |-> Excess(gross, stake),
       taxable |-> taxable, tax |-> tax, net |-> gross - tax]

\* Variant with a bug: winnings above the threshold are taxed from the first cent.
CliffPayout(country, gross, stake) ==
  LET winnings == Excess(gross, stake)
  IN  Payout(country, gross, stake,
        IF winnings > Regimes[country].threshold THEN winnings ELSE 0)

\* Variant with a bug: the stake is taken for winnings.
WholePayout(country, gross, stake) ==
  Payout(country, gross, stake, Excess(gross, Regimes[country].threshold))

\* ApplyPayoutTax: only the winnings above the threshold are taxed.
PayoutBreakdown(country, gross, stake) ==
  LET winnings == Excess(gross, stake)
  IN  Payout(country, gross, stake,
        IF winnings = 0 THEN 0
        ELSE Excess(winnings, Regimes[country].threshold))

PayoutTaxRefused(country, gross, stake) ==
  gross < 0 \/ stake < 0 \/ ~Configured(country)
=============================================================================
