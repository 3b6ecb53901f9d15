---------------------------- MODULE MCSportsbook ----------------------------
(***************************************************************************)
(* The Go components that share no state in this model, one at a time: the *)
(* run picks one of them and lets it go.                                   *)
(***************************************************************************)
EXTENDS SportBets, LivePrices, Jackpots, Payments, OddsQuotes, StoredOdds,
        ProviderClients, Compliance, Accounts, WalletRows, CatalogRows, VirtualSports, TaxQuotes

CONSTANTS c1, c2, c3

VARIABLE active  \* the component this behaviour is about

\* Rates of 0, 15, 20 and 99.99%, with and without a threshold.
MCRegime(s, w, t) == [stakeRate |-> s, winningsRate |-> w, threshold |-> t]
MCRegimes ==
  [c \in {"KE", "NG", "GH", "ZZ"} |->
     CASE c = "KE" -> MCRegime(1500, 2000, 0)
       [] c = "NG" -> MCRegime(0, 500, 25)
       [] c = "GH" -> MCRegime(1250, 0, 0)
       [] c = "ZZ" -> MCRegime(9999, 9999, 10)]
MCCountries == {"KE", "NG", "GH", "ZZ"}
MCLimits == [day |-> 3, week |-> 4, month |-> 5]
\* No code looks at the sign of a stake.
MCAmounts == {-1, 0, 1, 2}

Alone(name) == active = name /\ UNCHANGED active

bettingVars == <<sportVars, priceVars, jackpotVars, virtualVars>>
feedVars == <<oddsVars, shelf, providerVars>>
recordVars == <<complianceVars, accountVars, rowVars, catalogVars>>
moneyVars == <<paymentVars, quotesVars>>
sportsbookVars == <<active, bettingVars, feedVars, recordVars, moneyVars>>

SportsbookInit ==
  /\ active \in {"bets", "prices", "jackpots", "virtuals", "odds", "shelf", "providers",
                 "compliance", "accounts", "wallets", "catalog", "payments", "taxes"}
  /\ SportInit /\ PriceInit /\ JackpotInit /\ VirtualInit /\ OddsInit /\ ShelfInit /\ ProviderInit
  /\ ComplianceInit /\ AccountsInit /\ RowsInit /\ CatalogInit /\ PaymentInit
  /\ QuotesInit /\ (active = "taxes" \/ (country = "KE" /\ bet = 0))

Betting ==
  \/ Alone("bets") /\ SportNext /\ UNCHANGED <<priceVars, jackpotVars, virtualVars>>
  \/ Alone("prices") /\ PriceNext /\ UNCHANGED <<sportVars, jackpotVars, virtualVars>>
  \/ Alone("jackpots") /\ JackpotNext /\ UNCHANGED <<sportVars, priceVars, virtualVars>>
  \/ Alone("virtuals") /\ VirtualNext /\ UNCHANGED <<sportVars, priceVars, jackpotVars>>
Feeds ==
  \/ Alone("odds") /\ OddsNext /\ UNCHANGED <<shelf, providerVars>>
  \/ Alone("shelf") /\ ShelfNext /\ UNCHANGED <<oddsVars, providerVars>>
  \/ Alone("providers") /\ ProviderNext /\ UNCHANGED <<oddsVars, shelf>>
Records ==
  \/ Alone("compliance") /\ ComplianceNext /\ UNCHANGED <<accountVars, rowVars, catalogVars>>
  \/ Alone("accounts") /\ AccountsNext /\ UNCHANGED <<complianceVars, rowVars, catalogVars>>
  \/ Alone("wallets") /\ RowsNext /\ UNCHANGED <<complianceVars, accountVars, catalogVars>>
  \/ Alone("catalog") /\ CatalogNext /\ UNCHANGED <<complianceVars, accountVars, rowVars>>
Money ==
  \/ Alone("payments") /\ PaymentNext /\ UNCHANGED quotesVars
  \/ Alone("taxes") /\ QuotesNext /\ UNCHANGED paymentVars

SportsbookNext ==
  \/ Betting /\ UNCHANGED <<feedVars, recordVars, moneyVars>>
  \/ Feeds /\ UNCHANGED <<bettingVars, recordVars, moneyVars>>
  \/ Records /\ UNCHANGED <<bettingVars, feedVars, moneyVars>>
  \/ Money /\ UNCHANGED <<bettingVars, feedVars, recordVars>>
SportsbookSpec == SportsbookInit /\ [][SportsbookNext]_sportsbookVars

-----------------------------------------------------------------------------
\* Money moves no further than what stands for it.  An edited bet stands for no more than
\* was placed and debited for it, whatever edits overlap or fail; a prize is covered by what
\* its jackpot began with and was contributed, whatever purchases and draws overlap; a
\* deposit is credited no more often than its callbacks were told of a credit or an error.
\* The rest the code keeps only when calls come apart, and the parts say so: the bet's
\* exact amount, and one prize for a ticket.  It never promises one credit for a payment
\* that is reported twice, nor that a contribution of overlapping purchases survives.
MoneyAddsUp == SlipsPaidApart /\ PrizesAreCovered /\ CreditedAsReported

\* The odds published last are those in force when updates came apart and the last Publish
\* did not fail; a quote's price is no older than the cache keeps it and a sync takes
\* (OddsTTL + Lag), whatever syncs and quotes interleave; and a feed is asked no faster than
\* its limiter's pace, by the locked bucket always and by the others as long as no two
\* tries overlapped.
PricesAreCurrent == PricesPublishedApart /\ QuotesAreRecent /\ PaceKept

\* What a check or an answer rests on is what was recorded: the loss limit of calls apart,
\* the verdict on a user of the provider or of the row's writer, the catalogue's rows, and
\* virtual games once shut.
RecordsAgree == LimitHeldApart /\ VerifiedByProvider /\ CatalogKept /\ VirtualGamesStayShut
=============================================================================
